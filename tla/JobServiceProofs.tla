-------------------------- MODULE JobServiceProofs --------------------------
(***************************************************************************)
(* For every set of jobs and sessions and every retry budget: job-service  *)
(* keeps its types, never counts a retry past the budget, never counts one *)
(* it did not try to enqueue, never gives a job up early, and, while Kafka  *)
(* is healthy, never stores a status whose event it did not send.          *)
(***************************************************************************)
EXTENDS JobService, FiniteSetTheorems, TLAPS

-----------------------------------------------------------------------------
(* Type correctness *)

LEMMA MaxRetriesType == \A j \in Job : MaxRetries[j] \in Nat
BY JobTypesAssumption

\* A busy session serves a well-formed request.
LEMMA BusyRequest ==
  ASSUME ServiceTypeOK, NEW h \in Handler, Busy(h)
  PROVE  handler[h] \in Request
BY DEF ServiceTypeOK, Busy

\* What update_job_status computes from a row is a row.
LEMMA UpdatedType ==
  ASSUME NEW j \in Job, NEW old \in Row, NEW st \in JobStatus
  PROVE  Updated(j, old, st) \in Row
BY DEF Updated, MayRetry, Row, JobStatus

\* Merging what a handler changed into the current row gives a row.
LEMMA MergeType ==
  ASSUME NEW c \in Row, NEW old \in Row, NEW new \in Row
  PROVE  Merge(c, old, new) \in Row
BY DEF Merge, Row

\* A send leaves a topic of jobs.
LEMMA SendType ==
  ASSUME TopicsTypeOK, NEW j \in Job
  PROVE  /\ SendTo(submissions, j) => submissions' \in Seq(Job)
         /\ SendTo(cancellations, j) => cancellations' \in Seq(Job)
         /\ Append(submissions, j) \in Seq(Job)
<1>1. Append(submissions, j) \in Seq(Job) /\ Append(cancellations, j) \in Seq(Job)
  BY DEF TopicsTypeOK
<1> QED
  BY <1>1 DEF TopicsTypeOK, SendTo

\* Every action replaces the request of one session by a request or by Idle.
LEMMA AcceptType ==
  ASSUME ServiceTypeOK, NEW h \in Handler, NEW j \in Job, NEW c \in Caller,
         NEW op \in {"create", "update", "cancel"}, NEW pc \in {"select", "send"},
         NEW st \in JobStatus, NEW new \in Row,
         Accept(h, op, j, c, pc, st, new)
  PROVE  ServiceTypeOK'
<1>1. NoRow \in Row
  BY DEF NoRow, Row
<1>2. [pc |-> pc, op |-> op, job |-> j, from |-> c, status |-> st,
       old |-> NoRow, new |-> new] \in Request
  BY <1>1 DEF Request
<1> QED
  BY <1>2 DEF ServiceTypeOK, TopicsTypeOK, Accept

LEMMA ContinueType ==
  ASSUME ServiceTypeOK, NEW h \in Handler, Busy(h),
         NEW pc \in {"send", "commit"}, NEW old \in Row, NEW new \in Row,
         Continue(h, pc, old, new)
  PROVE  handler' \in [Handler -> Request \cup {Idle}]
<1>1. handler[h] \in Request
  BY BusyRequest
<1>2. [handler[h] EXCEPT !.pc = pc, !.old = old, !.new = new] \in Request
  BY <1>1 DEF Request
<1> QED
  BY <1>2 DEF ServiceTypeOK, Continue

LEMMA ReplyType ==
  ASSUME ServiceTypeOK, NEW h \in Handler, Reply(h)
  PROVE  handler' \in [Handler -> Request \cup {Idle}]
BY DEF ServiceTypeOK, Reply

-----------------------------------------------------------------------------
LEMMA ReceiveTypeOK ==
  ASSUME ServiceTypeOK, NEW h \in Handler, Receive(h)
  PROVE  ServiceTypeOK'
<1>1. PICK j \in Job, c \in Caller :
        \/ ReceiveCreate(h, j, c)
        \/ ReceiveCancel(h, j, c)
        \/ \E st \in Callback : ReceiveUpdate(h, j, st, c)
  BY DEF Receive
<1>2. NoRow \in Row /\ [status |-> "PENDING", retry |-> 0] \in Row
  BY DEF NoRow, Row, JobStatus
<1>3. CASE ReceiveCreate(h, j, c)
  BY <1>2, <1>3, AcceptType DEF ReceiveCreate, JobStatus
<1>4. CASE ReceiveCancel(h, j, c)
  BY <1>2, <1>4, AcceptType DEF ReceiveCancel, JobStatus
<1>5. CASE \E st \in Callback : ReceiveUpdate(h, j, st, c)
  BY <1>2, <1>5, AcceptType DEF ReceiveUpdate, Callback, JobStatus
<1> QED
  BY <1>1, <1>3, <1>4, <1>5

LEMMA HandlerStepTypeOK ==
  ASSUME ServiceTypeOK, NEW h \in Handler, HandlerStep(h)
  PROVE  ServiceTypeOK'
<1>1. Busy(h) /\ handler[h] \in Request
  BY BusyRequest DEF HandlerStep, SelectForUpdate, SelectForCancel, SendCreate,
                     SendRetry, SendCancel, Commit
<1> DEFINE j == handler[h].job
           old == row[j]
<1>2. j \in Job /\ old \in Row /\ handler[h].status \in JobStatus
      /\ handler[h].old \in Row /\ handler[h].new \in Row
  BY <1>1 DEF ServiceTypeOK, Request
<1>3. CASE SelectForUpdate(h)
  <2>1. handler' \in [Handler -> Request \cup {Idle}]
    <3>1. CASE Reply(h)
      BY <3>1, ReplyType
    <3>2. CASE Continue(h, IF MayRetry(j, old, handler[h].status) THEN "send"
                           ELSE "commit",
                        old, Updated(j, old, handler[h].status))
      <4>1. Updated(j, old, handler[h].status) \in Row
        BY <1>2, UpdatedType
      <4> QED
        BY <1>1, <1>2, <3>2, <4>1, ContinueType
    <3> QED
      BY <1>3, <3>1, <3>2 DEF SelectForUpdate
  <2>2. active' \in Int
    BY <1>3 DEF SelectForUpdate, ServiceTypeOK, ActiveDelta
  <2> QED
    BY <1>3, <2>1, <2>2 DEF SelectForUpdate, ServiceTypeOK, TopicsTypeOK
<1>4. CASE SelectForCancel(h)
  <2>1. [old EXCEPT !.status = "CANCELLED"] \in Row
    BY <1>2 DEF Row, JobStatus
  <2>2. handler' \in [Handler -> Request \cup {Idle}]
    BY <1>1, <1>2, <1>4, <2>1, ReplyType, ContinueType DEF SelectForCancel
  <2> QED
    BY <1>4, <2>2 DEF SelectForCancel, ServiceTypeOK, TopicsTypeOK
<1>5. CASE SendCreate(h)
  <2>1. NoRow \in Row /\ [status |-> "QUEUED", retry |-> 0] \in Row
    BY DEF NoRow, Row, JobStatus
  <2>2. handler' \in [Handler -> Request \cup {Idle}]
    BY <1>1, <1>2, <1>5, <2>1, ContinueType DEF SendCreate
  <2>3. submissions' \in Seq(Job)
    BY <1>2, <1>5, SendType DEF SendCreate, ServiceTypeOK
  <2>4. active' \in Int
    BY <1>5 DEF SendCreate, ServiceTypeOK
  <2> QED
    BY <1>5, <2>2, <2>3, <2>4 DEF SendCreate, ServiceTypeOK, TopicsTypeOK
<1>6. CASE SendRetry(h)
  <2>1. handler' \in [Handler -> Request \cup {Idle}]
    BY <1>1, <1>2, <1>6, ContinueType DEF SendRetry
  <2>2. submissions' \in Seq(Job) /\ requeues' \in [Job -> Nat]
    BY <1>2, <1>6, SendType DEF SendRetry, ServiceTypeOK
  <2> QED
    BY <1>6, <2>1, <2>2 DEF SendRetry, ServiceTypeOK, TopicsTypeOK
<1>7. CASE SendCancel(h)
  <2>1. handler' \in [Handler -> Request \cup {Idle}]
    BY <1>1, <1>2, <1>7, ContinueType DEF SendCancel
  <2>2. cancellations' \in Seq(Job)
    BY <1>2, <1>7, SendType DEF SendCancel, ServiceTypeOK
  <2> QED
    BY <1>7, <2>1, <2>2 DEF SendCancel, ServiceTypeOK, TopicsTypeOK
<1>8. CASE Commit(h)
  <2>1. Merge(old, handler[h].old, handler[h].new) \in Row
    BY <1>2, MergeType
  <2>2. row' \in [Job -> Row]
    BY <1>2, <1>8, <2>1 DEF Commit, ServiceTypeOK
  <2>3. handler' \in [Handler -> Request \cup {Idle}]
    BY <1>8, ReplyType DEF Commit
  <2> QED
    BY <1>8, <2>2, <2>3 DEF Commit, ServiceTypeOK, TopicsTypeOK
<1> QED
  BY <1>3, <1>4, <1>5, <1>6, <1>7, <1>8 DEF HandlerStep

LEMMA AbortTypeOK ==
  ASSUME ServiceTypeOK, NEW h \in Handler, Abort(h)
  PROVE  ServiceTypeOK'
<1>1. handler' \in [Handler -> Request \cup {Idle}]
  BY ReplyType DEF Abort
<1>2. aborts' \in 0..MaxAborts
  BY JobServiceAssumption DEF Abort, ServiceTypeOK
<1> QED
  BY <1>1, <1>2 DEF Abort, ServiceTypeOK, TopicsTypeOK

\* Every variable of job-service keeps its type.
THEOREM ServiceTypeCorrect == ServiceSpec => []ServiceTypeOK
<1>1. ServiceInit => ServiceTypeOK
  BY JobServiceAssumption
     DEF ServiceInit, ServiceTypeOK, TopicsInit, TopicsTypeOK, NoRow, Row
<1>2. ServiceTypeOK /\ [ServiceNext]_serviceVars => ServiceTypeOK'
  <2> SUFFICES ASSUME ServiceTypeOK, [ServiceNext]_serviceVars
               PROVE  ServiceTypeOK'
    OBVIOUS
  <2>1. CASE ServiceNext
    BY <2>1, ReceiveTypeOK, HandlerStepTypeOK, AbortTypeOK DEF ServiceNext
  <2>2. CASE UNCHANGED serviceVars
    BY <2>2 DEF serviceVars, apiVars, ServiceTypeOK, TopicsTypeOK
  <2> QED
    BY <2>1, <2>2
<1> QED
  BY <1>1, <1>2, PTL DEF ServiceSpec

-----------------------------------------------------------------------------
(* The retry counter.  A step changes one session and never takes a send    *)
(* back, so what the other sessions and the rows are owed stays paid; what  *)
(* is left of each action is its own request or its own row.                *)

RowsCorrect == RetryWithinBudget /\ RetryBacked /\ DeadAfterAllRetries

SendsGrow == \A j \in Job : requeues'[j] >= requeues[j]

OnlySession(h) == \A g \in Handler \ {h} : handler'[g] = handler[g]

LEMMA RowsStayCorrect ==
  ASSUME ServiceTypeOK, ServiceTypeOK', RowsCorrect, SendsGrow, UNCHANGED row
  PROVE  RowsCorrect'
BY MaxRetriesType
   DEF RowsCorrect, RetryWithinBudget, RetryBacked, DeadAfterAllRetries,
       SendsGrow, ServiceTypeOK, Row

LEMMA BackedStaysBacked ==
  ASSUME ServiceTypeOK, ServiceTypeOK', SendsGrow, NEW q \in Request,
         RequestBacked(q)
  PROVE  RequestBacked(q)'
<1>1. /\ q.job \in Job /\ q.old.retry \in Nat /\ q.new.retry \in Nat
      /\ requeues[q.job] \in Nat /\ requeues'[q.job] \in Nat
      /\ requeues'[q.job] >= requeues[q.job] /\ MaxRetries[q.job] \in Nat
  BY MaxRetriesType DEF ServiceTypeOK, SendsGrow, Request, Row
<1> QED
  BY <1>1 DEF RequestBacked

\* A step of session h keeps RetryInvariant if it keeps the rows correct and
\* leaves h idle or with a request that is backed.
LEMMA OneSessionSuffices ==
  ASSUME ServiceTypeOK, ServiceTypeOK', RetryInvariant, NEW h \in Handler,
         SendsGrow, OnlySession(h), RowsCorrect',
         Busy(h)' => RequestBacked(handler[h])'
  PROVE  RetryInvariant'
<1>1. ASSUME NEW g \in Handler, Busy(g)'
      PROVE  RequestBacked(handler[g])'
  <2>1. CASE g = h
    BY <1>1, <2>1
  <2>2. CASE g # h
    <3>1. handler'[g] = handler[g] /\ Busy(g)
      BY <1>1, <2>2 DEF OnlySession, Busy
    <3>2. handler[g] \in Request /\ RequestBacked(handler[g])
      BY <3>1, BusyRequest DEF RetryInvariant
    <3>3. \A x \in Request : RequestBacked(x) => (RequestBacked(x))'
      BY BackedStaysBacked
    <3> QED
      BY <3>1, <3>2, <3>3 DEF RequestBacked
  <2> QED
    BY <2>1, <2>2
<1> QED
  BY <1>1 DEF RetryInvariant, RowsCorrect

\* A session that has just replied owes nothing.
LEMMA ReplyKeepsRetry ==
  ASSUME ServiceTypeOK, ServiceTypeOK', RetryInvariant, NEW h \in Handler,
         Reply(h), SendsGrow, RowsCorrect'
  PROVE  RetryInvariant'
<1>1. ~Busy(h)' /\ OnlySession(h)
  BY DEF Reply, Busy, OnlySession, ServiceTypeOK
<1> QED
  BY <1>1, OneSessionSuffices

\* Nothing but the handler table changes its sessions: rows and sends kept.
LEMMA NothingSent ==
  ASSUME ServiceTypeOK, ServiceTypeOK', RetryInvariant,
         UNCHANGED <<row, requeues>>
  PROVE  SendsGrow /\ RowsCorrect'
<1>1. SendsGrow
  BY DEF SendsGrow, ServiceTypeOK
<1> QED
  BY <1>1, RowsStayCorrect DEF RetryInvariant, RowsCorrect

LEMMA ReceiveKeepsRetry ==
  ASSUME ServiceTypeOK, ServiceTypeOK', RetryInvariant,
         NEW h \in Handler, Receive(h)
  PROVE  RetryInvariant'
<1>1. PICK j \in Job, c \in Caller :
        \/ ReceiveCreate(h, j, c)
        \/ ReceiveCancel(h, j, c)
        \/ \E st \in Callback : ReceiveUpdate(h, j, st, c)
  BY DEF Receive
<1>2. OnlySession(h) /\ UNCHANGED <<row, requeues>>
  BY <1>1 DEF ReceiveCreate, ReceiveCancel, ReceiveUpdate, Accept, OnlySession,
              ServiceTypeOK
<1>3. requeues[j] \in Nat /\ MaxRetries[j] \in Nat
  BY MaxRetriesType DEF ServiceTypeOK
<1>4. RequestBacked(handler[h])'
  <2>1. CASE ReceiveCreate(h, j, c)
    BY <1>2, <1>3, <2>1 DEF ReceiveCreate, Accept, RequestBacked, ServiceTypeOK
  <2>2. CASE ReceiveCancel(h, j, c)
    BY <2>2 DEF ReceiveCancel, Accept, RequestBacked, ServiceTypeOK
  <2>3. CASE \E st \in Callback : ReceiveUpdate(h, j, st, c)
    BY <2>3 DEF ReceiveUpdate, Accept, RequestBacked, ServiceTypeOK
  <2> QED
    BY <1>1, <2>1, <2>2, <2>3
<1> QED
  BY <1>2, <1>4, NothingSent, OneSessionSuffices

LEMMA HandlerStepKeepsRetry ==
  ASSUME ServiceTypeOK, ServiceTypeOK', RetryInvariant,
         NEW h \in Handler, HandlerStep(h)
  PROVE  RetryInvariant'
<1> DEFINE q == handler[h]
           j == q.job
<1>1. Busy(h) /\ q \in Request
  BY BusyRequest DEF HandlerStep, SelectForUpdate, SelectForCancel, SendCreate,
                     SendRetry, SendCancel, Commit
<1>2. RequestBacked(q)
  BY <1>1 DEF RetryInvariant
<1>3. /\ j \in Job /\ row[j] \in Row /\ q.old \in Row /\ q.new \in Row
      /\ requeues[j] \in Nat /\ MaxRetries[j] \in Nat
  BY <1>1, MaxRetriesType DEF ServiceTypeOK, Request
<1>4. /\ row[j].retry \in Nat /\ row[j].retry <= requeues[j]
      /\ row[j].retry <= MaxRetries[j]
      /\ row[j].status = "DEAD" => requeues[j] >= MaxRetries[j]
  BY <1>3 DEF RetryInvariant, RetryWithinBudget, RetryBacked,
              DeadAfterAllRetries, Row
<1>5. CASE SelectForUpdate(h)
  <2>1. UNCHANGED <<row, requeues>> /\ q.op = "update" /\ q.pc = "select"
    BY <1>5 DEF SelectForUpdate
  <2>2. q.status \in Callback
    BY <1>2, <2>1 DEF RequestBacked
  <2>3. CASE Reply(h)
    BY <2>1, <2>3, NothingSent, ReplyKeepsRetry
  <2>4. CASE Continue(h, IF MayRetry(j, row[j], q.status) THEN "send"
                         ELSE "commit",
                      row[j], Updated(j, row[j], q.status))
    <3>1. OnlySession(h)
      BY <2>4 DEF Continue, OnlySession, ServiceTypeOK
    <3> DEFINE p == handler'[h]
    <3>2. /\ p.op = "update" /\ p.job = j /\ p.status = q.status
          /\ p.old = row[j] /\ p.new = Updated(j, row[j], q.status)
          /\ p.pc = IF MayRetry(j, row[j], q.status) THEN "send" ELSE "commit"
      BY <1>1, <2>1, <2>4 DEF Continue, ServiceTypeOK, Request
    <3>3. RequestBacked(handler[h])'
      <4>1. CASE MayRetry(j, row[j], q.status)
        BY <1>3, <1>4, <2>1, <2>2, <3>2, <4>1 DEF MayRetry, Updated, RequestBacked
      <4>2. CASE ~MayRetry(j, row[j], q.status)
        <5>1. /\ p.new.retry = row[j].retry
              /\ p.new.status = IF q.status = "FAILED" THEN "DEAD" ELSE q.status
          BY <1>3, <3>2, <4>2 DEF Updated, Row
        <5>2. p.new.status = "DEAD" => requeues[j] >= MaxRetries[j]
          BY <1>3, <1>4, <2>2, <4>2, <5>1 DEF MayRetry, Callback
        <5> QED
          BY <1>3, <1>4, <2>1, <2>2, <3>2, <4>2, <5>1, <5>2 DEF RequestBacked
      <4> QED
        BY <4>1, <4>2
    <3> QED
      BY <2>1, <3>1, <3>3, NothingSent, OneSessionSuffices
  <2> QED
    BY <1>5, <2>3, <2>4 DEF SelectForUpdate
<1>6. CASE SelectForCancel(h)
  <2>1. UNCHANGED <<row, requeues>> /\ q.op = "cancel"
    BY <1>6 DEF SelectForCancel
  <2>2. CASE Reply(h)
    BY <2>1, <2>2, NothingSent, ReplyKeepsRetry
  <2>3. CASE Continue(h, "send", row[j], [row[j] EXCEPT !.status = "CANCELLED"])
    <3>1. OnlySession(h)
      BY <2>3 DEF Continue, OnlySession, ServiceTypeOK
    <3> DEFINE p == handler'[h]
    <3>2. /\ p.op = "cancel" /\ p.job = j /\ p.pc = "send"
          /\ p.new.status = "CANCELLED" /\ p.new.retry = row[j].retry
      BY <1>1, <1>3, <2>1, <2>3 DEF Continue, ServiceTypeOK, Request, Row
    <3>3. RequestBacked(handler[h])'
      BY <1>3, <1>4, <2>1, <3>2 DEF RequestBacked
    <3> QED
      BY <2>1, <3>1, <3>3, NothingSent, OneSessionSuffices
  <2> QED
    BY <1>6, <2>2, <2>3 DEF SelectForCancel
<1>7. CASE SendCreate(h) \/ SendCancel(h)
  <2>1. UNCHANGED <<row, requeues>> /\ OnlySession(h)
    BY <1>7 DEF SendCreate, SendCancel, Continue, OnlySession, ServiceTypeOK
  <2>2. q.op # "update" /\ q.pc = "send"
    BY <1>7 DEF SendCreate, SendCancel
  <2>3. /\ q.new.retry <= requeues[j] /\ q.new.retry <= MaxRetries[j]
        /\ q.new.status = "DEAD" => requeues[j] >= MaxRetries[j]
    BY <1>2, <2>2 DEF RequestBacked
  <2> DEFINE p == handler'[h]
  <2>4. /\ p.pc = "commit" /\ p.op = q.op /\ p.job = j
        /\ p.new = q.new \/ p.new = [status |-> "QUEUED", retry |-> 0]
    <3>1. PICK o \in Row, n \in {q.new, [status |-> "QUEUED", retry |-> 0]} :
            Continue(h, "commit", o, n)
      <4>1. NoRow \in Row
        BY DEF NoRow, Row
      <4> QED
        BY <1>3, <1>7, <4>1 DEF SendCreate, SendCancel
    <3> QED
      BY <1>1, <3>1 DEF Continue, ServiceTypeOK, Request
  <2>5. RequestBacked(handler[h])'
    BY <1>3, <2>1, <2>2, <2>3, <2>4 DEF RequestBacked
  <2> QED
    BY <2>1, <2>5, NothingSent, OneSessionSuffices
<1>8. CASE SendRetry(h)
  <2>1. UNCHANGED row /\ OnlySession(h) /\ SendsGrow
        /\ requeues'[j] = requeues[j] + 1
    BY <1>3, <1>8
       DEF SendRetry, Continue, OnlySession, SendsGrow, ServiceTypeOK
  <2>2. RowsCorrect'
    BY <2>1, RowsStayCorrect DEF RetryInvariant, RowsCorrect
  <2>3. q.op = "update" /\ q.pc = "send" /\ q.status \in Callback
        /\ q.old.retry < MaxRetries[j] /\ q.old.retry <= requeues[j]
        /\ q.new = [status |-> "QUEUED", retry |-> q.old.retry + 1]
    BY <1>2, <1>8 DEF SendRetry, RequestBacked
  <2> DEFINE p == handler'[h]
  <2>4. /\ p.pc = "commit" /\ p.op = "update" /\ p.job = j
        /\ p.status = q.status /\ p.new = q.new
    BY <1>1, <1>8, <2>3 DEF SendRetry, Continue, ServiceTypeOK, Request
  <2>5. q.old.retry \in Nat
    BY <1>3 DEF Row
  <2>6. RequestBacked(handler[h])'
    BY <1>3, <2>1, <2>3, <2>4, <2>5 DEF RequestBacked
  <2> QED
    BY <2>1, <2>2, <2>6, OneSessionSuffices
<1>9. CASE Commit(h)
  <2>1. UNCHANGED requeues /\ Reply(h) /\ q.pc = "commit"
    BY <1>9 DEF Commit
  <2>2. /\ q.new.retry <= requeues[j] /\ q.new.retry <= MaxRetries[j]
        /\ q.new.status = "DEAD" => requeues[j] >= MaxRetries[j]
    BY <1>2, <2>1 DEF RequestBacked
  <2>3. row' = [row EXCEPT ![j] = Merge(row[j], q.old, q.new)]
    BY <1>9 DEF Commit
  <2>4. /\ Merge(row[j], q.old, q.new).retry \in {q.new.retry, row[j].retry}
        /\ Merge(row[j], q.old, q.new).status \in {q.new.status, row[j].status}
    BY DEF Merge
  <2>5. /\ row'[j].retry <= requeues[j] /\ row'[j].retry <= MaxRetries[j]
        /\ row'[j].status = "DEAD" => requeues[j] >= MaxRetries[j]
    BY <1>3, <1>4, <2>2, <2>3, <2>4 DEF ServiceTypeOK
  <2>6. RowsCorrect'
    BY <1>3, <2>1, <2>3, <2>5
       DEF RowsCorrect, RetryInvariant, RetryWithinBudget, RetryBacked,
           DeadAfterAllRetries, ServiceTypeOK
  <2>7. SendsGrow
    BY <2>1 DEF SendsGrow, ServiceTypeOK
  <2> QED
    BY <2>1, <2>6, <2>7, ReplyKeepsRetry
<1> QED
  BY <1>5, <1>6, <1>7, <1>8, <1>9 DEF HandlerStep

LEMMA AbortKeepsRetry ==
  ASSUME ServiceTypeOK, ServiceTypeOK', RetryInvariant,
         NEW h \in Handler, Abort(h)
  PROVE  RetryInvariant'
BY NothingSent, ReplyKeepsRetry DEF Abort

\* In every interleaving of callbacks, whichever commits and sends fail: the
\* retry counter stays within max_retries and within the re-enqueues made, and
\* DEAD means that all of them were made.
THEOREM RetryCorrect == ServiceSpec => []RetryInvariant
<1>1. ServiceInit => RetryInvariant
  BY MaxRetriesType
     DEF ServiceInit, RetryInvariant, RetryWithinBudget, RetryBacked,
         DeadAfterAllRetries, NoRow, Busy
<1>2. ServiceTypeOK /\ ServiceTypeOK' /\ RetryInvariant
        /\ [ServiceNext]_serviceVars => RetryInvariant'
  <2> SUFFICES ASSUME ServiceTypeOK, ServiceTypeOK', RetryInvariant,
                      [ServiceNext]_serviceVars
               PROVE  RetryInvariant'
    OBVIOUS
  <2>1. CASE ServiceNext
    BY <2>1, ReceiveKeepsRetry, HandlerStepKeepsRetry, AbortKeepsRetry
       DEF ServiceNext
  <2>2. CASE UNCHANGED serviceVars
    BY <2>2 DEF serviceVars, apiVars, RetryInvariant, RetryWithinBudget,
                RetryBacked, DeadAfterAllRetries, Busy, RequestBacked
  <2> QED
    BY <2>1, <2>2
<1> QED
  BY <1>1, <1>2, ServiceTypeCorrect, PTL DEF ServiceSpec

\* However many FAILED callbacks overlap, retry_count never passes max_retries.
THEOREM BudgetNeverExceeded == ServiceSpec => []RetryWithinBudget
<1>1. RetryInvariant => RetryWithinBudget
  BY DEF RetryInvariant
<1> QED
  BY <1>1, RetryCorrect, PTL

\* A retry is counted only after its re-enqueue was attempted.
THEOREM EveryRetryBacked == ServiceSpec => []RetryBacked
<1>1. RetryInvariant => RetryBacked
  BY DEF RetryInvariant
<1> QED
  BY <1>1, RetryCorrect, PTL

\* No job is declared DEAD before max_retries re-enqueues were attempted.
THEOREM NoEarlyDeath == ServiceSpec => []DeadAfterAllRetries
<1>1. RetryInvariant => DeadAfterAllRetries
  BY DEF RetryInvariant
<1> QED
  BY <1>1, RetryCorrect, PTL

-----------------------------------------------------------------------------
(* Publish before COMMIT.  Again a step changes one session and takes no    *)
(* event back from a topic.                                                 *)

Sent(j) == Cardinality(Submitted(j))

StopSent(j) == \E i \in 1..Len(cancellations) : cancellations[i] = j

RowHasEvents(j) ==
  /\ row[j] # NoRow => Sent(j) >= 1 + row[j].retry
  /\ row[j].status = "CANCELLED" => StopSent(j)

EventsGrow ==
  \A j \in Job : Sent(j)' >= Sent(j) /\ (StopSent(j) => StopSent(j)')

LEMMA CountIsNumber ==
  ASSUME NEW s \in Seq(Job), NEW j
  PROVE  /\ IsFiniteSet({i \in 1..Len(s) : s[i] = j})
         /\ Cardinality({i \in 1..Len(s) : s[i] = j}) \in Nat
<1>1. IsFiniteSet(1..Len(s))
  BY FS_Interval
<1>2. IsFiniteSet({i \in 1..Len(s) : s[i] = j})
  BY <1>1, FS_Subset
<1> QED
  BY <1>2, FS_CardinalityType

LEMMA SentIsNumber ==
  /\ TopicsTypeOK => \A j : IsFiniteSet(Submitted(j)) /\ Sent(j) \in Nat
  /\ TopicsTypeOK' => \A j : Sent(j)' \in Nat
BY CountIsNumber DEF TopicsTypeOK, Submitted, Sent

\* A record appended for k counts for k, and for nobody else.
LEMMA AppendCounts ==
  ASSUME TopicsTypeOK, NEW k \in Job, submissions' = Append(submissions, k), NEW j
  PROVE  Sent(j)' = IF j = k THEN Sent(j) + 1 ELSE Sent(j)
<1> DEFINE n == Len(submissions)
<1>1. /\ n \in Nat /\ Len(submissions') = n + 1 /\ submissions'[n + 1] = k
      /\ \A i \in 1..n : submissions'[i] = submissions[i]
  BY DEF TopicsTypeOK
<1>2. 1..(n + 1) = (1..n) \cup {n + 1} /\ n + 1 \notin 1..n
  BY <1>1
<1>3. Submitted(j)' = IF j = k THEN Submitted(j) \cup {n + 1} ELSE Submitted(j)
  BY <1>1, <1>2 DEF Submitted
<1>4. n + 1 \notin Submitted(j)
  BY <1>2 DEF Submitted
<1> QED
  BY <1>3, <1>4, SentIsNumber, FS_AddElement DEF Sent

LEMMA EventsKept ==
  ASSUME TopicsTypeOK, UNCHANGED <<submissions, cancellations>>
  PROVE  EventsGrow
<1>1. \A j : Sent(j)' = Sent(j) /\ Sent(j) \in Nat /\ StopSent(j)' = StopSent(j)
  BY SentIsNumber DEF Sent, Submitted, StopSent
<1> QED
  BY <1>1 DEF EventsGrow

\* What a session and a row have on the topics, they keep.
LEMMA OnTopicStays ==
  ASSUME ServiceTypeOK, ServiceTypeOK', EventsGrow, NEW q \in Request,
         EventsOnTopic(q)
  PROVE  EventsOnTopic(q)'
<1>1. /\ q.job \in Job /\ q.old.retry \in Nat /\ q.new.retry \in Nat
      /\ Sent(q.job) \in Nat /\ Sent(q.job)' \in Nat
  BY SentIsNumber DEF Request, Row, ServiceTypeOK
<1>2. Sent(q.job)' >= Sent(q.job) /\ (StopSent(q.job) => StopSent(q.job)')
  BY <1>1 DEF EventsGrow
<1> QED
  BY <1>1, <1>2 DEF EventsOnTopic, Sent, StopSent

LEMMA RowsKeepEvents ==
  ASSUME ServiceTypeOK, ServiceTypeOK', EventsGrow, NEW j \in Job,
         RowHasEvents(j), row'[j] = row[j]
  PROVE  RowHasEvents(j)'
<1>1. row[j].retry \in Nat /\ Sent(j) \in Nat /\ Sent(j)' \in Nat
  BY SentIsNumber DEF Row, ServiceTypeOK
<1> QED
  BY <1>1 DEF RowHasEvents, EventsGrow

LEMMA RowsOfInvariant ==
  ASSUME ~KafkaMayFail
  PROVE  /\ EventsInvariant <=>
              /\ \A j \in Job : RowHasEvents(j)
              /\ \A h \in Handler : Busy(h) => EventsOnTopic(handler[h])
         /\ EventsInvariant' <=>
              /\ \A j \in Job : RowHasEvents(j)'
              /\ \A h \in Handler : Busy(h)' => EventsOnTopic(handler[h])'
BY DEF EventsInvariant, QueuedHasEvents, CancelledHasEvent, RowHasEvents, Sent,
       StopSent

\* A step of session h keeps EventsInvariant if the topics grow, the rows keep
\* their events, and h is left idle or with its own events sent.
LEMMA EventsOfOneSession ==
  ASSUME ServiceTypeOK, ServiceTypeOK', ~KafkaMayFail, EventsInvariant,
         NEW h \in Handler, EventsGrow, OnlySession(h),
         \A j \in Job : row'[j] = row[j] \/ RowHasEvents(j)',
         Busy(h)' => EventsOnTopic(handler[h])'
  PROVE  EventsInvariant'
<1>1. \A j \in Job : RowHasEvents(j)'
  BY RowsKeepEvents, RowsOfInvariant
<1>2. ASSUME NEW g \in Handler, g # h, Busy(g)'
      PROVE  EventsOnTopic(handler[g])'
  <2>1. handler'[g] = handler[g] /\ Busy(g)
    BY <1>2 DEF OnlySession, Busy
  <2>2. handler[g] \in Request /\ EventsOnTopic(handler[g])
    BY <2>1, BusyRequest, RowsOfInvariant
  <2>3. \A x \in Request : EventsOnTopic(x) => EventsOnTopic(x)'
    BY OnTopicStays
  <2> QED
    BY <2>1, <2>2, <2>3 DEF EventsOnTopic
<1> QED
  BY <1>1, <1>2, RowsOfInvariant

LEMMA ReplyKeepsEvents ==
  ASSUME ServiceTypeOK, ServiceTypeOK', ~KafkaMayFail, EventsInvariant,
         NEW h \in Handler, Reply(h), UNCHANGED <<submissions, cancellations>>,
         \A j \in Job : row'[j] = row[j] \/ RowHasEvents(j)'
  PROVE  EventsInvariant'
<1>1. ~Busy(h)' /\ OnlySession(h)
  BY DEF Reply, Busy, OnlySession, ServiceTypeOK
<1> QED
  BY <1>1, EventsKept, EventsOfOneSession DEF ServiceTypeOK

LEMMA ReceiveKeepsEvents ==
  ASSUME ServiceTypeOK, ServiceTypeOK', ~KafkaMayFail, EventsInvariant,
         NEW h \in Handler, Receive(h)
  PROVE  EventsInvariant'
<1>1. PICK j \in Job, c \in Caller :
        \/ ReceiveCreate(h, j, c)
        \/ ReceiveCancel(h, j, c)
        \/ \E st \in Callback : ReceiveUpdate(h, j, st, c)
  BY DEF Receive
<1>2. OnlySession(h) /\ UNCHANGED <<row, submissions, cancellations>>
  BY <1>1 DEF ReceiveCreate, ReceiveCancel, ReceiveUpdate, Accept, OnlySession,
              ServiceTypeOK
<1>3. \/ handler'[h].pc = "send" /\ handler'[h].op = "create"
      \/ handler'[h].pc = "select"
  BY <1>1 DEF ReceiveCreate, ReceiveCancel, ReceiveUpdate, Accept, ServiceTypeOK
<1>4. EventsOnTopic(handler[h])'
  BY <1>3 DEF EventsOnTopic
<1> QED
  BY <1>2, <1>4, EventsKept, EventsOfOneSession DEF ServiceTypeOK

LEMMA HandlerStepKeepsEvents ==
  ASSUME ServiceTypeOK, ServiceTypeOK', RetryInvariant, ~KafkaMayFail,
         EventsInvariant, NEW h \in Handler, HandlerStep(h)
  PROVE  EventsInvariant'
<1> DEFINE q == handler[h]
           p == handler'[h]
<1>1. Busy(h) /\ q \in Request
  BY BusyRequest DEF HandlerStep, SelectForUpdate, SelectForCancel, SendCreate,
                     SendRetry, SendCancel, Commit
<1>0. PICK j \in Job : j = q.job
  BY <1>1 DEF Request
<1> USE <1>0
<1>2. RequestBacked(q) /\ EventsOnTopic(q)
  BY <1>1, RowsOfInvariant DEF RetryInvariant
<1>3. /\ j \in Job /\ row[j] \in Row /\ q.old \in Row /\ q.new \in Row
      /\ Sent(j) \in Nat /\ Sent(j)' \in Nat /\ TopicsTypeOK
  BY <1>1, SentIsNumber DEF ServiceTypeOK, Request
<1>4. RowHasEvents(j) /\ row[j].retry \in Nat
  BY <1>3, RowsOfInvariant DEF Row
<1>5. ASSUME NEW pc \in {"send", "commit"}, NEW o \in Row, NEW n \in Row,
             Continue(h, pc, o, n)
      PROVE  /\ OnlySession(h) /\ p.pc = pc /\ p.old = o /\ p.new = n
             /\ p.op = q.op /\ p.job = j
  BY <1>1, <1>5 DEF Continue, OnlySession, ServiceTypeOK, Request
<1>6. CASE SelectForUpdate(h)
  <2>1. UNCHANGED <<row, submissions, cancellations>> /\ q.op = "update" /\ q.pc = "select"
    BY <1>6 DEF SelectForUpdate
  <2>2. q.status \in Callback
    BY <1>2, <2>1 DEF RequestBacked
  <2> DEFINE n == Updated(j, row[j], q.status)
  <2>3. CASE Reply(h)
    BY <2>1, <2>3, ReplyKeepsEvents
  <2>4. CASE /\ row[j] # NoRow
             /\ Continue(h, IF MayRetry(j, row[j], q.status) THEN "send" ELSE "commit",
                         row[j], n)
    <3>1. n \in Row
      BY <1>3, <2>2, UpdatedType DEF Callback, JobStatus
    <3>2. /\ OnlySession(h) /\ p.old = row[j] /\ p.new = n /\ p.op = "update" /\ p.job = j
          /\ p.pc = IF MayRetry(j, row[j], q.status) THEN "send" ELSE "commit"
      BY <1>3, <1>5, <2>1, <2>4, <3>1
    <3>3. Sent(j)' >= 1 + row[j].retry
      BY <1>3, <1>4, <2>1, <2>4, EventsKept DEF RowHasEvents, EventsGrow
    <3>4. p.pc = "commit" => n.retry = row[j].retry /\ n.status # "CANCELLED"
      BY <1>3, <2>2, <3>2 DEF Updated, Callback, Row
    <3>5. EventsOnTopic(handler[h])'
      BY <3>2, <3>3, <3>4 DEF EventsOnTopic, Sent
    <3> QED
      BY <1>3, <2>1, <3>2, <3>5, EventsKept, EventsOfOneSession
  <2> QED
    BY <1>6, <2>3, <2>4 DEF SelectForUpdate
<1>7. CASE SelectForCancel(h)
  <2>1. UNCHANGED <<row, submissions, cancellations>> /\ q.op = "cancel"
    BY <1>7 DEF SelectForCancel
  <2> DEFINE n == [row[j] EXCEPT !.status = "CANCELLED"]
  <2>2. CASE Reply(h)
    BY <2>1, <2>2, ReplyKeepsEvents
  <2>3. CASE row[j] # NoRow /\ Continue(h, "send", row[j], n)
    <3>1. n \in Row /\ n.retry = row[j].retry
      BY <1>3 DEF Row, JobStatus
    <3>2. /\ OnlySession(h) /\ p.new = n /\ p.op = "cancel" /\ p.job = j /\ p.pc = "send"
      BY <1>3, <1>5, <2>1, <2>3, <3>1
    <3>3. Sent(j)' >= 1 + row[j].retry
      BY <1>3, <1>4, <2>1, <2>3, EventsKept DEF RowHasEvents, EventsGrow
    <3>4. EventsOnTopic(handler[h])'
      BY <3>1, <3>2, <3>3 DEF EventsOnTopic, Sent
    <3> QED
      BY <1>3, <2>1, <3>2, <3>4, EventsKept, EventsOfOneSession
  <2> QED
    BY <1>7, <2>2, <2>3 DEF SelectForCancel
<1>8. CASE SendCreate(h)
  <2> DEFINE n == [status |-> "QUEUED", retry |-> 0]
  <2>1. /\ UNCHANGED <<row, cancellations>> /\ submissions' = Append(submissions, j)
        /\ Continue(h, "commit", NoRow, n)
    BY <1>8 DEF SendCreate
  <2>2. \A k : Sent(k)' = IF k = j THEN Sent(k) + 1 ELSE Sent(k)
    BY <1>3, <2>1, AppendCounts
  <2>3. EventsGrow
    BY <1>3, <2>1, <2>2, SentIsNumber DEF EventsGrow, StopSent
  <2>4. NoRow \in Row /\ n \in Row
    BY DEF NoRow, Row, JobStatus
  <2>5. OnlySession(h) /\ p.new = n /\ p.job = j /\ p.pc = "commit"
    BY <1>5, <2>1, <2>4
  <2>6. EventsOnTopic(handler[h])'
    BY <1>3, <2>2, <2>5 DEF EventsOnTopic, Sent
  <2> QED
    BY <2>1, <2>3, <2>5, <2>6, EventsOfOneSession
<1>9. CASE SendRetry(h)
  <2>1. /\ UNCHANGED <<row, cancellations>> /\ submissions' = Append(submissions, j)
        /\ Continue(h, "commit", q.old, q.new) /\ q.op = "update" /\ q.pc = "send"
    BY <1>9 DEF SendRetry, SendTo
  <2>2. \A k : Sent(k)' = IF k = j THEN Sent(k) + 1 ELSE Sent(k)
    BY <1>3, <2>1, AppendCounts
  <2>3. EventsGrow
    BY <1>3, <2>1, <2>2, SentIsNumber DEF EventsGrow, StopSent
  <2>4. OnlySession(h) /\ p.new = q.new /\ p.job = j /\ p.pc = "commit"
    BY <1>3, <1>5, <2>1
  <2>5. /\ q.new = [status |-> "QUEUED", retry |-> q.old.retry + 1]
        /\ Sent(j) >= 1 + q.old.retry /\ q.old.retry \in Nat
    BY <1>2, <1>3, <2>1 DEF RequestBacked, EventsOnTopic, Sent, Row
  <2>6. EventsOnTopic(handler[h])'
    BY <1>3, <2>2, <2>4, <2>5 DEF EventsOnTopic, Sent
  <2> QED
    BY <2>1, <2>3, <2>4, <2>6, EventsOfOneSession
<1>10. CASE SendCancel(h)
  <2>1. /\ UNCHANGED <<row, submissions>> /\ cancellations' = Append(cancellations, j)
        /\ Continue(h, "commit", q.old, q.new) /\ q.op = "cancel" /\ q.pc = "send"
    BY <1>10 DEF SendCancel, SendTo
  <2>2. /\ Len(cancellations') = Len(cancellations) + 1 /\ Len(cancellations) \in Nat
        /\ cancellations'[Len(cancellations) + 1] = j
        /\ \A i \in 1..Len(cancellations) : cancellations'[i] = cancellations[i]
    BY <1>3, <2>1 DEF TopicsTypeOK
  <2>3. StopSent(j)' /\ \A k : StopSent(k) => StopSent(k)'
    BY <2>2 DEF StopSent
  <2>4. \A k : Sent(k)' = Sent(k) /\ Sent(k) \in Nat
    BY <1>3, <2>1, SentIsNumber DEF Sent, Submitted
  <2>5. EventsGrow
    BY <2>3, <2>4 DEF EventsGrow
  <2>6. OnlySession(h) /\ p.new = q.new /\ p.job = j /\ p.pc = "commit"
    BY <1>3, <1>5, <2>1
  <2>7. EventsOnTopic(handler[h])'
    BY <1>2, <2>1, <2>3, <2>4, <2>6 DEF EventsOnTopic, Sent, StopSent
  <2> QED
    BY <2>1, <2>5, <2>6, <2>7, EventsOfOneSession
<1>11. CASE Commit(h)
  <2> DEFINE m == Merge(row[j], q.old, q.new)
  <2>1. /\ UNCHANGED <<submissions, cancellations>> /\ Reply(h) /\ q.pc = "commit"
        /\ row' = [row EXCEPT ![j] = m]
    BY <1>11 DEF Commit
  <2>2. Sent(j) >= 1 + q.new.retry /\ (q.new.status = "CANCELLED" => StopSent(j))
    BY <1>2, <2>1 DEF EventsOnTopic, Sent, StopSent
  <2>3. m.retry \in {q.new.retry, row[j].retry} /\ m.status \in {q.new.status, row[j].status}
    BY DEF Merge
  <2>4. q.new.retry \in Nat /\ (row[j] = NoRow => row[j].retry = 0)
    BY <1>3 DEF Row, NoRow
  <2>5. Sent(j) >= 1 + m.retry /\ (m.status = "CANCELLED" => StopSent(j))
    BY <1>3, <1>4, <2>2, <2>3, <2>4 DEF RowHasEvents
  <2>6. row'[j] = m /\ Sent(j)' = Sent(j) /\ StopSent(j)' = StopSent(j)
    BY <1>3, <2>1 DEF ServiceTypeOK, Sent, Submitted, StopSent
  <2>7. RowHasEvents(j)'
    BY <2>5, <2>6 DEF RowHasEvents
  <2>8. \A k \in Job : k # j => row'[k] = row[k]
    BY <2>1 DEF ServiceTypeOK
  <2> QED
    BY <2>1, <2>7, <2>8, ReplyKeepsEvents
<1> QED
  BY <1>6, <1>7, <1>8, <1>9, <1>10, <1>11 DEF HandlerStep

\* The inductive invariant of publish-before-commit: every row, and every row
\* a session is about to commit, has its events on the topics.
THEOREM EventsCorrect == ServiceSpec => []EventsInvariant
<1>1. ServiceInit => EventsInvariant
  BY DEF ServiceInit, EventsInvariant, QueuedHasEvents, CancelledHasEvent, NoRow,
         Busy
<1>2. ServiceTypeOK /\ ServiceTypeOK' /\ RetryInvariant /\ EventsInvariant
        /\ [ServiceNext]_serviceVars => EventsInvariant'
  <2> SUFFICES ASSUME ServiceTypeOK, ServiceTypeOK', RetryInvariant,
                      EventsInvariant, [ServiceNext]_serviceVars
               PROVE  EventsInvariant'
    OBVIOUS
  <2>1. CASE KafkaMayFail
    BY <2>1 DEF EventsInvariant, QueuedHasEvents, CancelledHasEvent
  <2>2. CASE ~KafkaMayFail /\ ServiceNext
    <3>1. ASSUME NEW h \in Handler, Abort(h) PROVE EventsInvariant'
      BY <2>2, <3>1, ReplyKeepsEvents DEF Abort
    <3> QED
      BY <2>2, <3>1, ReceiveKeepsEvents, HandlerStepKeepsEvents DEF ServiceNext
  <2>3. CASE ~KafkaMayFail /\ UNCHANGED serviceVars
    BY <2>3 DEF serviceVars, apiVars, EventsInvariant, QueuedHasEvents,
                CancelledHasEvent, Submitted, Busy, EventsOnTopic
  <2> QED
    BY <2>1, <2>2, <2>3
<1> QED
  BY <1>1, <1>2, ServiceTypeCorrect, RetryCorrect, PTL DEF ServiceSpec

\* With a healthy Kafka no job is stored, and no retry counted, without its
\* event on the topic.
THEOREM NoSilentlyQueuedJob == ServiceSpec => []QueuedHasEvents
<1>1. EventsInvariant => QueuedHasEvents
  BY DEF EventsInvariant
<1> QED
  BY <1>1, EventsCorrect, PTL

\* With a healthy Kafka no job is stored as CANCELLED without its stop request.
THEOREM NoSilentlyCancelledJob == ServiceSpec => []CancelledHasEvent
<1>1. EventsInvariant => CancelledHasEvent
  BY DEF EventsInvariant
<1> QED
  BY <1>1, EventsCorrect, PTL

-----------------------------------------------------------------------------
(* job-service implements the ledger.  A session changes the table only in   *)
(* its COMMIT; until then it owes what RequestRecorded says, and a commit of *)
(* another session takes away nothing of that.                               *)

\* Session h moved, and no COMMIT of a row another session creates.
LEMMA SessionRecords ==
  ASSUME ServiceTypeOK, LedgerInvariant, NEW h \in Handler, OnlySession(h),
         \A j \in Job : row[j] # NoRow => row'[j] # NoRow,
         \A g \in Handler \ {h} : Busy(g) /\ handler[g].op = "create" =>
            row'[handler[g].job] = row[handler[g].job],
         Busy(h)' => RequestRecorded(handler[h])',
         Busy(h)' /\ handler'[h].op = "create" =>
           \A g \in Handler \ {h} :
             Busy(g) /\ handler[g].op = "create" => handler[g].job # handler'[h].job
  PROVE  LedgerInvariant'
<1>1. ASSUME NEW g \in Handler, Busy(g)'
      PROVE  RequestRecorded(handler[g])'
  <2>1. CASE g # h
    <3>1. handler'[g] = handler[g] /\ Busy(g)
      BY <1>1, <2>1 DEF OnlySession, Busy
    <3> DEFINE q == handler[g]
    <3>2. RequestRecorded(q) /\ q.job \in Job
      BY <3>1, BusyRequest DEF LedgerInvariant, Request
    <3>3. q.op = "create" => row'[q.job] = row[q.job]
      BY <2>1, <3>1
    <3> QED
      BY <3>1, <3>2, <3>3 DEF RequestRecorded
  <2> QED
    BY <1>1, <2>1
<1>2. ASSUME NEW f \in Handler, NEW g \in Handler, Busy(f)', handler'[f].op = "create",
             Busy(g)', handler'[g].op = "create", handler'[f].job = handler'[g].job
      PROVE  f = g
  <2>1. \A e \in Handler \ {h} : handler'[e] = handler[e] /\ (Busy(e)' <=> Busy(e))
    BY DEF OnlySession, Busy
  <2>2. CASE f # h /\ g # h
    BY <1>2, <2>1, <2>2 DEF LedgerInvariant
  <2>3. CASE f = h \/ g = h
    BY <1>2, <2>1, <2>3
  <2> QED
    BY <2>2, <2>3
<1> QED
  BY <1>1, <1>2 DEF LedgerInvariant

LEMMA ReplyRecords ==
  ASSUME ServiceTypeOK, LedgerInvariant, NEW h \in Handler, Reply(h), UNCHANGED row
  PROVE  LedgerInvariant'
<1>1. ~Busy(h)' /\ OnlySession(h)
  BY DEF Reply, Busy, OnlySession, ServiceTypeOK
<1> QED
  BY <1>1, SessionRecords

\* A session goes on with a request it had, and it owes no less.
LEMMA ContinueRecords ==
  ASSUME ServiceTypeOK, LedgerInvariant, NEW h \in Handler, Busy(h),
         NEW pc, NEW old, NEW new, Continue(h, pc, old, new), UNCHANGED row,
         RequestRecorded([handler[h] EXCEPT !.pc = pc, !.old = old, !.new = new])
  PROVE  LedgerInvariant'
<1> DEFINE q == [handler[h] EXCEPT !.pc = pc, !.old = old, !.new = new]
<1>1. handler'[h] = q /\ OnlySession(h)
  BY DEF Continue, OnlySession, ServiceTypeOK
<1>2. handler[h] \in Request
  BY BusyRequest
<1>3. q.op = handler[h].op /\ q.job = handler[h].job
  BY <1>2 DEF Request
<1>4. RequestRecorded(q)
  OBVIOUS
<1> HIDE DEF q
<1>5. RequestRecorded(handler[h])'
  BY <1>1, <1>4 DEF RequestRecorded
<1>6. handler'[h].op = "create" =>
        \A g \in Handler \ {h} :
          Busy(g) /\ handler[g].op = "create" => handler[g].job # handler'[h].job
  BY <1>1, <1>3 DEF LedgerInvariant
<1> QED
  BY <1>1, <1>5, <1>6, SessionRecords

LEMMA ReceiveRecords ==
  ASSUME ServiceTypeOK, LedgerInvariant, NEW h \in Handler, Receive(h)
  PROVE  LedgerInvariant' /\ UNCHANGED <<row, requeues>>
<1>1. PICK j \in Job, c \in Caller :
        \/ ReceiveCreate(h, j, c)
        \/ ReceiveCancel(h, j, c)
        \/ \E st \in Callback : ReceiveUpdate(h, j, st, c)
  BY DEF Receive
<1>2. OnlySession(h) /\ UNCHANGED <<row, requeues>>
  BY <1>1 DEF ReceiveCreate, ReceiveCancel, ReceiveUpdate, Accept, OnlySession,
              ServiceTypeOK
<1>3. RequestRecorded(handler[h])'
  <2>1. CASE ReceiveCreate(h, j, c)
    <3>1. row[j] = NoRow /\ row' = row
      BY <1>2, <2>1 DEF ReceiveCreate, Fresh
    <3>2. handler'[h] =
            [pc |-> "send", op |-> "create", job |-> j, from |-> c, status |-> "PENDING",
             old |-> NoRow, new |-> [status |-> "PENDING", retry |-> 0]]
      BY <2>1 DEF ReceiveCreate, Accept, ServiceTypeOK
    <3> QED
      BY <3>1, <3>2 DEF RequestRecorded
  <2>2. CASE ReceiveCancel(h, j, c)
    BY <2>2 DEF ReceiveCancel, Accept, RequestRecorded, ServiceTypeOK
  <2>3. CASE \E st \in Callback : ReceiveUpdate(h, j, st, c)
    BY <2>3 DEF ReceiveUpdate, Accept, RequestRecorded, ServiceTypeOK
  <2> QED
    BY <1>1, <2>1, <2>2, <2>3
<1>4. handler'[h].op = "create" =>
        \A g \in Handler \ {h} :
          Busy(g) /\ handler[g].op = "create" => handler[g].job # handler'[h].job
  <2>1. CASE ReceiveCreate(h, j, c)
    BY <2>1 DEF ReceiveCreate, Accept, Fresh, ServiceTypeOK
  <2>2. CASE ReceiveCancel(h, j, c) \/ \E st \in Callback : ReceiveUpdate(h, j, st, c)
    BY <2>2 DEF ReceiveCancel, ReceiveUpdate, Accept, ServiceTypeOK
  <2> QED
    BY <1>1, <2>1, <2>2
<1> QED
  BY <1>2, <1>3, <1>4, SessionRecords

\* COMMIT enters a job, or stores what the ledger allows.
LEMMA CommitRecords ==
  ASSUME ServiceTypeOK, RetryInvariant, LedgerInvariant, NEW h \in Handler, Commit(h)
  PROVE  LedgerInvariant' /\ Ledger!Next
<1> DEFINE q == handler[h]
           cur == row[q.job]
           m == Merge(cur, q.old, q.new)
<1>1. /\ q \in Request /\ q.pc = "commit" /\ RequestRecorded(q) /\ RequestBacked(q)
      /\ Busy(h)
  BY BusyRequest DEF Commit, LedgerInvariant, RetryInvariant
<1>2. /\ row' = [row EXCEPT ![q.job] = m] /\ requeues' = requeues /\ Reply(h)
      /\ row \in [Job -> Row]
  BY DEF Commit, ServiceTypeOK
<1>3. /\ q.job \in Job /\ cur \in Row /\ q.old \in Row /\ q.new \in Row
      /\ requeues[q.job] \in Nat /\ MaxRetries[q.job] \in Nat
  BY <1>1, <1>2, MaxRetriesType DEF Request, ServiceTypeOK
<1>4. cur = [status |-> cur.status, retry |-> cur.retry]
  BY <1>3 DEF Row
<1> HIDE DEF q, cur
<1>5. /\ m = [status |-> m.status, retry |-> m.retry]
      /\ m.status = IF q.new.status # q.old.status THEN q.new.status ELSE cur.status
      /\ m.retry = IF q.new.retry # q.old.retry THEN q.new.retry ELSE cur.retry
  BY DEF Merge
<1> HIDE DEF m
<1>6. ASSUME q.op = "create"
      PROVE  m # NoRow /\ Ledger!Next
  <2>1. /\ cur = NoRow /\ q.old = NoRow
        /\ q.new.status \in {"PENDING", "QUEUED"} /\ q.new.retry = 0
    BY <1>1, <1>6 DEF RequestRecorded, cur
  <2>2. m.status = q.new.status /\ m.retry = 0
    BY <1>5, <2>1 DEF NoRow
  <2>3. Ledger!Enter(q.job)
    BY <1>2, <1>5, <2>1, <2>2 DEF Ledger!Enter, Ledger!NoRow, NoRow, cur
  <2>4. m # NoRow
    BY <2>1, <2>2 DEF NoRow
  <2> QED
    BY <1>3, <2>3, <2>4 DEF Ledger!Next
<1>7. ASSUME q.op # "create"
      PROVE  m # NoRow /\ Ledger!Next
  <2>1. /\ cur # NoRow /\ q.new.status \in {q.old.status} \cup Ledger!Later
        /\ q.new.retry # q.old.retry =>
             q.new.retry = q.old.retry + 1 /\ q.new.status = "QUEUED"
        /\ q.new.status = "QUEUED" /\ q.old.status # "QUEUED" =>
             q.new.retry # q.old.retry
    BY <1>1, <1>7 DEF RequestRecorded, cur
  <2>2. /\ q.new.retry <= requeues[q.job] /\ q.new.retry <= MaxRetries[q.job]
        /\ q.new.status = "DEAD" => requeues[q.job] >= MaxRetries[q.job]
    BY <1>1 DEF RequestBacked
  <2>3. q.old.retry \in Nat /\ q.new.retry \in Nat /\ cur.retry \in Nat
    BY <1>3 DEF Row
  <2>4. /\ m.status \in Ledger!Later \cup {cur.status}
        /\ m.retry \in 1..MaxRetries[q.job] \cup {cur.retry}
        /\ m.retry # cur.retry =>
             m.retry >= 1 /\ m.retry <= requeues[q.job] /\ m.status \in {cur.status, "QUEUED"}
        /\ m.status # cur.status =>
             /\ m.status = "QUEUED" => m.retry >= 1
             /\ m.status = "DEAD" => requeues[q.job] >= MaxRetries[q.job]
    BY <1>3, <1>5, <2>1, <2>2, <2>3
  <2>5. Ledger!Store(q.job, m.status, m.retry)
    BY <1>2, <1>5, <2>1, <2>4 DEF Ledger!Store, Ledger!NoRow, NoRow, cur
  <2>6. m # NoRow
    <3>1. CASE m.status # cur.status
      BY <2>4, <3>1 DEF NoRow, Ledger!Later
    <3>2. CASE m.retry # cur.retry
      BY <2>4, <3>2 DEF NoRow
    <3>3. CASE m.status = cur.status /\ m.retry = cur.retry
      BY <1>4, <1>5, <2>1, <3>3
    <3> QED
      BY <3>1, <3>2, <3>3
  <2>7. Ledger!Next
    BY <1>3, <2>4, <2>5 DEF Ledger!Next, cur
  <2> QED
    BY <2>6, <2>7
<1>8. m # NoRow /\ Ledger!Next
  BY <1>6, <1>7
<1>9. LedgerInvariant'
  <2>1. ~Busy(h)' /\ OnlySession(h)
    BY <1>2 DEF Reply, Busy, OnlySession, ServiceTypeOK
  <2>2. \A j \in Job : row[j] # NoRow => row'[j] # NoRow
    <3>1. ASSUME NEW j \in Job, row[j] # NoRow
          PROVE  row'[j] # NoRow
      <4>1. CASE j = q.job
        BY <1>2, <1>3, <1>8, <4>1
      <4>2. CASE j # q.job
        BY <1>2, <3>1, <4>2
      <4> QED
        BY <4>1, <4>2
    <3> QED
      BY <3>1
  <2>3. ASSUME NEW g \in Handler \ {h}, Busy(g), handler[g].op = "create"
        PROVE  row'[handler[g].job] = row[handler[g].job]
    <3>1. row[handler[g].job] = NoRow /\ handler[g].job \in Job
      BY <2>3, BusyRequest DEF LedgerInvariant, RequestRecorded, Request
    <3>2. handler[g].job # q.job
      <4>1. CASE q.op = "create"
        BY <1>1, <2>3, <4>1 DEF LedgerInvariant, q
      <4>2. CASE q.op # "create"
        BY <1>1, <3>1, <4>2 DEF RequestRecorded
      <4> QED
        BY <4>1, <4>2
    <3> QED
      BY <1>2, <3>1, <3>2
  <2> QED
    BY <2>1, <2>2, <2>3, SessionRecords
<1> QED
  BY <1>8, <1>9

\* What a FAILED, or any other callback, makes of the selected row.
LEMMA UpdateRecorded ==
  ASSUME NEW j \in Job, NEW old \in Row, NEW st \in Callback
  PROVE  LET new == Updated(j, old, st)
         IN  /\ new.status \in {old.status} \cup Ledger!Later
             /\ new.retry # old.retry => new.retry = old.retry + 1 /\ new.status = "QUEUED"
             /\ new.status = "QUEUED" /\ old.status # "QUEUED" => new.retry # old.retry
<1>1. CASE MayRetry(j, old, st)
  BY <1>1 DEF Updated, Ledger!Later, Row
<1>2. CASE ~MayRetry(j, old, st)
  <2> DEFINE s == IF st = "FAILED" THEN "DEAD" ELSE st
  <2>1. s \in Ledger!Later /\ s # "QUEUED"
    BY DEF Callback, Ledger!Later
  <2> HIDE DEF s
  <2>2. Updated(j, old, st) = [old EXCEPT !.status = s]
    BY <1>2 DEF Updated, s
  <2>3. [old EXCEPT !.status = s].status = s /\ [old EXCEPT !.status = s].retry = old.retry
    BY DEF Row
  <2> QED
    BY <2>1, <2>2, <2>3
<1> QED
  BY <1>1, <1>2

LEMMA HandlerStepRecords ==
  ASSUME ServiceTypeOK, RetryInvariant, LedgerInvariant, NEW h \in Handler,
         HandlerStep(h)
  PROVE  /\ LedgerInvariant'
         /\ UNCHANGED <<row, requeues>> \/ Ledger!Next
<1> DEFINE q == handler[h]
<1>1. Busy(h) => /\ q \in Request /\ RequestRecorded(q) /\ RequestBacked(q)
                 /\ q.job \in Job /\ row[q.job] \in Row
  BY BusyRequest DEF LedgerInvariant, RetryInvariant, Request, ServiceTypeOK
<1>2. ASSUME NEW pc, NEW old, NEW new, Busy(h),
             RequestRecorded([q EXCEPT !.pc = pc, !.old = old, !.new = new]),
             Continue(h, pc, old, new), UNCHANGED row
      PROVE  LedgerInvariant'
  BY <1>2, ContinueRecords
<1>3. ASSUME NEW pc, NEW old, NEW new, Busy(h)
      PROVE  LET p == [q EXCEPT !.pc = pc, !.old = old, !.new = new]
             IN  /\ p.pc = pc /\ p.old = old /\ p.new = new
                 /\ p.op = q.op /\ p.job = q.job
  BY <1>1, <1>3 DEF Request
<1> HIDE DEF q
<1>4. CASE SelectForUpdate(h)
  <2> DEFINE old == row[q.job]
             new == Updated(q.job, old, q.status)
             pc  == IF MayRetry(q.job, old, q.status) THEN "send" ELSE "commit"
             p   == [q EXCEPT !.pc = pc, !.old = old, !.new = new]
  <2>1. Busy(h) /\ q.op = "update" /\ UNCHANGED <<row, requeues>>
    BY <1>4 DEF SelectForUpdate, q
  <2>2. Reply(h) \/ (old # NoRow /\ Continue(h, pc, old, new))
    BY <1>4 DEF SelectForUpdate, q
  <2>3. q.status \in Callback
    BY <1>1, <2>1 DEF RequestBacked
  <2>4. /\ new.status \in {old.status} \cup Ledger!Later
        /\ new.retry # old.retry => new.retry = old.retry + 1 /\ new.status = "QUEUED"
        /\ new.status = "QUEUED" /\ old.status # "QUEUED" => new.retry # old.retry
    BY <1>1, <2>1, <2>3, UpdateRecorded
  <2> HIDE DEF new, pc
  <2>5. p.old = old /\ p.new = new /\ p.op = "update" /\ p.job = q.job
    BY <1>3, <2>1
  <2> HIDE DEF p
  <2>6. old # NoRow => RequestRecorded(p)
    BY <2>4, <2>5 DEF RequestRecorded
  <2>7. LedgerInvariant'
    BY <1>2, <2>1, <2>2, <2>6, ReplyRecords DEF p
  <2> QED
    BY <2>1, <2>7
<1>5. CASE SelectForCancel(h)
  <2> DEFINE old == row[q.job]
             new == [old EXCEPT !.status = "CANCELLED"]
             p   == [q EXCEPT !.pc = "send", !.old = old, !.new = new]
  <2>1. Busy(h) /\ q.op = "cancel" /\ UNCHANGED <<row, requeues>>
    BY <1>5 DEF SelectForCancel, q
  <2>2. Reply(h) \/ (old # NoRow /\ Continue(h, "send", old, new))
    BY <1>5 DEF SelectForCancel, q
  <2>3. new.status = "CANCELLED" /\ new.retry = old.retry
    BY <1>1, <2>1 DEF Row
  <2> HIDE DEF new
  <2>4. p.old = old /\ p.new = new /\ p.op = "cancel" /\ p.job = q.job
    BY <1>3, <2>1
  <2> HIDE DEF p
  <2>5. old # NoRow => RequestRecorded(p)
    BY <2>3, <2>4 DEF RequestRecorded, Ledger!Later
  <2>6. LedgerInvariant'
    BY <1>2, <2>1, <2>2, <2>5, ReplyRecords DEF p
  <2> QED
    BY <2>1, <2>6
<1>6. CASE SendCreate(h)
  <2>1. Busy(h) /\ q.op = "create" /\ UNCHANGED <<row, requeues>>
    BY <1>6 DEF SendCreate, q
  <2>2. PICK new \in {[status |-> "QUEUED", retry |-> 0], q.new} :
          Continue(h, "commit", NoRow, new)
    BY <1>6 DEF SendCreate, q
  <2>3. /\ row[q.job] = NoRow
        /\ new.status \in {"PENDING", "QUEUED"} /\ new.retry = 0
    BY <1>1, <2>1, <2>2 DEF RequestRecorded
  <2> DEFINE p == [q EXCEPT !.pc = "commit", !.old = NoRow, !.new = new]
  <2>4. p.old = NoRow /\ p.new = new /\ p.op = "create" /\ p.job = q.job
    BY <1>3, <2>1
  <2> HIDE DEF p
  <2>5. RequestRecorded(p)
    BY <2>3, <2>4 DEF RequestRecorded
  <2> QED
    BY <1>2, <2>1, <2>2, <2>5 DEF p
<1>7. CASE SendRetry(h) \/ SendCancel(h)
  <2>1. /\ Busy(h) /\ q.op # "create" /\ q.pc = "send" /\ row' = row
        /\ Continue(h, "commit", q.old, q.new)
        /\ requeues' \in {requeues, [requeues EXCEPT ![q.job] = @ + 1]}
    BY <1>7 DEF SendRetry, SendCancel, q
  <2> DEFINE p == [q EXCEPT !.pc = "commit", !.old = q.old, !.new = q.new]
  <2>2. p.old = q.old /\ p.new = q.new /\ p.op = q.op /\ p.job = q.job
    BY <1>3, <2>1
  <2> HIDE DEF p
  <2>3. RequestRecorded(p)
    BY <1>1, <2>1, <2>2 DEF RequestRecorded
  <2>4. LedgerInvariant'
    BY <1>2, <2>1, <2>3 DEF p
  <2>5. row[q.job] # NoRow
    BY <1>1, <2>1 DEF RequestRecorded
  <2>6. CASE requeues' = [requeues EXCEPT ![q.job] = @ + 1]
    <3>1. Ledger!Requeue(q.job)
      BY <2>1, <2>5, <2>6 DEF Ledger!Requeue, Ledger!NoRow, NoRow
    <3> QED
      BY <1>1, <2>1, <2>4, <3>1 DEF Ledger!Next
  <2> QED
    BY <2>1, <2>4, <2>6
<1> QED
  BY <1>4, <1>5, <1>6, <1>7, CommitRecords DEF HandlerStep

LEMMA AbortRecords ==
  ASSUME ServiceTypeOK, LedgerInvariant, NEW h \in Handler, Abort(h)
  PROVE  LedgerInvariant' /\ UNCHANGED <<row, requeues>>
BY ReplyRecords DEF Abort

\* For any jobs, sessions and failures, table jobs keeps the ledger's promise, although
\* no SELECT takes a lock and every COMMIT may be computed from a row that is gone.
THEOREM ServiceKeepsLedger == ServiceSpec => ImplementsLedger
<1>1. ServiceInit => Ledger!Init /\ LedgerInvariant
  BY DEF ServiceInit, Ledger!Init, Ledger!NoRow, NoRow, LedgerInvariant, Busy
<1>2. ServiceTypeOK /\ RetryInvariant /\ LedgerInvariant /\ [ServiceNext]_serviceVars
        => LedgerInvariant' /\ [Ledger!Next]_Ledger!ledgerVars
  <2> SUFFICES ASSUME ServiceTypeOK, RetryInvariant, LedgerInvariant,
                      [ServiceNext]_serviceVars
               PROVE  LedgerInvariant' /\ [Ledger!Next]_Ledger!ledgerVars
    OBVIOUS
  <2>1. CASE ServiceNext
    BY <2>1, ReceiveRecords, HandlerStepRecords, AbortRecords
       DEF ServiceNext, Ledger!ledgerVars
  <2>2. CASE UNCHANGED serviceVars
    BY <2>2 DEF serviceVars, apiVars, LedgerInvariant, Busy, RequestRecorded,
                Ledger!ledgerVars
  <2> QED
    BY <2>1, <2>2
<1> QED
  BY <1>1, <1>2, ServiceTypeCorrect, RetryCorrect, PTL
    DEF ServiceSpec, ImplementsLedger, Ledger!Spec

=============================================================================
