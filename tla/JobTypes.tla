------------------------------ MODULE JobTypes ------------------------------
(***************************************************************************)
(* What job-service and the orchestrator share: the jobs, the status       *)
(* vocabulary of models/enums.py, and the two Kafka topics between them.   *)
(* A topic is an append-only log; each reader keeps an offset into it.     *)
(***************************************************************************)
EXTENDS Naturals, Sequences

CONSTANTS
  Job,          \* job_id values (uuid4: never reused)
  MaxRetries,   \* max_retries of the request that created each job
  KafkaMayFail  \* may a producer's send_and_wait raise?

\* JobCreateRequest: max_retries: int = Field(ge=0, le=10)
ASSUME JobTypesAssumption ==
  /\ MaxRetries \in [Job -> 0..10]
  /\ KafkaMayFail \in BOOLEAN

VARIABLES
  submissions,    \* topic "spark-job-submissions": the jobs to launch
  cancellations   \* topic "spark-job-status": the jobs to stop

JobStatus == {"PENDING", "QUEUED", "PROVISIONING", "RUNNING",
              "SUCCESS", "FAILED", "CANCELLED", "DEAD"}

\* cancel_job's early return; also docs/architecture.md, "Terminal states".
Terminal == {"SUCCESS", "DEAD", "CANCELLED"}

\* The statuses some component PUTs to /jobs/{id}/status.
Callback == {"PROVISIONING", "RUNNING", "SUCCESS", "FAILED"}

\* send_job_event and the other producers: the broker appends the record or
\* not, and a producer that raises may have raised for a record it appended.
SendTo(topic, j) ==
  \/ topic' = Append(topic, j)
  \/ KafkaMayFail /\ UNCHANGED topic

TopicsTypeOK ==
  /\ submissions \in Seq(Job)
  /\ cancellations \in Seq(Job)

TopicsInit ==
  /\ submissions = << >>
  /\ cancellations = << >>

=============================================================================
