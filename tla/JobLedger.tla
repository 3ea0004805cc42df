----------------------------- MODULE JobLedger -----------------------------
(***************************************************************************)
(* What job-service promises about table jobs, whatever requests overlap:  *)
(* a job is entered once and stays; it is never pending again; its counter *)
(* moves only with a re-enqueue and within the budget, though it may move  *)
(* back; it is queued again only by a retry, and dead only when the        *)
(* retries were spent.  No status is promised to be final.                 *)
(***************************************************************************)
EXTENDS Naturals

CONSTANTS Job, MaxRetries

VARIABLES
  row,        \* the table
  requeues    \* re-enqueues attempted for each job

ledgerVars == <<row, requeues>>

NoRow == [status |-> "none", retry |-> 0]

\* PENDING is only ever inserted, and FAILED is stored as QUEUED or DEAD.
Later == {"QUEUED", "PROVISIONING", "RUNNING", "SUCCESS", "CANCELLED", "DEAD"}

Init ==
  /\ row = [j \in Job |-> NoRow]
  /\ requeues = [j \in Job |-> 0]

Enter(j) ==
  /\ row[j] = NoRow
  /\ \E st \in {"PENDING", "QUEUED"} :
       row' = [row EXCEPT ![j] = [status |-> st, retry |-> 0]]
  /\ UNCHANGED requeues

\* Only for a job that has a row, and no row changes with it.
Requeue(j) ==
  /\ row[j] # NoRow
  /\ requeues' = [requeues EXCEPT ![j] = @ + 1]
  /\ UNCHANGED row

\* A status and a counter may be stored together, or one of them alone: what the
\* other column holds was perhaps stored by another request in between.
Store(j, st, n) ==
  /\ row[j] # NoRow
  /\ n # row[j].retry => n <= requeues[j] /\ st \in {row[j].status, "QUEUED"}
  /\ st # row[j].status =>
       /\ st = "QUEUED" => n >= 1
       /\ st = "DEAD" => requeues[j] >= MaxRetries[j]
  /\ row' = [row EXCEPT ![j] = [status |-> st, retry |-> n]]
  /\ UNCHANGED requeues

Next ==
  \E j \in Job :
    \/ Enter(j)
    \/ Requeue(j)
    \/ \E st \in Later \cup {row[j].status},
          n \in 1..MaxRetries[j] \cup {row[j].retry} : Store(j, st, n)

Spec == Init /\ [][Next]_ledgerVars

=============================================================================
