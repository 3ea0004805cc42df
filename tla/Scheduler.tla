----------------------------- MODULE Scheduler -----------------------------
(***************************************************************************)
(* Cron schedules: the scheduler task of every orchestrator replica        *)
(* (orchestrator/app/scheduler.py) and the routes of job-service that edit *)
(* its table (job-service/app/routers/schedules.py).                       *)
(*                                                                         *)
(* A tick is one database session.  Its transaction begins at the attempt  *)
(* to take the advisory lock, so NOW() is that instant; the rows it fires  *)
(* are published one by one and updated in the one transaction, which      *)
(* locks them against the routes until COMMIT.                             *)
(***************************************************************************)
EXTENDS Integers, FiniteSets, Sequences

CONSTANTS
  Schedule,       \* schedule_id values (uuid: never reused)
  Replica,        \* orchestrator replicas
  Cron,           \* (cron_expression, timezone) pairs
  NextRun(_, _),  \* croniter: first instant of a pair after a given one
  NoCron,
  Limit,          \* rows per tick: LIMIT 50
  MaxTime,        \* bound on the clock
  MaxFaults       \* bound on crashes, lost connections, failed statements

ASSUME SchedulerAssumption ==
  /\ IsFiniteSet(Replica)
  /\ NoCron \notin Cron
  /\ Limit \in Nat \ {0}
  /\ MaxTime \in Nat
  /\ MaxFaults \in Nat
  /\ \A c \in Cron, t \in 0..MaxTime : NextRun(c, t) \in Nat /\ NextRun(c, t) > t

VARIABLES
  now,      \* the clock
  sched,    \* committed rows of scheduled_jobs
  lease,    \* how often each replica's connection holds the advisory lock
  tick,     \* the tick each replica is in
  fires,    \* job events published, with the next_run_at they were due at
  faults    \* history: faults so far

vars == <<now, sched, lease, tick, fires, faults>>

-----------------------------------------------------------------------------
Absent == [state |-> "absent", cron |-> NoCron, next |-> 0]

Row == [state: {"absent", "enabled", "disabled", "deleted"},
        cron: Cron \cup {NoCron}, next: Nat]

\* A row as a tick selected it.
Due == [id: Schedule, cron: Cron, slot: Nat]

NoDue == [id |-> "none"]

\* wrote[s]: next_run_at this transaction set for s, 0 for none.
NoTick == [pc |-> "idle", start |-> 0, due |-> {}, row |-> NoDue,
           wrote |-> [s \in Schedule |-> 0], cut |-> FALSE]

Tick == [pc: {"idle", "select", "publish", "update", "unlock"},
         start: Nat, due: SUBSET Due, row: Due \cup {NoDue},
         wrote: [Schedule -> Nat], cut: BOOLEAN]

TypeOK ==
  /\ now \in 0..MaxTime
  /\ sched \in [Schedule -> Row]
  /\ lease \in [Replica -> Nat]
  /\ tick \in [Replica -> Tick]
  /\ fires \in Seq([id: Schedule, slot: Nat, by: Replica])
  /\ faults \in 0..MaxFaults

Init ==
  /\ now = 0
  /\ sched = [s \in Schedule |-> Absent]
  /\ lease = [r \in Replica |-> 0]
  /\ tick = [r \in Replica |-> NoTick]
  /\ fires = << >>
  /\ faults = 0

Exists(s) == sched[s].state \in {"enabled", "disabled"}

\* Rows an open transaction has updated are locked until it ends.
Locked(s) == \E r \in Replica : tick[r].wrote[s] # 0

-----------------------------------------------------------------------------
(* routers/schedules.py *)

CreateSchedule(s) ==
  /\ sched[s] = Absent
  /\ \E c \in Cron, e \in {"enabled", "disabled"} :
       sched' = [sched EXCEPT ![s] =
                   [state |-> e, cron |-> c, next |-> NextRun(c, now)]]
  /\ UNCHANGED <<now, lease, tick, fires, faults>>

\* PATCH of the cron expression or the time zone, and of the enabled flag;
\* enabling alone keeps the next_run_at of long ago.
UpdateSchedule(s) ==
  /\ Exists(s) /\ ~Locked(s)
  /\ \/ \E c \in Cron :
          sched' = [sched EXCEPT ![s].cron = c, ![s].next = NextRun(c, now)]
     \/ \E e \in {"enabled", "disabled"} :
          sched' = [sched EXCEPT ![s].state = e]
  /\ UNCHANGED <<now, lease, tick, fires, faults>>

DeleteSchedule(s) ==
  /\ Exists(s) /\ ~Locked(s)
  /\ sched' = [sched EXCEPT ![s] = [Absent EXCEPT !.state = "deleted"]]
  /\ UNCHANGED <<now, lease, tick, fires, faults>>

-----------------------------------------------------------------------------
(* Scheduler._tick *)

\* Mutant: the result of pg_try_advisory_lock is ignored.
TryLockShared(r) ==
  /\ tick[r].pc = "idle"
  /\ lease' = [lease EXCEPT ![r] = @ + 1]
  /\ tick' = [tick EXCEPT ![r].pc = "select", ![r].start = now]
  /\ UNCHANGED <<now, sched, fires, faults>>

\* pg_try_advisory_lock: session level, so a connection that already holds
\* the lock gets it again.  A replica that does not get it skips the tick.
TryLock(r) ==
  /\ tick[r].pc = "idle"
  /\ \A q \in Replica \ {r} : lease[q] = 0
  /\ lease' = [lease EXCEPT ![r] = @ + 1]
  /\ tick' = [tick EXCEPT ![r].pc = "select", ![r].start = now]
  /\ UNCHANGED <<now, sched, fires, faults>>

DueRows(t) ==
  {[id |-> s, cron |-> sched[s].cron, slot |-> sched[s].next] :
     s \in {x \in Schedule : sched[x].state = "enabled" /\ sched[x].next <= t}}

\* ORDER BY next_run_at ASC LIMIT n: some n of the rows, none of them due
\* later than a row left out.
Selections(rows) ==
  {S \in SUBSET rows :
     /\ Cardinality(S) <= Limit
     /\ S = rows \/ Cardinality(S) = Limit
     /\ \A a \in S, b \in rows \ S : a.slot <= b.slot}

Select(r) ==
  /\ tick[r].pc = "select" /\ ~tick[r].cut
  /\ \E S \in Selections(DueRows(tick[r].start)) :
       tick' = [tick EXCEPT ![r].pc = "publish", ![r].due = S]
  /\ UNCHANGED <<now, sched, lease, fires, faults>>

-----------------------------------------------------------------------------
(* Scheduler._fire *)

\* The rows in the order of the query.
Oldest(due) == {d \in due : \A e \in due : d.slot <= e.slot}

Published(d, r) ==
  fires' = Append(fires, [id |-> d.id, slot |-> d.slot, by |-> r])

\* Mutant: next_run_at moves on although the publish failed.
PublishRegardless(r) ==
  /\ tick[r].pc = "publish"
  /\ \E d \in Oldest(tick[r].due) :
       /\ Published(d, r) \/ UNCHANGED fires
       /\ tick' = [tick EXCEPT ![r].pc = "update", ![r].row = d,
                               ![r].due = @ \ {d}]
  /\ UNCHANGED <<now, sched, lease, faults>>

\* send_and_wait succeeds, fails, or fails although the broker has the record
\* (the last is a fault); after a failure the row stays due.
Publish(r) ==
  /\ tick[r].pc = "publish"
  /\ \E d \in Oldest(tick[r].due) :
       \/ /\ Published(d, r)
          /\ tick' = [tick EXCEPT ![r].pc = "update", ![r].row = d,
                                  ![r].due = @ \ {d}]
          /\ UNCHANGED faults
       \/ /\ tick' = [tick EXCEPT ![r].due = @ \ {d}]
          /\ \/ UNCHANGED <<fires, faults>>
             \/ faults < MaxFaults /\ faults' = faults + 1 /\ Published(d, r)
  /\ UNCHANGED <<now, sched, lease>>

\* UPDATE ... WHERE schedule_id: next_run_at from the cron selected earlier;
\* no row is updated when the schedule was deleted meanwhile.
Update(r) ==
  /\ tick[r].pc = "update" /\ ~tick[r].cut
  /\ LET d == tick[r].row
     IN tick' = [tick EXCEPT
          ![r].pc = "publish", ![r].row = NoDue,
          ![r].wrote[d.id] = IF Exists(d.id) THEN NextRun(d.cron, now) ELSE 0]
  /\ UNCHANGED <<now, sched, lease, fires, faults>>

\* Mutant: session.commit() is missing, closing the session rolls back.
CommitMissing(r) ==
  /\ tick[r].pc = "publish" /\ tick[r].due = {} /\ ~tick[r].cut
  /\ tick' = [tick EXCEPT ![r].pc = "unlock", ![r].wrote = NoTick.wrote]
  /\ UNCHANGED <<now, sched, lease, fires, faults>>

Commit(r) ==
  /\ tick[r].pc = "publish" /\ tick[r].due = {} /\ ~tick[r].cut
  /\ sched' = [s \in Schedule |->
                 IF tick[r].wrote[s] # 0
                 THEN [sched[s] EXCEPT !.next = tick[r].wrote[s]]
                 ELSE sched[s]]
  /\ tick' = [tick EXCEPT ![r].pc = "unlock", ![r].wrote = NoTick.wrote]
  /\ UNCHANGED <<now, lease, fires, faults>>

\* finally: pg_advisory_unlock, one level of it.
Unlock(r) ==
  /\ tick[r].pc = "unlock" /\ ~tick[r].cut
  /\ lease' = [lease EXCEPT ![r] = @ - 1]
  /\ tick' = [tick EXCEPT ![r] = NoTick]
  /\ UNCHANGED <<now, sched, fires, faults>>

-----------------------------------------------------------------------------
(* Faults *)

Fault == faults < MaxFaults /\ faults' = faults + 1

\* The UPDATE fails.  The transaction is aborted, so the unlock in the finally
\* clause fails as well and the pooled connection keeps the lock.
UpdateFails(r) ==
  /\ Fault
  /\ tick[r].pc = "update" /\ ~tick[r].cut
  /\ tick' = [tick EXCEPT ![r] = NoTick]
  /\ UNCHANGED <<now, sched, lease, fires>>

\* The replica stops: its connection closes, the server frees the lock.
Crash(r) ==
  /\ Fault
  /\ tick[r] # NoTick \/ lease[r] > 0
  /\ tick' = [tick EXCEPT ![r] = NoTick]
  /\ lease' = [lease EXCEPT ![r] = 0]
  /\ UNCHANGED <<now, sched, fires>>

\* The server loses the connection: lock and updates are gone at once, but the
\* replica learns of it at its next statement and may be publishing until then.
Disconnect(r) ==
  /\ Fault
  /\ tick[r].pc # "idle" /\ ~tick[r].cut
  /\ tick' = [tick EXCEPT ![r].cut = TRUE, ![r].wrote = NoTick.wrote]
  /\ lease' = [lease EXCEPT ![r] = 0]
  /\ UNCHANGED <<now, sched, fires>>

\* Mutant: a tick that raises gives back a lock it no longer has.
TickFailsAndUnlocks(r) ==
  /\ tick[r].cut
  /\ tick[r].pc # "publish" \/ tick[r].due = {}
  /\ tick' = [tick EXCEPT ![r] = NoTick]
  /\ lease' = [lease EXCEPT ![r] = @ - 1]
  /\ UNCHANGED <<now, sched, fires, faults>>

\* The next statement of a disconnected tick raises: "Scheduler tick failed".
TickFails(r) ==
  /\ tick[r].cut
  /\ tick[r].pc # "publish" \/ tick[r].due = {}
  /\ tick' = [tick EXCEPT ![r] = NoTick]
  /\ UNCHANGED <<now, sched, lease, fires, faults>>

-----------------------------------------------------------------------------
Advance ==
  /\ now < MaxTime
  /\ now' = now + 1
  /\ UNCHANGED <<sched, lease, tick, fires, faults>>

TickStep(r) ==
  \/ TryLock(r) \/ Select(r) \/ Publish(r) \/ Update(r) \/ Commit(r) \/ Unlock(r)
  \/ TickFails(r)

FaultStep(r) == UpdateFails(r) \/ Crash(r) \/ Disconnect(r)

Api(s) == CreateSchedule(s) \/ UpdateSchedule(s) \/ DeleteSchedule(s)

Next ==
  \/ Advance
  \/ \E s \in Schedule : Api(s)
  \/ \E r \in Replica : TickStep(r) \/ FaultStep(r)

Spec == Init /\ [][Next]_vars

-----------------------------------------------------------------------------
(* Properties *)

\* The advisory lock is never held from two connections.
LeaseExclusive ==
  \A q, r \in Replica : lease[q] > 0 /\ lease[r] > 0 => q = r

\* What makes it so: a tick holds the lock from its first statement until it
\* knows of a failure, and it has uncommitted updates only while it does.  So
\* ticks never wait for each other's row locks, and Update has no such guard.
TickSound(r) ==
  /\ tick[r].pc = "update" => tick[r].row \in Due
  /\ tick[r].pc # "idle" /\ ~tick[r].cut => lease[r] > 0
  /\ tick[r].pc = "idle" \/ tick[r].cut => tick[r].wrote = NoTick.wrote

LeaseInvariant ==
  /\ LeaseExclusive
  /\ \A s \in Schedule : Exists(s) => sched[s].cron \in Cron
  /\ \A r \in Replica : TickSound(r)

\* Each due instant of a schedule is published once, and once more at most for
\* every fault: the update that moves next_run_at commits before the lock is
\* released, whatever edits of the row fall between the tick's statements.
DuplicatesBoundedByFaults ==
  \A s \in Schedule :
    \A n \in {fires[i].slot : i \in {k \in DOMAIN fires : fires[k].id = s}} :
      Cardinality({i \in DOMAIN fires : fires[i].id = s /\ fires[i].slot = n})
        <= 1 + faults

\* scheduler.py: "so only one orchestrator replica fires schedules".
OneReplicaFires ==
  \A q, r \in Replica :
    tick[q].pc = "publish" /\ tick[q].due # {} /\
    tick[r].pc = "publish" /\ tick[r].due # {} => q = r

\* schedules.py: a "Cron or timezone change invalidates the previously-computed
\* next_run_at", so the stored next_run_at is an instant of the stored cron.
NextRunMatchesCron ==
  \A s \in Schedule :
    Exists(s) => \E t \in 0..now : sched[s].next = NextRun(sched[s].cron, t)

\* The terms of the liveness property: a schedule is due, an instant was fired.
IsDue(s, n) == sched[s].state = "enabled" /\ sched[s].next = n /\ n <= now

FiredAt(s, n) ==
  \E i \in DOMAIN fires : fires[i].id = s /\ fires[i].slot = n

=============================================================================
