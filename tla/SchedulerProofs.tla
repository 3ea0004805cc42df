-------------------------- MODULE SchedulerProofs --------------------------
(***************************************************************************)
(* For every set of schedules, every finite set of replicas, every cron    *)
(* function and any number of faults: the scheduler keeps its types, the   *)
(* advisory lock is exclusive, only the tick that holds it has uncommitted *)
(* updates, and an instant is published at most once and once per fault.   *)
(***************************************************************************)
EXTENDS Scheduler, FiniteSetTheorems, SequenceTheorems, TLAPS

\* The invariant that is inductive.
Inv == TypeOK /\ LeaseInvariant

-----------------------------------------------------------------------------
(* What the constants and the initial tick are. *)

LEMMA NextRunType ==
  ASSUME TypeOK, NEW c \in Cron
  PROVE  NextRun(c, now) \in Nat /\ NextRun(c, now) > now
BY SchedulerAssumption DEF TypeOK

LEMMA NoTickType == NoTick \in Tick
BY DEF NoTick, Tick

\* Rows are selected while they are enabled, so they have a cron expression.
LEMMA SelectionType ==
  ASSUME TypeOK, LeaseInvariant, NEW t, NEW S \in Selections(DueRows(t))
  PROVE  S \in SUBSET Due
<1>1. DueRows(t) \subseteq Due
  BY DEF TypeOK, LeaseInvariant, DueRows, Due, Row, Exists
<1> QED
  BY <1>1 DEF Selections

LEMMA PublishedType ==
  ASSUME TypeOK, NEW d \in Due, NEW r \in Replica, Published(d, r)
  PROVE  fires' \in Seq([id: Schedule, slot: Nat, by: Replica])
<1>1. [id |-> d.id, slot |-> d.slot, by |-> r]
        \in [id: Schedule, slot: Nat, by: Replica]
  BY DEF Due
<1> QED
  BY <1>1 DEF TypeOK, Published

-----------------------------------------------------------------------------
(* A step moves the tick of one replica; the others stay as they are. *)

LEMMA OneTickMoves ==
  ASSUME Inv, NEW r \in Replica, NEW t \in Tick, NEW n \in Nat,
         tick' = [tick EXCEPT ![r] = t],
         lease' = [lease EXCEPT ![r] = n],
         n > 0 => lease[r] > 0 \/ \A q \in Replica \ {r} : lease[q] = 0,
         t.pc = "update" => t.row \in Due,
         t.pc # "idle" /\ ~t.cut => n > 0,
         t.pc = "idle" \/ t.cut => t.wrote = NoTick.wrote
  PROVE  /\ tick' \in [Replica -> Tick]
         /\ lease' \in [Replica -> Nat]
         /\ LeaseExclusive'
         /\ \A q \in Replica : TickSound(q)'
<1> USE DEF Inv
<1>1. tick' \in [Replica -> Tick] /\ lease' \in [Replica -> Nat]
  BY DEF TypeOK
<1>2. tick'[r] = t /\ lease'[r] = n
  BY DEF TypeOK
<1>3. \A q \in Replica \ {r} : tick'[q] = tick[q] /\ lease'[q] = lease[q]
  BY DEF TypeOK
<1>4. LeaseExclusive'
  BY <1>2, <1>3 DEF LeaseInvariant, LeaseExclusive, TypeOK
<1>5. TickSound(r)'
  BY <1>2 DEF TickSound, NoTick
<1>6. ASSUME NEW q \in Replica \ {r}
      PROVE  TickSound(q)'
  BY <1>3, <1>6 DEF LeaseInvariant, TickSound, NoTick
<1> QED
  BY <1>1, <1>4, <1>5, <1>6

-----------------------------------------------------------------------------
(* The routes of job-service. *)

LEMMA ApiSound ==
  ASSUME Inv, NEW s \in Schedule, Api(s)
  PROVE  Inv'
<1> USE DEF Inv
<1>1. \A c \in Cron : NextRun(c, now) \in Nat
  BY NextRunType
<1>2. PICK row \in Row : /\ sched' = [sched EXCEPT ![s] = row]
                         /\ row.state \in {"enabled", "disabled"} =>
                              row.cron \in Cron
  <2>1. CASE CreateSchedule(s)
    <3>1. PICK c \in Cron, e \in {"enabled", "disabled"} :
            sched' = [sched EXCEPT ![s] =
                        [state |-> e, cron |-> c, next |-> NextRun(c, now)]]
      BY <2>1 DEF CreateSchedule
    <3>2. [state |-> e, cron |-> c, next |-> NextRun(c, now)] \in Row
      BY <1>1 DEF Row
    <3> QED
      BY <3>1, <3>2
  <2>2. CASE UpdateSchedule(s)
    <3>1. sched[s] \in Row /\ sched[s].cron \in Cron
      BY <2>2 DEF UpdateSchedule, TypeOK, LeaseInvariant
    <3>2. ASSUME NEW c \in Cron
          PROVE  [sched[s] EXCEPT !.cron = c, !.next = NextRun(c, now)]
                   \in {x \in Row : x.cron \in Cron}
      BY <1>1, <3>1, <3>2 DEF Row
    <3>3. ASSUME NEW e \in {"enabled", "disabled"}
          PROVE  [sched[s] EXCEPT !.state = e] \in {x \in Row : x.cron \in Cron}
      BY <3>1, <3>3 DEF Row
    <3>4. \E x \in {y \in Row : y.cron \in Cron} :
             sched' = [sched EXCEPT ![s] = x]
      <4>1. CASE \E c \in Cron : sched' = [sched EXCEPT ![s] =
                   [sched[s] EXCEPT !.cron = c, !.next = NextRun(c, now)]]
        BY <3>2, <4>1
      <4>2. CASE \E e \in {"enabled", "disabled"} :
                   sched' = [sched EXCEPT ![s] = [sched[s] EXCEPT !.state = e]]
        BY <3>3, <4>2
      <4> QED
        BY <2>2, <4>1, <4>2 DEF UpdateSchedule, TypeOK
    <3> QED
      BY <3>4
  <2>3. CASE DeleteSchedule(s)
    <3>1. [Absent EXCEPT !.state = "deleted"]
            = [state |-> "deleted", cron |-> NoCron, next |-> 0]
      BY DEF Absent
    <3> QED
      BY <2>3, <3>1 DEF DeleteSchedule, Row
  <2> QED
    BY <2>1, <2>2, <2>3 DEF Api
<1>3. /\ sched' \in [Schedule -> Row]
      /\ \A x \in Schedule : Exists(x)' => sched'[x].cron \in Cron
  BY <1>2 DEF TypeOK, LeaseInvariant, Exists
<1>4. UNCHANGED <<now, lease, tick, fires, faults>>
  BY DEF Api, CreateSchedule, UpdateSchedule, DeleteSchedule
<1> QED
  BY <1>3, <1>4
     DEF TypeOK, LeaseInvariant, LeaseExclusive, TickSound, NoTick

-----------------------------------------------------------------------------
(* The statements of a tick. *)

LEMMA TryLockSound ==
  ASSUME Inv, NEW r \in Replica, TryLock(r)
  PROVE  Inv'
<1> DEFINE t == [tick[r] EXCEPT !.pc = "select", !.start = now]
<1>1. t \in Tick /\ t.pc = "select" /\ t.wrote = tick[r].wrote
  <2>1. now \in Nat /\ tick[r] \in Tick
    BY SchedulerAssumption DEF Inv, TypeOK
  <2> QED
    BY <2>1 DEF Tick
<1>2. t.wrote = NoTick.wrote
  BY <1>1 DEF Inv, LeaseInvariant, TickSound, TryLock
<1>3. tick' = [tick EXCEPT ![r] = t] /\ lease' = [lease EXCEPT ![r] = lease[r] + 1]
  BY DEF TryLock, Inv, TypeOK
<1>4. lease[r] + 1 \in Nat /\ lease[r] + 1 > 0
  BY DEF Inv, TypeOK
<1>5. \A q \in Replica \ {r} : lease[q] = 0
  BY DEF TryLock
<1> HIDE DEF t
<1>6. /\ tick' \in [Replica -> Tick] /\ lease' \in [Replica -> Nat]
      /\ LeaseExclusive' /\ \A q \in Replica : TickSound(q)'
  BY <1>1, <1>2, <1>3, <1>4, <1>5, OneTickMoves
<1> QED
  BY <1>6 DEF Inv, TypeOK, LeaseInvariant, TryLock, Exists

\* Steps between the lock and the unlock leave the lock as it is.
LEMMA SameLease ==
  ASSUME Inv, NEW r \in Replica, NEW t \in Tick,
         tick' = [tick EXCEPT ![r] = t], UNCHANGED lease,
         t.pc = "update" => t.row \in Due,
         t.pc # "idle" /\ ~t.cut => lease[r] > 0,
         t.pc = "idle" \/ t.cut => t.wrote = NoTick.wrote
  PROVE  /\ tick' \in [Replica -> Tick]
         /\ lease' \in [Replica -> Nat]
         /\ LeaseExclusive'
         /\ \A q \in Replica : TickSound(q)'
<1>1. lease[r] \in Nat /\ lease' = [lease EXCEPT ![r] = lease[r]]
  BY DEF Inv, TypeOK
<1> QED
  BY <1>1, OneTickMoves

LEMMA SelectSound ==
  ASSUME Inv, NEW r \in Replica, Select(r)
  PROVE  Inv'
<1>1. PICK S \in Selections(DueRows(tick[r].start)) :
        tick' = [tick EXCEPT ![r].pc = "publish", ![r].due = S]
  BY DEF Select
<1> DEFINE t == [tick[r] EXCEPT !.pc = "publish", !.due = S]
<1>2. S \in SUBSET Due
  BY SelectionType DEF Inv
<1>3. t \in Tick /\ t.pc = "publish" /\ ~t.cut
  BY <1>2 DEF Inv, TypeOK, Tick, Select
<1>4. lease[r] > 0
  BY DEF Inv, LeaseInvariant, TickSound, Select
<1>5. tick' = [tick EXCEPT ![r] = t] /\ UNCHANGED lease
  BY <1>1 DEF Select, Inv, TypeOK
<1> HIDE DEF t
<1>6. /\ tick' \in [Replica -> Tick] /\ lease' \in [Replica -> Nat]
      /\ LeaseExclusive' /\ \A q \in Replica : TickSound(q)'
  BY <1>3, <1>4, <1>5, SameLease
<1> QED
  BY <1>6 DEF Inv, TypeOK, LeaseInvariant, Select, Exists

LEMMA PublishSound ==
  ASSUME Inv, NEW r \in Replica, Publish(r)
  PROVE  Inv'
<1>1. PICK d \in Oldest(tick[r].due) :
        \/ /\ Published(d, r)
           /\ tick' = [tick EXCEPT ![r].pc = "update", ![r].row = d,
                                   ![r].due = @ \ {d}]
           /\ UNCHANGED faults
        \/ /\ tick' = [tick EXCEPT ![r].due = @ \ {d}]
           /\ \/ UNCHANGED <<fires, faults>>
              \/ faults < MaxFaults /\ faults' = faults + 1 /\ Published(d, r)
  BY DEF Publish
<1>2. d \in Due /\ tick[r].due \ {d} \in SUBSET Due
  BY DEF Oldest, Inv, TypeOK, Tick
<1>3. PICK t \in Tick : /\ tick' = [tick EXCEPT ![r] = t]
                        /\ t.pc \in {"publish", "update"}
                        /\ t.pc = "update" => t.row \in Due
                        /\ t.cut = tick[r].cut /\ t.wrote = tick[r].wrote
  <2> DEFINE u == [tick[r] EXCEPT !.pc = "update", !.row = d,
                                  !.due = tick[r].due \ {d}]
             v == [tick[r] EXCEPT !.due = tick[r].due \ {d}]
  <2>1. u \in Tick /\ u.pc = "update" /\ u.row = d
          /\ u.cut = tick[r].cut /\ u.wrote = tick[r].wrote
    BY <1>2 DEF Inv, TypeOK, Tick
  <2>2. v \in Tick /\ v.pc = "publish"
          /\ v.cut = tick[r].cut /\ v.wrote = tick[r].wrote
    BY <1>2 DEF Inv, TypeOK, Tick, Publish
  <2>3. tick' = [tick EXCEPT ![r] = u] \/ tick' = [tick EXCEPT ![r] = v]
    BY <1>1 DEF Inv, TypeOK
  <2> HIDE DEF u, v
  <2> QED
    BY <1>2, <2>1, <2>2, <2>3
<1>4. /\ ~tick[r].cut => lease[r] > 0
      /\ tick[r].cut => tick[r].wrote = NoTick.wrote
  BY DEF Inv, LeaseInvariant, TickSound, Publish
<1>5. /\ tick' \in [Replica -> Tick] /\ lease' \in [Replica -> Nat]
      /\ LeaseExclusive' /\ \A q \in Replica : TickSound(q)'
  BY <1>3, <1>4, SameLease DEF Publish
<1>6. fires' \in Seq([id: Schedule, slot: Nat, by: Replica])
  BY <1>1, <1>2, PublishedType DEF Inv, TypeOK
<1>7. faults' \in 0..MaxFaults
  BY <1>1, SchedulerAssumption DEF Inv, TypeOK
<1> QED
  BY <1>5, <1>6, <1>7 DEF Inv, TypeOK, LeaseInvariant, Publish, Exists

LEMMA UpdateSound ==
  ASSUME Inv, NEW r \in Replica, Update(r)
  PROVE  Inv'
<1> DEFINE d == tick[r].row
           n == IF Exists(d.id) THEN NextRun(d.cron, now) ELSE 0
           w == [tick[r].wrote EXCEPT ![d.id] = n]
           t == [tick[r] EXCEPT !.pc = "publish", !.row = NoDue, !.wrote = w]
<1>1. d \in Due /\ lease[r] > 0
  BY DEF Inv, LeaseInvariant, TickSound, Update
<1>2. n \in Nat
  BY <1>1, NextRunType DEF Inv, Due
<1>3. tick[r] \in Tick
  BY DEF Inv, TypeOK
<1> HIDE DEF n
<1>4. w \in [Schedule -> Nat]
  BY <1>2, <1>3 DEF Tick
<1>5. tick' = [tick EXCEPT ![r] = t] /\ UNCHANGED lease
  BY <1>3 DEF Update, Inv, TypeOK, Tick, n
<1> HIDE DEF d, w
<1>6. t \in Tick /\ t.pc = "publish" /\ ~t.cut
  BY <1>3, <1>4 DEF Tick, Update
<1> HIDE DEF t
<1>7. /\ tick' \in [Replica -> Tick] /\ lease' \in [Replica -> Nat]
      /\ LeaseExclusive' /\ \A q \in Replica : TickSound(q)'
  BY <1>1, <1>5, <1>6, SameLease
<1> QED
  BY <1>7 DEF Inv, TypeOK, LeaseInvariant, Update, Exists

\* COMMIT moves next_run_at and nothing else of a row.
LEMMA CommitSound ==
  ASSUME Inv, NEW r \in Replica, Commit(r)
  PROVE  Inv'
<1> DEFINE t == [tick[r] EXCEPT !.pc = "unlock", !.wrote = NoTick.wrote]
<1>1. tick[r] \in Tick /\ NoTick.wrote \in [Schedule -> Nat]
  BY NoTickType DEF Inv, TypeOK, Tick
<1>2. t \in Tick /\ t.pc = "unlock" /\ ~t.cut
  BY <1>1 DEF Tick, Commit
<1>3. lease[r] > 0
  BY DEF Inv, LeaseInvariant, TickSound, Commit
<1>4. tick' = [tick EXCEPT ![r] = t] /\ UNCHANGED lease
  BY DEF Commit, Inv, TypeOK
<1> HIDE DEF t
<1>5. /\ tick' \in [Replica -> Tick] /\ lease' \in [Replica -> Nat]
      /\ LeaseExclusive' /\ \A q \in Replica : TickSound(q)'
  BY <1>2, <1>3, <1>4, SameLease
<1>6. ASSUME NEW s \in Schedule
      PROVE  /\ sched'[s] \in Row
             /\ sched'[s].state = sched[s].state /\ sched'[s].cron = sched[s].cron
  <2>1. sched[s] \in Row /\ tick[r].wrote[s] \in Nat
    BY <1>1 DEF Inv, TypeOK, Tick
  <2>2. \/ sched'[s] = sched[s]
        \/ sched'[s] = [sched[s] EXCEPT !.next = tick[r].wrote[s]]
    BY DEF Commit
  <2> QED
    BY <2>1, <2>2 DEF Row
<1>7. sched' \in [Schedule -> Row]
  BY <1>6 DEF Commit
<1>8. \A s \in Schedule : Exists(s)' => sched'[s].cron \in Cron
  BY <1>6 DEF Exists, Inv, LeaseInvariant
<1> QED
  BY <1>5, <1>7, <1>8 DEF Inv, TypeOK, LeaseInvariant, Commit

LEMMA UnlockSound ==
  ASSUME Inv, NEW r \in Replica, Unlock(r)
  PROVE  Inv'
<1> DEFINE n == lease[r] - 1
<1>1. n \in Nat /\ lease[r] > 0
  BY DEF Inv, TypeOK, LeaseInvariant, TickSound, Unlock
<1>2. tick' = [tick EXCEPT ![r] = NoTick] /\ lease' = [lease EXCEPT ![r] = n]
  BY DEF Unlock, Inv, TypeOK
<1> HIDE DEF n
<1>3. NoTick.pc = "idle"
  BY DEF NoTick
<1>4. /\ tick' \in [Replica -> Tick] /\ lease' \in [Replica -> Nat]
      /\ LeaseExclusive' /\ \A q \in Replica : TickSound(q)'
  BY <1>1, <1>2, <1>3, NoTickType, OneTickMoves
<1> QED
  BY <1>4 DEF Inv, TypeOK, LeaseInvariant, Unlock, Exists

-----------------------------------------------------------------------------
(* Faults. *)

LEMMA ZeroIsFree == 0 \in Nat /\ ~(0 > 0)
OBVIOUS

\* A tick is abandoned, and with the connection the lock, or not.
LEMMA Abandoned ==
  ASSUME Inv, NEW r \in Replica, tick' = [tick EXCEPT ![r] = NoTick],
         lease' = [lease EXCEPT ![r] = 0] \/ UNCHANGED lease
  PROVE  /\ tick' \in [Replica -> Tick] /\ lease' \in [Replica -> Nat]
         /\ LeaseExclusive' /\ \A q \in Replica : TickSound(q)'
<1>1. NoTick.pc = "idle"
  BY DEF NoTick
<1>2. CASE lease' = [lease EXCEPT ![r] = 0]
  BY <1>1, <1>2, ZeroIsFree, NoTickType, OneTickMoves
<1>3. CASE UNCHANGED lease
  BY <1>1, <1>3, NoTickType, SameLease
<1> QED
  BY <1>2, <1>3

LEMMA FaultType ==
  ASSUME TypeOK, Fault
  PROVE  faults' \in 0..MaxFaults
BY SchedulerAssumption DEF TypeOK, Fault

LEMMA AbandonSound ==
  ASSUME Inv, NEW r \in Replica, UpdateFails(r) \/ Crash(r) \/ TickFails(r)
  PROVE  Inv'
<1>1. /\ tick' \in [Replica -> Tick] /\ lease' \in [Replica -> Nat]
      /\ LeaseExclusive' /\ \A q \in Replica : TickSound(q)'
  BY Abandoned DEF UpdateFails, Crash, TickFails
<1>2. faults' \in 0..MaxFaults
  BY FaultType DEF UpdateFails, Crash, TickFails, Inv, TypeOK
<1>3. UNCHANGED <<now, sched, fires>>
  BY DEF UpdateFails, Crash, TickFails
<1> QED
  BY <1>1, <1>2, <1>3 DEF Inv, TypeOK, LeaseInvariant, Exists

\* The server drops the lock and the updates together.
LEMMA DisconnectSound ==
  ASSUME Inv, NEW r \in Replica, Disconnect(r)
  PROVE  Inv'
<1> DEFINE t == [tick[r] EXCEPT !.cut = TRUE, !.wrote = NoTick.wrote]
<1>1. tick[r] \in Tick /\ NoTick.wrote \in [Schedule -> Nat]
  BY NoTickType DEF Inv, TypeOK, Tick
<1>2. t \in Tick /\ t.cut /\ t.wrote = NoTick.wrote
        /\ t.pc = tick[r].pc /\ t.row = tick[r].row
  BY <1>1 DEF Tick
<1>3. t.pc = "update" => t.row \in Due
  BY <1>2 DEF Inv, LeaseInvariant, TickSound
<1>4. tick' = [tick EXCEPT ![r] = t] /\ lease' = [lease EXCEPT ![r] = 0]
  BY DEF Disconnect, Inv, TypeOK
<1> HIDE DEF t
<1>5. /\ tick' \in [Replica -> Tick] /\ lease' \in [Replica -> Nat]
      /\ LeaseExclusive' /\ \A q \in Replica : TickSound(q)'
  BY <1>2, <1>3, <1>4, ZeroIsFree, OneTickMoves
<1>6. faults' \in 0..MaxFaults
  BY FaultType DEF Disconnect, Inv
<1> QED
  BY <1>5, <1>6 DEF Inv, TypeOK, LeaseInvariant, Disconnect, Exists

-----------------------------------------------------------------------------
LEMMA AdvanceSound == Inv /\ Advance => Inv'
BY SchedulerAssumption
   DEF Inv, TypeOK, LeaseInvariant, LeaseExclusive, TickSound, NoTick, Advance,
       Exists

LEMMA StutterSound == Inv /\ UNCHANGED vars => Inv'
BY DEF Inv, TypeOK, LeaseInvariant, LeaseExclusive, TickSound, NoTick, Exists,
       vars

\* The lock, the ticks and the rows stay sound, whatever fails in between.
LEMMA InvariantHolds == Spec => []Inv
<1>1. Init => Inv
  <2>1. ASSUME Init
        PROVE  TypeOK
    <3>1. Absent \in Row
      BY DEF Absent, Row
    <3> QED
      BY <2>1, <3>1, NoTickType, SchedulerAssumption DEF Init, TypeOK
  <2>2. ASSUME Init
        PROVE  LeaseInvariant
    BY <2>2 DEF Init, LeaseInvariant, LeaseExclusive, TickSound, NoTick, Absent,
                Exists
  <2> QED
    BY <2>1, <2>2 DEF Inv
<1>2. Inv /\ [Next]_vars => Inv'
  <2> SUFFICES ASSUME Inv, Next
               PROVE  Inv'
    BY StutterSound
  <2>1. CASE Advance
    BY <2>1, AdvanceSound
  <2>2. ASSUME NEW s \in Schedule, Api(s)
        PROVE  Inv'
    BY <2>2, ApiSound
  <2>3. ASSUME NEW r \in Replica, TickStep(r)
        PROVE  Inv'
    BY <2>3, TryLockSound, SelectSound, PublishSound, UpdateSound, CommitSound,
       UnlockSound, AbandonSound DEF TickStep
  <2>4. ASSUME NEW r \in Replica, FaultStep(r)
        PROVE  Inv'
    BY <2>4, AbandonSound, DisconnectSound DEF FaultStep
  <2> QED
    BY <2>1, <2>2, <2>3, <2>4 DEF Next
<1> QED
  BY <1>1, <1>2, PTL DEF Spec

-----------------------------------------------------------------------------
(* What bounds the duplicates.  An instant n of a schedule s has at most one *)
(* claim to be published: it is yet to come, or it is next_run_at and no     *)
(* tick that lives works on it (Free), or a tick has selected it.  A claim   *)
(* is spent by publishing, and only a fault makes another one.               *)

Firings(s, n) == {i \in DOMAIN fires : fires[i].id = s /\ fires[i].slot = n}

\* A tick in state t has still to publish s at n.
Claims(t, s, n) == \E d \in t.due : d.id = s /\ d.slot = n

\* It has, or has published it, and its connection lives.
Holds(t, s, n) ==
  /\ ~t.cut
  /\ \/ Claims(t, s, n)
     \/ t.pc = "update" /\ t.row.id = s /\ t.row.slot = n
     \/ t.wrote[s] # 0

Claimants(s, n) == {r \in Replica : Claims(tick[r], s, n)}

Free(s, n) ==
  \/ n > now
  \/ /\ Exists(s) /\ sched[s].next = n
     /\ \A r \in Replica : ~Holds(tick[r], s, n)

One(b) == IF b THEN 1 ELSE 0

Bounded(s, n) ==
  Cardinality(Firings(s, n)) + Cardinality(Claimants(s, n)) + One(Free(s, n))
    <= 1 + faults

\* What a tick claims was due when it began, one instant of a schedule; before
\* its SELECT and after its COMMIT it claims nothing.
TickPast(t) ==
  /\ t.start <= now
  /\ t.pc \in {"idle", "select", "unlock"} => t.due = {} /\ t.wrote = NoTick.wrote
  /\ \A d, e \in t.due : d.id = e.id => d = e
  /\ \A d \in t.due : d.slot <= now

\* Nobody has, or may, publish the instant an uncommitted UPDATE sets.
New(s, n) == Firings(s, n) = {} /\ Claimants(s, n) = {}

Past ==
  /\ \A i \in DOMAIN fires : fires[i].slot <= now
  /\ \A r \in Replica : TickPast(tick[r])

WrittenNew ==
  \A r \in Replica, s \in Schedule :
    tick[r].wrote[s] # 0 => New(s, tick[r].wrote[s])

FireInvariant ==
  /\ Past
  /\ WrittenNew
  /\ \A s \in Schedule, n \in Nat : Bounded(s, n)

FInv == Inv /\ FireInvariant

-----------------------------------------------------------------------------
(* Counting *)

LEMMA FiringsFinite ==
  ASSUME TypeOK, NEW s, NEW n
  PROVE  IsFiniteSet(Firings(s, n)) /\ Cardinality(Firings(s, n)) \in Nat
<1>1. DOMAIN fires = 1..Len(fires) /\ Len(fires) \in Nat
  BY DEF TypeOK
<1>2. IsFiniteSet(1..Len(fires))
  BY <1>1, FS_Interval
<1>3. Firings(s, n) \subseteq 1..Len(fires)
  BY <1>1 DEF Firings
<1> QED
  BY <1>2, <1>3, FS_Subset, FS_CardinalityType

LEMMA ClaimantsFinite ==
  ASSUME NEW s, NEW n
  PROVE  IsFiniteSet(Claimants(s, n)) /\ Cardinality(Claimants(s, n)) \in Nat
<1>1. Claimants(s, n) \subseteq Replica
  BY DEF Claimants
<1> QED
  BY <1>1, SchedulerAssumption, FS_Subset, FS_CardinalityType

LEMMA CountWith ==
  ASSUME NEW S, IsFiniteSet(S), NEW x
  PROVE  /\ Cardinality(S \cup {x}) = Cardinality(S) + One(x \notin S)
         /\ Cardinality(S \ {x}) = Cardinality(S) - One(x \in S)
<1>1. Cardinality(S) \in Nat
  BY FS_CardinalityType
<1>2. Cardinality(S \cup {x}) = Cardinality(S) + (IF x \notin S THEN 1 ELSE 0)
  BY <1>1, FS_AddElement
<1>3. Cardinality(S \ {x}) = Cardinality(S) - (IF x \in S THEN 1 ELSE 0)
  BY <1>1, FS_RemoveElement
<1> QED
  BY <1>2, <1>3 DEF One

Counted(r, t, s, n) ==
  Cardinality(Claimants(s, n)') =
    Cardinality(Claimants(s, n)) + One(Claims(t, s, n)) - One(Claims(tick[r], s, n))

\* The claims of a replica that moves to the tick t are those of t.
LEMMA ClaimantsMove ==
  ASSUME TypeOK, NEW r \in Replica, NEW t, tick' = [tick EXCEPT ![r] = t],
         NEW s, NEW n
  PROVE  /\ Counted(r, t, s, n)
         /\ Claims(t, s, n) \/ Claimants(s, n)' \subseteq Claimants(s, n)
<1> DEFINE S == Claimants(s, n)
<1>1. /\ tick'[r] = t
      /\ \A q \in Replica \ {r} : tick'[q] = tick[q]
  BY DEF TypeOK
<1>2. \A q \in Replica : q \in S <=> Claims(tick[q], s, n)
  BY DEF Claimants
<1>3. S \subseteq Replica /\ Claimants(s, n)' = {q \in Replica : Claims(tick'[q], s, n)}
  BY DEF Claimants, Claims
<1>4. IsFiniteSet(S) /\ Cardinality(S) \in Nat
  BY ClaimantsFinite
<1> HIDE DEF S
<1>5. CASE Claims(t, s, n)
  <2>1. Claimants(s, n)' = S \cup {r}
    BY <1>1, <1>2, <1>3, <1>5
  <2> QED
    BY <1>2, <1>4, <1>5, <2>1, CountWith DEF Counted, One, S
<1>6. CASE ~Claims(t, s, n)
  <2>1. Claimants(s, n)' = S \ {r}
    BY <1>1, <1>2, <1>3, <1>6
  <2> QED
    BY <1>2, <1>4, <1>6, <2>1, CountWith DEF Counted, One, S
<1> QED
  BY <1>5, <1>6

\* The tick in state t would let go of an instant that a row still stands at.
Releases(r, t, s, n) ==
  Exists(s) /\ Holds(tick[r], s, n) /\ ~Holds(t, s, n)

\* Row and clock being what they are, an instant comes free when the tick that
\* holds it lets go of it.
LEMMA FreeMove ==
  ASSUME TypeOK, NEW r \in Replica, NEW t, tick' = [tick EXCEPT ![r] = t],
         NEW s, NEW n, UNCHANGED <<now, sched[s]>>, Free(s, n)'
  PROVE  Free(s, n) \/ Releases(r, t, s, n)
<1>1. /\ tick'[r] = t
      /\ \A q \in Replica \ {r} : tick'[q] = tick[q]
  BY DEF TypeOK
<1>2. CASE n > now
  BY <1>2 DEF Free
<1>3. CASE ~(n > now)
  <2>1. /\ Exists(s) /\ sched[s].next = n
        /\ \A q \in Replica : ~Holds(tick'[q], s, n)
    BY <1>3 DEF Free, Exists, Holds, Claims
  <2> QED
    BY <1>1, <2>1 DEF Free, Releases
<1> QED
  BY <1>2, <1>3

LEMMA BoundArithmetic ==
  ASSUME NEW f \in Int, NEW c \in Int, NEW x \in Int, NEW g \in Int,
         NEW k \in Int, NEW a \in Int, NEW b \in Int, NEW y \in Int,
         NEW z \in Int, NEW h \in Int,
         f + c + x <= 1 + g, y <= x + z, k + a + z <= b + (h - g)
  PROVE  (f + k) + (c + a - b) + y <= 1 + h
OBVIOUS

LEMMA PayArithmetic ==
  ASSUME NEW k \in {0, 1}, NEW a \in {0, 1}, NEW b \in {0, 1}, NEW z \in {0, 1},
         NEW g \in Int, NEW h \in Int, h >= g, k + a <= b,
         z = 0 \/ h >= g + 1 \/ (b = 1 /\ k = 0 /\ a = 0)
  PROVE  k + a + z <= b + (h - g)
OBVIOUS

LEMMA OneType == \A b : One(b) \in {0, 1} /\ One(b) \in Int
BY DEF One

\* A step of one tick keeps the bound of an instant if what it publishes and
\* what it lets go is paid for by a claim it gives up, or by a fault.
LEMMA TickBound ==
  ASSUME Inv, NEW r \in Replica, NEW t, tick' = [tick EXCEPT ![r] = t],
         faults' \in Nat, NEW s, NEW n, UNCHANGED <<now, sched[s]>>,
         Bounded(s, n), NEW k \in Nat,
         Cardinality(Firings(s, n)') = Cardinality(Firings(s, n)) + k,
         k + One(Claims(t, s, n)) + One(Releases(r, t, s, n))
           <= One(Claims(tick[r], s, n)) + (faults' - faults)
  PROVE  Bounded(s, n)'
<1> DEFINE f == Cardinality(Firings(s, n))
           c == Cardinality(Claimants(s, n))
           a == One(Claims(t, s, n))
           b == One(Claims(tick[r], s, n))
           x == One(Free(s, n))
           y == One(Free(s, n)')
           z == One(Releases(r, t, s, n))
<1>1. f \in Int /\ c \in Int /\ faults \in Int /\ faults' \in Int /\ k \in Int
  BY FiringsFinite, ClaimantsFinite, SchedulerAssumption DEF Inv, TypeOK
<1>2. Cardinality(Claimants(s, n)') = c + a - b
  <2>1. TypeOK
    BY DEF Inv
  <2>2. Counted(r, t, s, n)
    BY <2>1, ClaimantsMove
  <2> QED
    BY <2>2 DEF Counted
<1>3. y <= x + z
  <2>1. Free(s, n)' => Free(s, n) \/ Releases(r, t, s, n)
    BY FreeMove DEF Inv
  <2> QED
    BY <2>1 DEF One
<1>4. a \in Int /\ b \in Int /\ x \in Int /\ y \in Int /\ z \in Int
  BY OneType
<1>5. f + c + x <= 1 + faults
  BY DEF Bounded
<1>6. k + a + z <= b + (faults' - faults)
  OBVIOUS
<1>7. Cardinality(Firings(s, n)') = f + k
  OBVIOUS
<1> HIDE DEF f, c, a, b, x, y, z
<1>8. (f + k) + (c + a - b) + y <= 1 + faults'
  BY <1>1, <1>3, <1>4, <1>5, <1>6, BoundArithmetic
<1>9. Cardinality(Firings(s, n)') + Cardinality(Claimants(s, n)') + y
        <= 1 + faults'
  BY <1>2, <1>7, <1>8
<1> QED
  BY <1>9 DEF Bounded, y, One

\* A step that publishes nothing and selects nothing may make an instant free
\* that nobody has, or may, publish.
LEMMA NewFree ==
  ASSUME Inv, NEW s, NEW n, UNCHANGED faults, Bounded(s, n),
         Firings(s, n)' = Firings(s, n),
         Claimants(s, n)' \subseteq Claimants(s, n),
         Free(s, n)' => Free(s, n) \/ New(s, n)
  PROVE  Bounded(s, n)'
<1> DEFINE f == Cardinality(Firings(s, n))
           c == Cardinality(Claimants(s, n))
           d == Cardinality(Claimants(s, n)')
           x == One(Free(s, n))
           y == One(Free(s, n)')
<1>1. f \in Nat /\ c \in Nat /\ faults \in Nat
  BY FiringsFinite, ClaimantsFinite, SchedulerAssumption DEF Inv, TypeOK
<1>2. d \in Nat /\ d <= c
  BY ClaimantsFinite, FS_Subset, FS_CardinalityType
<1>3. x \in {0, 1} /\ y \in {0, 1}
  BY OneType
<1>4. f + c + x <= 1 + faults
  BY DEF Bounded
<1>5. y <= x \/ (f = 0 /\ c = 0)
  BY FS_EmptySet DEF One, New
<1>6. Cardinality(Firings(s, n)') = f
  OBVIOUS
<1> HIDE DEF f, c, d, x, y
<1>7. f + d + y <= 1 + faults
  BY <1>1, <1>2, <1>3, <1>4, <1>5
<1>8. Cardinality(Firings(s, n)') + d + y <= 1 + faults'
  BY <1>6, <1>7
<1> QED
  BY <1>8 DEF Bounded, d, y, One

\* An instant to come is new.
LEMMA ToComeIsNew ==
  ASSUME Inv, Past, NEW s, NEW n \in Nat, n > now
  PROVE  New(s, n)
<1>1. now \in Int /\ \A i \in DOMAIN fires : fires[i].slot \in Int
  <2>1. now \in Int /\ fires \in Seq([id: Schedule, slot: Nat, by: Replica])
    BY SchedulerAssumption DEF Inv, TypeOK
  <2>2. ASSUME NEW i \in DOMAIN fires
        PROVE  fires[i].slot \in Int
    <3>1. fires[i] \in [id: Schedule, slot: Nat, by: Replica]
      <4>1. i \in 1..Len(fires)
        BY <2>1, <2>2
      <4> QED
        BY <2>1, <4>1, ElementOfSeq
    <3> QED
      BY <3>1
  <2> QED
    BY <2>1, <2>2
<1>2. \A r \in Replica : \A d \in tick[r].due : d.slot \in Int
  BY DEF Inv, TypeOK, Tick, Due
<1>3. Firings(s, n) = {}
  BY <1>1 DEF Past, Firings
<1>4. Claimants(s, n) = {}
  BY <1>1, <1>2 DEF Past, TickPast, Claimants, Claims
<1> QED
  BY <1>3, <1>4 DEF New

\* Only the tick that holds the lock holds an instant or has written.
LEMMA OthersHoldNothing ==
  ASSUME Inv, Past, NEW r \in Replica, lease[r] > 0, NEW q \in Replica \ {r}
  PROVE  /\ tick[q].wrote = NoTick.wrote
         /\ \A s \in Schedule : \A n : ~Holds(tick[q], s, n)
<1>1. ~(lease[q] > 0)
  BY DEF Inv, LeaseInvariant, LeaseExclusive
<1>2. tick[q].pc = "idle" \/ tick[q].cut
  BY <1>1 DEF Inv, LeaseInvariant, TickSound
<1>3. tick[q].wrote = NoTick.wrote
  BY <1>2 DEF Inv, LeaseInvariant, TickSound
<1>4. tick[q].pc = "idle" => tick[q].due = {}
  BY DEF Past, TickPast
<1> QED
  BY <1>2, <1>3, <1>4 DEF Holds, Claims, NoTick

-----------------------------------------------------------------------------
(* The steps of one tick. *)

\* TickPast speaks of one tick and the clock.
LEMMA PastMove ==
  ASSUME Inv, Past, NEW r \in Replica, NEW t, tick' = [tick EXCEPT ![r] = t],
         UNCHANGED now, TickPast(t),
         \A i \in DOMAIN fires' : fires'[i].slot <= now
  PROVE  Past'
<1>1. /\ tick'[r] = t
      /\ \A q \in Replica \ {r} : tick'[q] = tick[q]
  BY DEF Inv, TypeOK
<1>2. ASSUME NEW q \in Replica
      PROVE  TickPast(tick[q])'
  <2>1. tick'[q] = t \/ tick'[q] = tick[q]
    BY <1>1
  <2>2. TickPast(tick[q])
    BY DEF Past
  <2> QED
    BY <2>1, <2>2 DEF TickPast, NoTick
<1> QED
  BY <1>2 DEF Past

\* A step that publishes nothing and selects nothing: what it lets go it had a
\* claim to, or a fault made it.
LEMMA QuietTick ==
  ASSUME FInv, NEW r \in Replica, NEW t, tick' = [tick EXCEPT ![r] = t],
         UNCHANGED <<now, sched, fires>>, faults' \in Nat, faults' >= faults,
         TickPast(t), t.due \subseteq tick[r].due,
         \A s \in Schedule :
           t.wrote[s] # 0 =>
             \/ t.wrote[s] = tick[r].wrote[s]
             \/ t.wrote[s] \in Nat /\ t.wrote[s] > now,
         \A s \in Schedule, n \in Nat :
           Releases(r, t, s, n) =>
             \/ faults' >= faults + 1
             \/ Claims(tick[r], s, n) /\ ~Claims(t, s, n)
  PROVE  FireInvariant'
<1> USE DEF FInv
<1>1. Past'
  BY PastMove DEF FireInvariant, Past
<1>2. /\ tick'[r] = t
      /\ \A q \in Replica \ {r} : tick'[q] = tick[q]
  BY DEF Inv, TypeOK
<1>3. ASSUME NEW s, NEW n
      PROVE  /\ Claims(t, s, n) => Claims(tick[r], s, n)
             /\ Claimants(s, n)' \subseteq Claimants(s, n)
             /\ Firings(s, n)' = Firings(s, n)
  <2>1. Claims(t, s, n) => Claims(tick[r], s, n)
    BY DEF Claims
  <2>2. ASSUME NEW q \in Replica, Claims(tick'[q], s, n)
        PROVE  Claims(tick[q], s, n)
    BY <1>2, <2>1, <2>2
  <2> QED
    BY <2>1, <2>2 DEF Claimants, Claims, Firings
<1>4. WrittenNew'
  <2>1. ASSUME NEW q \in Replica, NEW s \in Schedule, tick'[q].wrote[s] # 0
        PROVE  New(s, tick'[q].wrote[s])
    <3>1. CASE tick'[q].wrote[s] = tick[q].wrote[s]
      BY <2>1, <3>1 DEF FireInvariant, WrittenNew
    <3>2. CASE q = r /\ t.wrote[s] \in Nat /\ t.wrote[s] > now
      BY <1>2, <3>2, ToComeIsNew DEF FireInvariant
    <3> QED
      BY <1>2, <2>1, <3>1, <3>2
  <2>2. ASSUME NEW q \in Replica, NEW s \in Schedule, tick'[q].wrote[s] # 0
        PROVE  New(s, tick[q].wrote[s])'
    BY <1>3, <2>1, <2>2 DEF New, Firings, Claimants, Claims
  <2> QED
    BY <2>2 DEF WrittenNew
<1>5. ASSUME NEW s \in Schedule, NEW n \in Nat
      PROVE  Bounded(s, n)'
  <2>1. Cardinality(Firings(s, n)') = Cardinality(Firings(s, n)) + 0
    <3>1. Cardinality(Firings(s, n)) \in Nat
      BY FiringsFinite DEF Inv
    <3> QED
      BY <1>3, <3>1
  <2>2. faults \in Nat
    BY SchedulerAssumption DEF Inv, TypeOK
  <2>3. 0 + One(Claims(t, s, n)) + One(Releases(r, t, s, n))
          <= One(Claims(tick[r], s, n)) + (faults' - faults)
    <3> DEFINE a == One(Claims(t, s, n))
               b == One(Claims(tick[r], s, n))
               z == One(Releases(r, t, s, n))
    <3>1. a \in {0, 1} /\ b \in {0, 1} /\ z \in {0, 1}
      BY OneType
    <3>2. a <= b
      BY <1>3 DEF One
    <3>3. z = 0 \/ faults' >= faults + 1 \/ (b = 1 /\ a = 0)
      <4>1. CASE ~Releases(r, t, s, n)
        BY <4>1 DEF One
      <4>2. CASE Claims(tick[r], s, n) /\ ~Claims(t, s, n)
        BY <4>2 DEF One
      <4> QED
        BY <4>1, <4>2
    <3> HIDE DEF a, b, z
    <3>4. 0 + a + z <= b + (faults' - faults)
      <4>1. faults \in Int /\ faults' \in Int /\ faults' >= faults
        BY <2>2
      <4>2. 0 + a <= b
        BY <3>1, <3>2
      <4> QED
        BY <3>1, <3>2, <3>3, <4>1, <4>2, PayArithmetic
    <3> QED
      BY <3>4 DEF a, b, z
  <2>4. Bounded(s, n)
    BY DEF FireInvariant
  <2> QED
    BY <2>1, <2>3, <2>4, TickBound
<1> QED
  BY <1>1, <1>4, <1>5 DEF FireInvariant

LEMMA TryLockFires ==
  ASSUME FInv, NEW r \in Replica, TryLock(r)
  PROVE  FireInvariant'
<1> DEFINE t == [tick[r] EXCEPT !.pc = "select", !.start = now]
<1>1. TickPast(tick[r]) /\ tick[r].pc = "idle" /\ tick[r] \in Tick
  BY DEF FInv, FireInvariant, Past, TryLock, Inv, TypeOK
<1>2. /\ t.due = {} /\ t.wrote = NoTick.wrote /\ t.start = now
      /\ tick[r].due = {} /\ tick[r].wrote = NoTick.wrote
  BY <1>1 DEF TickPast, Tick
<1>3. tick' = [tick EXCEPT ![r] = t]
  BY DEF TryLock, FInv, Inv, TypeOK
<1>4. now \in Int /\ faults \in Nat
  BY SchedulerAssumption DEF FInv, Inv, TypeOK
<1> HIDE DEF t
<1>5. TickPast(t)
  BY <1>2, <1>4 DEF TickPast
<1>6. \A s \in Schedule, n \in Nat : ~Releases(r, t, s, n)
  BY <1>1, <1>2 DEF Releases, Holds, Claims, NoTick
<1>7. UNCHANGED <<now, sched, fires>> /\ faults' \in Nat /\ faults' >= faults
  BY <1>4 DEF TryLock
<1>8. t.due \subseteq tick[r].due /\ \A s \in Schedule : ~(t.wrote[s] # 0)
  BY <1>2 DEF NoTick
<1> QED
  BY <1>3, <1>5, <1>6, <1>7, <1>8, QuietTick

\* A tick that ends, or loses its connection, lets go of all it holds.
LEMMA EndFires ==
  ASSUME FInv, NEW r \in Replica, tick' = [tick EXCEPT ![r] = NoTick],
         UNCHANGED <<now, sched, fires>>, faults' \in Nat, faults' >= faults,
         \/ faults' >= faults + 1
         \/ \A s \in Schedule, n \in Nat : ~Holds(tick[r], s, n)
  PROVE  FireInvariant'
<1>1. TickPast(NoTick) /\ NoTick.due \subseteq tick[r].due
        /\ \A s \in Schedule : ~(NoTick.wrote[s] # 0)
  BY SchedulerAssumption DEF TickPast, NoTick, FInv, Inv, TypeOK
<1>2. \A s \in Schedule, n \in Nat :
        Releases(r, NoTick, s, n) => faults' >= faults + 1
  BY DEF Releases
<1> QED
  BY <1>1, <1>2, QuietTick

LEMMA UnlockFires ==
  ASSUME FInv, NEW r \in Replica, Unlock(r) \/ TickFails(r)
  PROVE  FireInvariant'
<1>1. TickPast(tick[r])
  BY DEF FInv, FireInvariant, Past
<1>2. \A s \in Schedule, n \in Nat : ~Holds(tick[r], s, n)
  BY <1>1 DEF Unlock, TickFails, TickPast, Holds, Claims, NoTick
<1>3. faults' = faults /\ faults \in Nat
  BY SchedulerAssumption DEF Unlock, TickFails, FInv, Inv, TypeOK
<1> QED
  BY <1>2, <1>3, EndFires DEF Unlock, TickFails

LEMMA FaultFires ==
  ASSUME FInv, NEW r \in Replica, UpdateFails(r) \/ Crash(r)
  PROVE  FireInvariant'
<1>1. faults' = faults + 1 /\ faults \in Nat
  BY SchedulerAssumption DEF UpdateFails, Crash, Fault, FInv, Inv, TypeOK
<1> QED
  BY <1>1, EndFires DEF UpdateFails, Crash

LEMMA DisconnectFires ==
  ASSUME FInv, NEW r \in Replica, Disconnect(r)
  PROVE  FireInvariant'
<1> DEFINE t == [tick[r] EXCEPT !.cut = TRUE, !.wrote = NoTick.wrote]
<1>1. faults' = faults + 1 /\ faults \in Nat
  BY SchedulerAssumption DEF Disconnect, Fault, FInv, Inv, TypeOK
<1>2. tick' = [tick EXCEPT ![r] = t] /\ tick[r] \in Tick
  BY DEF Disconnect, FInv, Inv, TypeOK
<1>3. /\ t.pc = tick[r].pc /\ t.start = tick[r].start /\ t.due = tick[r].due
      /\ t.wrote = NoTick.wrote
  BY <1>2 DEF Tick
<1>4. TickPast(tick[r])
  BY DEF FInv, FireInvariant, Past
<1> HIDE DEF t
<1>5. TickPast(t)
  BY <1>3, <1>4 DEF TickPast
<1>6. t.due \subseteq tick[r].due /\ \A s \in Schedule : ~(t.wrote[s] # 0)
  BY <1>3 DEF NoTick
<1>7. UNCHANGED <<now, sched, fires>> /\ faults' \in Nat /\ faults' >= faults + 1
        /\ faults' >= faults
  BY <1>1 DEF Disconnect
<1> QED
  BY <1>2, <1>5, <1>6, <1>7, QuietTick

\* The row lock passes from the row at hand to the update; a row that is gone
\* has nothing that could come free.
LEMMA UpdateFires ==
  ASSUME FInv, NEW r \in Replica, Update(r)
  PROVE  FireInvariant'
<1> DEFINE d == tick[r].row
           m == IF Exists(d.id) THEN NextRun(d.cron, now) ELSE 0
           w == [tick[r].wrote EXCEPT ![d.id] = m]
           t == [tick[r] EXCEPT !.pc = "publish", !.row = NoDue, !.wrote = w]
<1>1. d \in Due /\ tick[r] \in Tick /\ now \in Nat
  BY SchedulerAssumption
     DEF FInv, Inv, LeaseInvariant, TickSound, Update, TypeOK
<1>2. /\ m \in Nat
      /\ Exists(d.id) => m > now
  BY <1>1, NextRunType DEF FInv, Inv, Due
<1> HIDE DEF m
<1>3. /\ w[d.id] = m
      /\ \A s \in Schedule \ {d.id} : w[s] = tick[r].wrote[s]
  BY <1>1 DEF Tick, Due
<1>4. tick' = [tick EXCEPT ![r] = t]
  BY <1>1 DEF Update, FInv, Inv, TypeOK, Tick, m
<1> HIDE DEF w
<1>5. /\ t.pc = "publish" /\ t.start = tick[r].start /\ t.due = tick[r].due
      /\ t.wrote = w /\ ~t.cut /\ ~tick[r].cut /\ tick[r].pc = "update"
  BY <1>1 DEF Tick, Update
<1>6. TickPast(tick[r])
  BY DEF FInv, FireInvariant, Past
<1> HIDE DEF d, t
<1>7. TickPast(t)
  BY <1>5, <1>6 DEF TickPast
<1>8. \A s \in Schedule :
        t.wrote[s] # 0 =>
          \/ t.wrote[s] = tick[r].wrote[s]
          \/ t.wrote[s] \in Nat /\ t.wrote[s] > now
  <2>1. m # 0 => m > now
    BY <1>2 DEF m
  <2> QED
    BY <1>2, <1>3, <1>5, <2>1
<1>9. ASSUME NEW s \in Schedule, NEW n \in Nat
      PROVE  ~Releases(r, t, s, n)
  <2>1. CASE s = d.id
    BY <1>1, <1>2, <1>3, <1>5, <2>1 DEF Releases, Holds
  <2>2. CASE s # d.id
    <3>1. t.wrote[s] = tick[r].wrote[s]
      BY <1>3, <1>5, <2>2
    <3> QED
      BY <1>5, <2>2, <3>1 DEF Releases, Holds, Claims, d
  <2> QED
    BY <2>1, <2>2
<1>10. faults' = faults /\ faults \in Nat /\ UNCHANGED <<now, sched, fires>>
  BY SchedulerAssumption DEF Update, FInv, Inv, TypeOK
<1>11. faults' \in Nat /\ faults' >= faults /\ t.due \subseteq tick[r].due
  BY <1>5, <1>10
<1> QED
  BY <1>4, <1>7, <1>8, <1>9, <1>10, <1>11, QuietTick

\* A record more is one more firing of its instant and no other.
LEMMA FiringsMove ==
  ASSUME TypeOK, NEW d \in Due, NEW r \in Replica, Published(d, r), NEW s, NEW n
  PROVE  /\ Cardinality(Firings(s, n)') =
              Cardinality(Firings(s, n)) + One(d.id = s /\ d.slot = n)
         /\ ~(d.id = s /\ d.slot = n) => Firings(s, n)' = Firings(s, n)
<1> DEFINE L == Len(fires) + 1
           e == [id |-> d.id, slot |-> d.slot, by |-> r]
<1>1. /\ fires \in Seq([id: Schedule, slot: Nat, by: Replica])
      /\ e \in [id: Schedule, slot: Nat, by: Replica]
      /\ fires' = Append(fires, e)
  BY DEF TypeOK, Published, Due
<1>2. /\ DOMAIN fires' = 1..L /\ DOMAIN fires = 1..Len(fires) /\ Len(fires) \in Nat
      /\ fires'[L] = e
      /\ \A i \in 1..Len(fires) : fires'[i] = fires[i]
  BY <1>1
<1>3. e.id = d.id /\ e.slot = d.slot
  OBVIOUS
<1>4. IsFiniteSet(Firings(s, n)) /\ Cardinality(Firings(s, n)) \in Nat
  BY FiringsFinite
<1>5. L \notin Firings(s, n)
  BY <1>2 DEF Firings
<1> HIDE DEF e
<1>6. CASE d.id = s /\ d.slot = n
  <2>1. Firings(s, n)' = Firings(s, n) \cup {L}
    BY <1>2, <1>3, <1>6 DEF Firings
  <2> HIDE DEF L
  <2> QED
    BY <1>4, <1>5, <1>6, <2>1, FS_AddElement DEF One
<1>7. CASE ~(d.id = s /\ d.slot = n)
  <2>1. Firings(s, n)' = Firings(s, n)
    BY <1>2, <1>3, <1>7 DEF Firings
  <2> QED
    BY <1>4, <1>7, <2>1 DEF One
<1> QED
  BY <1>6, <1>7

\* The record reaches the broker, and the row is dropped from those due.
LEMMA RecordFires ==
  ASSUME FInv, NEW r \in Replica, NEW t, tick' = [tick EXCEPT ![r] = t],
         UNCHANGED <<now, sched>>, faults' \in Nat, faults' >= faults,
         tick[r].pc = "publish", NEW d \in tick[r].due, Published(d, r),
         t.pc \in {"publish", "update"}, t.start = tick[r].start,
         t.due = tick[r].due \ {d}, t.wrote = tick[r].wrote, t.cut = tick[r].cut,
         (t.pc = "update" /\ t.row = d) \/ faults' >= faults + 1
  PROVE  FireInvariant'
<1> USE DEF FInv
<1>1. /\ TickPast(tick[r]) /\ d \in Due /\ d.slot <= now
      /\ \A e \in tick[r].due : d.id = e.id => d = e
  BY DEF FireInvariant, Past, TickPast, Inv, TypeOK, Tick
<1>2. TickPast(t)
  BY <1>1 DEF TickPast
<1>3. \A s, n : /\ Claims(t, s, n) <=> /\ Claims(tick[r], s, n)
                                       /\ ~(d.id = s /\ d.slot = n)
  BY <1>1 DEF Claims
<1>4. /\ tick'[r] = t
      /\ \A q \in Replica \ {r} : tick'[q] = tick[q]
  BY DEF Inv, TypeOK
<1>5. Past'
  <2> DEFINE e == [id |-> d.id, slot |-> d.slot, by |-> r]
  <2>1. /\ fires \in Seq([id: Schedule, slot: Nat, by: Replica])
        /\ e \in [id: Schedule, slot: Nat, by: Replica]
        /\ fires' = Append(fires, e)
    BY <1>1 DEF Inv, TypeOK, Published, Due
  <2>2. \A i \in DOMAIN fires' : fires'[i] = e \/
                                 (i \in DOMAIN fires /\ fires'[i] = fires[i])
    <3> HIDE DEF e
    <3> QED
      BY <2>1
  <2>3. e.slot <= now /\ \A i \in DOMAIN fires : fires[i].slot <= now
    BY <1>1 DEF FireInvariant, Past
  <2> HIDE DEF e
  <2>4. \A i \in DOMAIN fires' : fires'[i].slot <= now
    BY <2>2, <2>3
  <2> QED
    BY <1>2, <2>4, PastMove DEF FireInvariant
<1>6. WrittenNew'
  <2>1. ASSUME NEW s, NEW n, New(s, n)
        PROVE  Firings(s, n)' = {} /\ Claimants(s, n)' = {}
    <3>1. ~(d.id = s /\ d.slot = n)
      BY <2>1 DEF New, Claimants, Claims
    <3>2. Firings(s, n)' = {}
      BY <1>1, <2>1, <3>1, FiringsMove DEF Inv, New
    <3>3. \A p \in Replica : Claims(tick'[p], s, n) => Claims(tick[p], s, n)
      BY <1>3, <1>4
    <3>4. Claimants(s, n)' = {}
      BY <2>1, <3>3 DEF New, Claimants, Claims
    <3> QED
      BY <3>2, <3>4
  <2>2. ASSUME NEW q \in Replica, NEW s \in Schedule, tick'[q].wrote[s] # 0
        PROVE  New(s, tick[q].wrote[s])'
    <3>1. tick'[q].wrote[s] = tick[q].wrote[s]
      BY <1>4
    <3>2. New(s, tick'[q].wrote[s])
      BY <2>2, <3>1 DEF FireInvariant, WrittenNew
    <3> QED
      BY <2>1, <3>2 DEF New, Firings, Claimants, Claims
  <2> QED
    BY <2>2 DEF WrittenNew
<1>7. ASSUME NEW s \in Schedule, NEW n \in Nat
      PROVE  Bounded(s, n)'
  <2> DEFINE k == One(d.id = s /\ d.slot = n)
             a == One(Claims(t, s, n))
             b == One(Claims(tick[r], s, n))
             z == One(Releases(r, t, s, n))
  <2>1. k \in {0, 1} /\ a \in {0, 1} /\ b \in {0, 1} /\ z \in {0, 1}
    BY OneType
  <2>2. k + a = b
    <3>1. d.id = s /\ d.slot = n => Claims(tick[r], s, n)
      BY DEF Claims
    <3> QED
      BY <1>3, <3>1 DEF One
  <2>3. Releases(r, t, s, n) => ~(t.pc = "update" /\ t.row = d)
    <3>1. SUFFICES ASSUME Releases(r, t, s, n), t.pc = "update", t.row = d
                   PROVE  FALSE
      OBVIOUS
    <3>2. Claims(tick[r], s, n) /\ ~Claims(t, s, n)
      BY <3>1 DEF Releases, Holds
    <3>3. d.id = s /\ d.slot = n
      BY <1>3, <3>2
    <3> QED
      BY <3>1, <3>3 DEF Releases, Holds
  <2>4. z = 0 \/ faults' >= faults + 1
    BY <2>3 DEF One
  <2>5. Cardinality(Firings(s, n)') = Cardinality(Firings(s, n)) + k
    BY <1>1, FiringsMove DEF Inv
  <2>6. faults \in Nat
    BY SchedulerAssumption DEF Inv, TypeOK
  <2>7. Bounded(s, n)
    BY DEF FireInvariant
  <2> HIDE DEF k, a, b, z
  <2>8. k + a + z <= b + (faults' - faults)
    <3>1. faults \in Int /\ faults' \in Int /\ faults' >= faults
      BY <2>6
    <3>2. k + a <= b
      BY <2>1, <2>2
    <3> QED
      BY <2>1, <2>4, <3>1, <3>2, PayArithmetic
  <2>9. k \in Nat
    BY <2>1
  <2> QED
    BY <2>5, <2>7, <2>8, <2>9, TickBound DEF a, b, z
<1> QED
  BY <1>5, <1>6, <1>7 DEF FireInvariant

LEMMA PublishFires ==
  ASSUME FInv, NEW r \in Replica, Publish(r)
  PROVE  FireInvariant'
<1> USE DEF FInv
<1>1. PICK d \in Oldest(tick[r].due) :
        \/ /\ Published(d, r)
           /\ tick' = [tick EXCEPT ![r].pc = "update", ![r].row = d,
                                   ![r].due = @ \ {d}]
           /\ UNCHANGED faults
        \/ /\ tick' = [tick EXCEPT ![r].due = @ \ {d}]
           /\ \/ UNCHANGED <<fires, faults>>
              \/ faults < MaxFaults /\ faults' = faults + 1 /\ Published(d, r)
  BY DEF Publish
<1>2. d \in tick[r].due /\ d \in Due /\ tick[r] \in Tick /\ tick[r].pc = "publish"
  BY DEF Oldest, Inv, TypeOK, Tick, Publish
<1>3. faults \in Nat /\ UNCHANGED <<now, sched>>
  BY SchedulerAssumption DEF Inv, TypeOK, Publish
<1> DEFINE u == [tick[r] EXCEPT !.pc = "update", !.row = d,
                                !.due = tick[r].due \ {d}]
           v == [tick[r] EXCEPT !.due = tick[r].due \ {d}]
<1>4. /\ u.pc = "update" /\ u.row = d /\ u.start = tick[r].start
      /\ u.due = tick[r].due \ {d} /\ u.wrote = tick[r].wrote
      /\ u.cut = tick[r].cut
  BY <1>2 DEF Tick
<1>5. /\ v.pc = "publish" /\ v.row = tick[r].row /\ v.start = tick[r].start
      /\ v.due = tick[r].due \ {d} /\ v.wrote = tick[r].wrote
      /\ v.cut = tick[r].cut
  BY <1>2 DEF Tick
<1>6. CASE /\ Published(d, r)
           /\ tick' = [tick EXCEPT ![r].pc = "update", ![r].row = d,
                                   ![r].due = @ \ {d}]
           /\ UNCHANGED faults
  <2>1. tick' = [tick EXCEPT ![r] = u]
    BY <1>6 DEF Inv, TypeOK
  <2> HIDE DEF u
  <2>2. faults' \in Nat /\ faults' >= faults
    BY <1>3, <1>6
  <2> QED
    BY <1>2, <1>3, <1>4, <1>6, <2>1, <2>2, RecordFires
<1>7. CASE /\ tick' = [tick EXCEPT ![r].due = @ \ {d}]
           /\ \/ UNCHANGED <<fires, faults>>
              \/ faults < MaxFaults /\ faults' = faults + 1 /\ Published(d, r)
  <2>1. tick' = [tick EXCEPT ![r] = v]
    BY <1>7 DEF Inv, TypeOK
  <2> HIDE DEF v
  <2>2. CASE faults' = faults + 1 /\ Published(d, r)
    <3>1. faults' \in Nat /\ faults' >= faults /\ faults' >= faults + 1
      BY <1>3, <2>2
    <3> QED
      BY <1>2, <1>3, <1>5, <2>1, <2>2, <3>1, RecordFires
  <2>3. CASE UNCHANGED <<fires, faults>>
    <3>1. TickPast(tick[r])
      BY DEF FireInvariant, Past
    <3>2. TickPast(v)
      BY <1>2, <1>5, <3>1 DEF TickPast
    <3>3. \A s \in Schedule, n \in Nat :
            Releases(r, v, s, n) => Claims(tick[r], s, n) /\ ~Claims(v, s, n)
      BY <1>2, <1>5 DEF Releases, Holds
    <3>4. faults' \in Nat /\ faults' >= faults /\ v.due \subseteq tick[r].due
      BY <1>3, <1>5, <2>3
    <3> QED
      BY <1>3, <1>5, <2>1, <2>3, <3>2, <3>3, <3>4, QuietTick
  <2> QED
    BY <1>7, <2>2, <2>3
<1> QED
  BY <1>1, <1>6, <1>7

\* A SELECT takes instants that are free, since it needs the lock: the tick of
\* another replica that still works on one would have to hold it.
LEMMA SelectFires ==
  ASSUME FInv, NEW r \in Replica, Select(r)
  PROVE  FireInvariant'
<1> USE DEF FInv
<1>1. PICK S \in Selections(DueRows(tick[r].start)) :
        tick' = [tick EXCEPT ![r].pc = "publish", ![r].due = S]
  BY DEF Select
<1> DEFINE t == [tick[r] EXCEPT !.pc = "publish", !.due = S]
<1>2. /\ tick[r] \in Tick /\ tick[r].pc = "select" /\ ~tick[r].cut
      /\ lease[r] > 0 /\ TickPast(tick[r])
  BY DEF Inv, TypeOK, LeaseInvariant, TickSound, Select, FireInvariant, Past
<1>3. /\ t.pc = "publish" /\ t.due = S /\ t.start = tick[r].start
      /\ t.wrote = tick[r].wrote /\ t.cut = tick[r].cut
  BY <1>2 DEF Tick
<1>4. tick' = [tick EXCEPT ![r] = t]
  BY <1>1 DEF Inv, TypeOK
<1>5. UNCHANGED <<now, sched, fires, faults>> /\ now \in Int /\ faults \in Nat
  BY SchedulerAssumption DEF Select, Inv, TypeOK
<1> HIDE DEF t
<1>6. ASSUME NEW d \in S
      PROVE  /\ d = [id |-> d.id, cron |-> sched[d.id].cron,
                     slot |-> sched[d.id].next]
             /\ Exists(d.id) /\ d.id \in Schedule
             /\ d.slot \in Nat /\ d.slot <= tick[r].start
  <2>1. PICK s \in Schedule :
          /\ d = [id |-> s, cron |-> sched[s].cron, slot |-> sched[s].next]
          /\ sched[s].state = "enabled" /\ sched[s].next <= tick[r].start
    BY <1>6 DEF Selections, DueRows
  <2>2. sched[s] \in Row
    BY DEF Inv, TypeOK
  <2> QED
    BY <2>1, <2>2 DEF Exists, Row
<1>7. TickPast(t)
  <2>1. tick[r].start <= now /\ tick[r].start \in Int
    BY <1>2 DEF TickPast, Tick
  <2>2. \A d \in S : d.slot <= now
    BY <1>5, <1>6, <2>1
  <2>3. \A d, e \in S : d.id = e.id => d = e
    BY <1>6
  <2> QED
    BY <1>3, <2>1, <2>2, <2>3 DEF TickPast
<1>8. Past'
  BY <1>4, <1>5, <1>7, PastMove DEF FireInvariant, Past
<1>9. /\ tick'[r] = t
      /\ \A q \in Replica \ {r} : tick'[q] = tick[q]
  BY <1>4 DEF Inv, TypeOK
<1>10. /\ tick[r].due = {} /\ tick[r].wrote = NoTick.wrote
       /\ \A q \in Replica : tick[q].wrote = NoTick.wrote
       /\ \A q \in Replica, s \in Schedule : \A n : ~Holds(tick[q], s, n)
  <2>1. tick[r].due = {} /\ tick[r].wrote = NoTick.wrote
    BY <1>2 DEF TickPast
  <2>2. \A s \in Schedule : \A n : ~Holds(tick[r], s, n)
    BY <1>2, <2>1 DEF Holds, Claims, NoTick
  <2> QED
    BY <1>2, <2>1, <2>2, OthersHoldNothing DEF FireInvariant
<1>11. WrittenNew'
  <2>1. \A q \in Replica : tick'[q].wrote = NoTick.wrote
    BY <1>3, <1>9, <1>10
  <2>2. \A q \in Replica, s \in Schedule : ~(tick'[q].wrote[s] # 0)
    BY <2>1 DEF NoTick
  <2> QED
    BY <2>2 DEF WrittenNew
<1>12. ASSUME NEW s \in Schedule, NEW n \in Nat
       PROVE  Bounded(s, n)'
  <2>1. Bounded(s, n) /\ Firings(s, n)' = Firings(s, n)
    BY <1>5 DEF FireInvariant, Firings
  <2>2. CASE Claims(t, s, n)
    <3>1. PICK d \in S : d.id = s /\ d.slot = n
      BY <1>3, <2>2 DEF Claims
    <3>2. Exists(s) /\ sched[s].next = n /\ n <= now
      <4>1. d.slot <= now
        BY <1>3, <1>7 DEF TickPast
      <4> QED
        BY <1>6, <3>1, <4>1
    <3>3. Free(s, n)
      BY <1>10, <3>2 DEF Free
    <3>4. ~Free(s, n)'
      <4>1. Holds(t, s, n)
        BY <1>2, <1>3, <2>2 DEF Holds
      <4>2. Holds(tick'[r], s, n)
        BY <1>9, <4>1
      <4>3. ~(n > now)
        BY <1>5, <3>2
      <4> QED
        BY <1>5, <4>2, <4>3 DEF Free, Holds, Claims
    <3>5. ~Claims(tick[r], s, n)
      BY <1>10 DEF Claims
    <3>6. Cardinality(Claimants(s, n)') = Cardinality(Claimants(s, n)) + 1
      <4>1. Counted(r, t, s, n)
        BY <1>4, ClaimantsMove DEF Inv
      <4> QED
        BY <2>2, <3>5, <4>1, ClaimantsFinite DEF Counted, One
    <3>7. One(Free(s, n)) = 1 /\ One(Free(s, n)') = 0
      BY <3>3, <3>4 DEF One
    <3> DEFINE f == Cardinality(Firings(s, n))
               c == Cardinality(Claimants(s, n))
               k == Cardinality(Claimants(s, n)')
               y == One(Free(s, n)')
    <3>8. f \in Nat /\ c \in Nat
      BY FiringsFinite, ClaimantsFinite DEF Inv
    <3>9. f + c + 1 <= 1 + faults
      BY <2>1, <3>7 DEF Bounded
    <3>10. /\ Cardinality(Firings(s, n)') = f
           /\ k = c + 1 /\ y = 0
      BY <2>1, <3>6, <3>7
    <3> HIDE DEF f, c, k, y
    <3>11. Cardinality(Firings(s, n)') + k + y <= 1 + faults'
      BY <1>5, <3>8, <3>9, <3>10
    <3> QED
      BY <3>11 DEF Bounded, k, y, One
  <2>3. CASE ~Claims(t, s, n)
    <3>1. Claimants(s, n)' \subseteq Claimants(s, n)
      BY <1>4, <2>3, ClaimantsMove DEF Inv
    <3>2. Free(s, n)' => Free(s, n)
      <4>1. ~Releases(r, t, s, n)
        BY <1>10 DEF Releases
      <4>2. UNCHANGED <<now, sched[s]>> /\ TypeOK
        BY <1>5 DEF Inv
      <4> QED
        BY <1>4, <4>1, <4>2, FreeMove
    <3> QED
      BY <1>5, <2>1, <3>1, <3>2, NewFree
  <2> QED
    BY <2>2, <2>3
<1> QED
  BY <1>8, <1>11, <1>12 DEF FireInvariant

\* The instant a COMMIT writes is new; a row it does not write was not held.
LEMMA CommitFires ==
  ASSUME FInv, NEW r \in Replica, Commit(r)
  PROVE  FireInvariant'
<1> USE DEF FInv
<1> DEFINE t == [tick[r] EXCEPT !.pc = "unlock", !.wrote = NoTick.wrote]
           w == tick[r].wrote
<1>1. /\ tick[r] \in Tick /\ tick[r].pc = "publish" /\ tick[r].due = {}
      /\ TickPast(tick[r])
  BY DEF Inv, TypeOK, Commit, FireInvariant, Past
<1>2. /\ t.pc = "unlock" /\ t.due = {} /\ t.start = tick[r].start
      /\ t.wrote = NoTick.wrote
  BY <1>1 DEF Tick
<1>3. tick' = [tick EXCEPT ![r] = t]
  BY DEF Commit, Inv, TypeOK
<1>4. UNCHANGED <<now, fires, faults>>
  BY DEF Commit
<1>5. \A s \in Schedule :
        IF w[s] # 0 THEN sched'[s] = [sched[s] EXCEPT !.next = w[s]]
                    ELSE sched'[s] = sched[s]
  BY DEF Commit
<1> HIDE DEF t
<1>6. TickPast(t)
  BY <1>1, <1>2 DEF TickPast
<1>7. Past'
  BY <1>3, <1>4, <1>6, PastMove DEF FireInvariant, Past
<1>8. /\ tick'[r] = t
      /\ \A q \in Replica \ {r} : tick'[q] = tick[q]
  BY <1>3 DEF Inv, TypeOK
<1>9. ASSUME NEW s, NEW n
      PROVE  /\ Firings(s, n)' = Firings(s, n)
             /\ Claimants(s, n)' \subseteq Claimants(s, n)
  <2>1. ~Claims(t, s, n)
    BY <1>2 DEF Claims
  <2> QED
    BY <1>3, <1>4, <2>1, ClaimantsMove DEF Inv, Firings
<1>10. WrittenNew'
  <2>1. ASSUME NEW q \in Replica, NEW s \in Schedule, tick'[q].wrote[s] # 0
        PROVE  New(s, tick[q].wrote[s])'
    <3>1. q # r
      BY <1>2, <1>8, <2>1 DEF NoTick
    <3>2. tick'[q].wrote[s] = tick[q].wrote[s]
      BY <1>8, <3>1
    <3>3. New(s, tick'[q].wrote[s])
      BY <2>1, <3>2 DEF FireInvariant, WrittenNew
    <3> QED
      BY <1>9, <3>3 DEF New, Firings, Claimants, Claims
  <2> QED
    BY <2>1 DEF WrittenNew
<1>11. ASSUME NEW s \in Schedule, NEW n \in Nat
       PROVE  Bounded(s, n)'
  <2>1. CASE w[s] # 0
    <3>1. Free(s, n)' => n > now \/ n = w[s]
      <4>1. sched[s] \in Row
        BY DEF Inv, TypeOK
      <4>2. sched'[s].next = w[s]
        BY <1>5, <2>1, <4>1 DEF Row
      <4> QED
        BY <1>4, <4>2 DEF Free
    <3>2. Free(s, n)' => New(s, n)
      BY <2>1, <3>1, ToComeIsNew DEF FireInvariant, WrittenNew
    <3> QED
      BY <1>4, <1>9, <3>2, NewFree DEF FireInvariant
  <2>2. CASE ~(w[s] # 0)
    <3>1. sched'[s] = sched[s]
      BY <1>5, <2>2
    <3>2. ~Releases(r, t, s, n)
      BY <1>1, <2>2 DEF Releases, Holds, Claims
    <3>3. Free(s, n)' => Free(s, n)
      BY <1>3, <1>4, <3>1, <3>2, FreeMove DEF Inv
    <3> QED
      BY <1>4, <1>9, <3>3, NewFree DEF FireInvariant
  <2> QED
    BY <2>1, <2>2
<1> QED
  BY <1>7, <1>10, <1>11 DEF FireInvariant

-----------------------------------------------------------------------------
(* The steps outside of the ticks. *)

LEMMA OutsideFires ==
  ASSUME FInv, UNCHANGED <<tick, fires, faults>>, now' \in Nat, now' >= now,
         \A s \in Schedule, n \in Nat : Free(s, n)' => Free(s, n) \/ New(s, n)
  PROVE  FireInvariant'
<1> USE DEF FInv
<1>1. \A s, n : /\ Firings(s, n)' = Firings(s, n)
                /\ Claimants(s, n)' = Claimants(s, n)
  BY DEF Firings, Claimants, Claims
<1>2. WrittenNew'
  BY DEF FireInvariant, WrittenNew, New, Firings, Claimants, Claims
<1>3. Past'
  <2>1. now \in Int /\ now' \in Int
    BY SchedulerAssumption DEF Inv, TypeOK
  <2>2. ASSUME NEW i \in DOMAIN fires
        PROVE  fires[i].slot <= now'
    <3>1. fires \in Seq([id: Schedule, slot: Nat, by: Replica])
      BY DEF Inv, TypeOK
    <3>2. i \in 1..Len(fires)
      BY <2>2, <3>1
    <3>3. fires[i] \in [id: Schedule, slot: Nat, by: Replica]
      BY <3>1, <3>2, ElementOfSeq
    <3>4. fires[i].slot <= now /\ fires[i].slot \in Int
      BY <3>3 DEF FireInvariant, Past
    <3> QED
      BY <2>1, <3>4
  <2>3. ASSUME NEW r \in Replica
        PROVE  TickPast(tick[r])'
    <3>1. TickPast(tick[r]) /\ tick[r] \in Tick
      BY DEF FireInvariant, Past, Inv, TypeOK
    <3>2. tick[r].start <= now'
      BY <2>1, <3>1 DEF TickPast, Tick
    <3>3. \A d \in tick[r].due : d.slot <= now'
      BY <2>1, <3>1 DEF TickPast, Tick, Due
    <3> QED
      BY <3>1, <3>2, <3>3 DEF TickPast, NoTick
  <2> QED
    BY <2>2, <2>3 DEF Past
<1>4. ASSUME NEW s \in Schedule, NEW n \in Nat
      PROVE  Bounded(s, n)'
  BY <1>1, NewFree DEF FireInvariant
<1> QED
  BY <1>2, <1>3, <1>4 DEF FireInvariant

\* A route keeps next_run_at or sets it to an instant to come.
LEMMA ApiFires ==
  ASSUME FInv, NEW x \in Schedule, Api(x)
  PROVE  FireInvariant'
<1> USE DEF FInv
<1>1. UNCHANGED <<now, tick, fires, faults>> /\ now \in Nat
  BY SchedulerAssumption
     DEF Api, CreateSchedule, UpdateSchedule, DeleteSchedule, Inv, TypeOK
<1>2. \/ sched'[x].state \notin {"enabled", "disabled"}
      \/ sched'[x].next > now
      \/ Exists(x) /\ sched'[x].next = sched[x].next
  <2>1. sched[x] \in Row /\ sched \in [Schedule -> Row]
    BY DEF Inv, TypeOK
  <2>2. CASE CreateSchedule(x)
    BY <2>1, <2>2, NextRunType DEF CreateSchedule, Inv
  <2>3. CASE UpdateSchedule(x)
    BY <2>1, <2>3, NextRunType DEF UpdateSchedule, Inv, Row
  <2>4. CASE DeleteSchedule(x)
    BY <2>1, <2>4 DEF DeleteSchedule, Absent
  <2> QED
    BY <2>2, <2>3, <2>4 DEF Api
<1>3. \A s \in Schedule \ {x} : sched'[s] = sched[s]
  BY DEF Api, CreateSchedule, UpdateSchedule, DeleteSchedule, Inv, TypeOK
<1>4. ASSUME NEW s \in Schedule, NEW n \in Nat, Free(s, n)'
      PROVE  Free(s, n)
  <2>1. CASE n > now
    BY <2>1 DEF Free
  <2>2. CASE ~(n > now)
    <3>1. /\ Exists(s)' /\ sched'[s].next = n
          /\ \A r \in Replica : ~Holds(tick[r], s, n)
      BY <1>1, <1>4, <2>2 DEF Free, Holds, Claims
    <3>2. Exists(s) /\ sched[s].next = n
      BY <1>2, <1>3, <2>2, <3>1 DEF Exists
    <3> QED
      BY <3>1, <3>2 DEF Free
  <2> QED
    BY <2>1, <2>2
<1>5. now' \in Nat /\ now' >= now
  BY <1>1
<1> QED
  BY <1>1, <1>4, <1>5, OutsideFires

LEMMA AdvanceFires ==
  ASSUME FInv, Advance
  PROVE  FireInvariant'
<1>1. now \in Nat /\ now' = now + 1 /\ UNCHANGED <<sched, tick, fires, faults>>
  BY SchedulerAssumption DEF FInv, Inv, TypeOK, Advance
<1>2. ASSUME NEW s \in Schedule, NEW n \in Nat, Free(s, n)'
      PROVE  Free(s, n)
  <2>1. n > now' => n > now
    BY <1>1
  <2> QED
    BY <1>1, <1>2, <2>1 DEF Free, Exists, Holds, Claims
<1>3. now' \in Nat /\ now' >= now
  BY <1>1
<1> QED
  BY <1>1, <1>2, <1>3, OutsideFires

\* The claims to an instant and its firings never exceed one and the faults.
LEMMA FiresInvariant == Spec => []FInv
<1>1. Init => FireInvariant
  <2> SUFFICES ASSUME Init
               PROVE  FireInvariant
    OBVIOUS
  <2>1. Past /\ WrittenNew
    BY DEF Init, Past, TickPast, WrittenNew, NoTick
  <2>2. ASSUME NEW s \in Schedule, NEW n \in Nat
        PROVE  Bounded(s, n)
    <3>1. Firings(s, n) = {} /\ Claimants(s, n) = {}
      BY DEF Init, Firings, Claimants, Claims, NoTick
    <3>2. Cardinality(Firings(s, n)) = 0 /\ Cardinality(Claimants(s, n)) = 0
      BY <3>1, FS_EmptySet
    <3>3. One(Free(s, n)) \in {0, 1} /\ faults = 0
      BY OneType DEF Init
    <3> QED
      BY <3>2, <3>3 DEF Bounded
  <2> QED
    BY <2>1, <2>2 DEF FireInvariant
<1>2. FInv /\ [Next]_vars => FireInvariant'
  <2> SUFFICES ASSUME FInv, [Next]_vars
               PROVE  FireInvariant'
    OBVIOUS
  <2>1. CASE UNCHANGED vars
    BY <2>1, SchedulerAssumption
       DEF FInv, FireInvariant, Past, TickPast, WrittenNew, New, Bounded, Free,
           Firings, Claimants, Claims, Holds, Exists, One, vars, NoTick
  <2>2. CASE Advance
    BY <2>2, AdvanceFires
  <2>3. ASSUME NEW s \in Schedule, Api(s)
        PROVE  FireInvariant'
    BY <2>3, ApiFires
  <2>4. ASSUME NEW r \in Replica, TickStep(r)
        PROVE  FireInvariant'
    BY <2>4, TryLockFires, SelectFires, PublishFires, UpdateFires, CommitFires,
       UnlockFires DEF TickStep
  <2>5. ASSUME NEW r \in Replica, FaultStep(r)
        PROVE  FireInvariant'
    BY <2>5, FaultFires, DisconnectFires DEF FaultStep
  <2> QED
    BY <2>1, <2>2, <2>3, <2>4, <2>5 DEF Next
<1> QED
  BY <1>1, <1>2, InvariantHolds, PTL DEF Spec, FInv

-----------------------------------------------------------------------------
(* The theorems. *)

\* A tick that has not lost its connection holds the lock, and no other tick
\* has uncommitted updates.
THEOREM LeaseCorrect == Spec => []LeaseInvariant
<1>1. Inv => LeaseInvariant
  BY DEF Inv
<1> QED
  BY <1>1, InvariantHolds, PTL

\* Every variable of the scheduler keeps its type.
THEOREM SchedulerTypeCorrect == Spec => []TypeOK
<1>1. Inv => TypeOK
  BY DEF Inv
<1> QED
  BY <1>1, InvariantHolds, PTL

\* pg_try_advisory_lock is never held from two connections, although failed
\* ticks leak it and crashes and lost connections give it up half-way.
THEOREM LockExclusive == Spec => []LeaseExclusive
<1>1. Inv => LeaseExclusive
  BY DEF Inv, LeaseInvariant
<1> QED
  BY <1>1, InvariantHolds, PTL

\* At most one tick has uncommitted updates, so two ticks never write one row.
THEOREM SingleWriter ==
  Spec => [](\A q, r \in Replica : \A s, x \in Schedule :
               tick[q].wrote[s] # 0 /\ tick[r].wrote[x] # 0 => q = r)
<1>1. Inv => (\A q, r \in Replica : \A s, x \in Schedule :
                tick[q].wrote[s] # 0 /\ tick[r].wrote[x] # 0 => q = r)
  <2>1. ASSUME Inv, NEW r \in Replica, NEW s \in Schedule, tick[r].wrote[s] # 0
        PROVE  lease[r] > 0
    <3>1. tick[r].wrote # NoTick.wrote
      BY <2>1 DEF NoTick
    <3> QED
      BY <2>1, <3>1 DEF Inv, LeaseInvariant, TickSound
  <2> QED
    BY <2>1 DEF Inv, LeaseInvariant, LeaseExclusive
<1> QED
  BY <1>1, InvariantHolds, PTL

\* Each due instant is published once, and once more at most for every fault,
\* for any number of replicas, schedules and faults: what a tick has selected
\* cannot be selected again before it is updated, unless something failed.
THEOREM DuplicatesBounded == Spec => []DuplicatesBoundedByFaults
<1>1. FInv => DuplicatesBoundedByFaults
  <2>1. SUFFICES ASSUME FInv, NEW s \in Schedule, NEW i \in DOMAIN fires
                 PROVE  Cardinality(Firings(s, fires[i].slot)) <= 1 + faults
    BY DEF DuplicatesBoundedByFaults, Firings
  <2> DEFINE n == fires[i].slot
  <2>2. n \in Nat
    <3>1. fires \in Seq([id: Schedule, slot: Nat, by: Replica])
      BY <2>1 DEF FInv, Inv, TypeOK
    <3>2. i \in 1..Len(fires)
      BY <3>1
    <3>3. fires[i] \in [id: Schedule, slot: Nat, by: Replica]
      BY <3>1, <3>2, ElementOfSeq
    <3> QED
      BY <3>3
  <2> HIDE DEF n
  <2>3. /\ Cardinality(Firings(s, n)) \in Nat
        /\ Cardinality(Claimants(s, n)) \in Nat
        /\ One(Free(s, n)) \in {0, 1} /\ faults \in Nat
    BY <2>1, FiringsFinite, ClaimantsFinite, OneType, SchedulerAssumption
       DEF FInv, Inv, TypeOK
  <2>4. Bounded(s, n)
    BY <2>1, <2>2 DEF FInv, FireInvariant
  <2>5. Cardinality(Firings(s, n)) <= 1 + faults
    BY <2>3, <2>4 DEF Bounded
  <2> QED
    BY <2>5 DEF n
<1> QED
  BY <1>1, FiresInvariant, PTL

=============================================================================
