--------------------------- MODULE LineageProofs ---------------------------
(***************************************************************************)
(* For every set of events, requests and deliveries: what lineage-service  *)
(* stores is exactly what the accepted events said, its interleaved        *)
(* transactions implement the atomic LineageStore, and its graph query     *)
(* answers the shortest chains of accepted events.                         *)
(***************************************************************************)
EXTENDS Lineage, Induction, TLAPS

-----------------------------------------------------------------------------
(* Facts about events, rows and idle requests *)

LEMMA EventFacts ==
  ASSUME NEW e \in Event
  PROVE  /\ RunOf[e] \in Run /\ TypeOf[e] \in EventType /\ TypeOf[e] # "none"
         /\ Refs[e] \in Seq(DatasetRef) /\ Len(Refs[e]) \in Nat
         /\ DOMAIN Refs[e] = 1..Len(Refs[e])
         /\ e # NoEvent
BY LineageAssumption DEF EventType

LEMMA NoRunType == NoRun \in LineageRun /\ NoRun.started = NoEvent /\ NoRun.ended = NoEvent
                   /\ NoRun.named = FALSE /\ NoRun.state = "none"
BY DEF NoRun, LineageRun

LEMMA IdleType == Idle \in Transaction /\ Idle.pc = "idle"
BY NoRunType DEF Idle, Transaction

LEMMA AppliedType ==
  ASSUME NEW e \in Event, NEW old \in LineageRun
  PROVE  Applied(old, e) \in LineageRun /\ Applied(old, e) # NoRun
BY EventFacts, NoRunType DEF Applied, LineageRun, EventType

LEMMA UpdatedType ==
  ASSUME NEW c \in LineageRun, NEW o \in LineageRun, NEW n \in LineageRun
  PROVE  Updated(c, o, n) \in LineageRun
BY DEF Updated, LineageRun

LEMMA EdgeType ==
  ASSUME NEW e \in Event, NEW i \in DOMAIN Refs[e]
  PROVE  EdgeOf(e, i) \in Edge
<1>1. Refs[e][i] \in DatasetRef /\ RunOf[e] \in Run
  BY EventFacts
<1> QED
  BY <1>1 DEF EdgeOf, Edge, DatasetRef

-----------------------------------------------------------------------------
(* Type correctness *)

\* Replacing one transaction by another keeps the type of request.
LEMMA RequestUpdate ==
  ASSUME request \in [Request -> Transaction], NEW q \in Request, NEW t \in Transaction
  PROVE  [request EXCEPT ![q] = t] \in [Request -> Transaction]
OBVIOUS

LEMMA WroteType ==
  ASSUME TypeOK, NEW q \in Request, NEW row \in LineageRun, Wrote(q, row)
  PROVE  TypeOK'
<1>1. request[q] \in Transaction
  BY DEF TypeOK
<1>2. [request[q] EXCEPT !.pc = "link", !.row = row] \in Transaction
  BY <1>1 DEF Transaction
<1>3. request' = [request EXCEPT ![q] = [request[q] EXCEPT !.pc = "link", !.row = row]]
  BY DEF Wrote, TypeOK
<1> QED
  BY <1>2, <1>3 DEF TypeOK, Wrote

LEMMA RollbackType ==
  ASSUME TypeOK, NEW q \in Request, Rollback(q), faults' \in 0..MaxFaults,
         refused' \subseteq Event
  PROVE  TypeOK'
BY IdleType, RequestUpdate DEF TypeOK, Rollback

LEMMA InitType == Init => TypeOK
BY LineageBounds, NoRunType, IdleType DEF Init, TypeOK

LEMMA StepType ==
  ASSUME TypeOK, \A q \in Request : Busy(q) => request[q].event \in Event,
         \A q \in Request : request[q].pc = "link" =>
           request[q].done <= Len(Refs[request[q].event]),
         [Next]_vars
  PROVE  TypeOK'
<1>1. ASSUME NEW q \in Request, NEW e \in Event, Receive(q, e) PROVE TypeOK'
  <2>1. run[RunOf[e]] \in LineageRun
    BY EventFacts DEF TypeOK
  <2>2. [Idle EXCEPT !.pc = "write", !.event = e, !.seen = run[RunOf[e]]] \in Transaction
    BY <2>1, NoRunType DEF Idle, Transaction
  <2>3. posted[e] + 1 \in 0..MaxDeliveries
    BY <1>1, LineageBounds DEF TypeOK, Receive
  <2> QED
    BY <1>1, <2>2, <2>3 DEF TypeOK, Receive
<1>2. ASSUME NEW q \in Request, request[q].pc = "write"
      PROVE  /\ request[q].event \in Event /\ request[q].seen \in LineageRun
             /\ run[RunOf[request[q].event]] \in LineageRun
  BY <1>2, EventFacts DEF TypeOK, Busy, Transaction
<1>3. ASSUME NEW q \in Request, UpdateRun(q) PROVE TypeOK'
  <2>1. request[q].pc = "write"
    BY <1>3 DEF UpdateRun
  <2> DEFINE e == request[q].event
             old == request[q].seen
  <2>2. e \in Event /\ old \in LineageRun /\ run[RunOf[e]] \in LineageRun
    BY <1>2, <2>1
  <2>3. Applied(old, e) \in LineageRun
    BY <2>2, AppliedType
  <2>4. Updated(run[RunOf[e]], old, Applied(old, e)) \in LineageRun
    BY <2>2, <2>3, UpdatedType
  <2>5. Wrote(q, NoRun) \/ Wrote(q, Updated(run[RunOf[e]], old, Applied(old, e)))
    BY <1>3 DEF UpdateRun
  <2> QED
    BY <2>4, <2>5, NoRunType, WroteType
<1>4. ASSUME NEW q \in Request, InsertRun(q) PROVE TypeOK'
  <2>1. request[q].pc = "write" /\ Wrote(q, Applied(NoRun, request[q].event))
    BY <1>4 DEF InsertRun
  <2>2. Applied(NoRun, request[q].event) \in LineageRun
    BY <1>2, <2>1, AppliedType, NoRunType
  <2> QED
    BY <2>1, <2>2, WroteType
<1>5. ASSUME NEW q \in Request, InsertConflict(q) PROVE TypeOK'
  <2>1. request[q].event \in Event
    BY <1>2, <1>5 DEF InsertConflict
  <2> QED
    BY <1>5, <2>1, RollbackType DEF InsertConflict, TypeOK
<1>6. ASSUME NEW q \in Request, UpsertAndLink(q) PROVE TypeOK'
  <2>0. request[q] \in Transaction
    BY DEF TypeOK
  <2>1. [request[q] EXCEPT !.done = @ + 1] \in Transaction
    BY <2>0 DEF Transaction
  <2>2. request' = [request EXCEPT ![q] = [request[q] EXCEPT !.done = @ + 1]]
    BY <1>6 DEF UpsertAndLink, TypeOK
  <2> QED
    BY <1>6, <2>1, <2>2 DEF TypeOK, UpsertAndLink
<1>7. ASSUME NEW q \in Request, Commit(q) PROVE TypeOK'
  <2> DEFINE e == request[q].event
  <2>1. e \in Event /\ request[q].row \in LineageRun /\ request[q].done \in Nat
        /\ request[q].done <= Len(Refs[e])
    BY <1>7 DEF TypeOK, Busy, Commit, Transaction
  <2>2. run' \in [Run -> LineageRun]
    BY <1>7, <2>1, EventFacts DEF TypeOK, Commit
  <2>3. dataset' \in [Dataset -> SUBSET Event]
    BY <1>7, <2>1 DEF TypeOK, Commit
  <2>4. \A i \in 1..request[q].done : EdgeOf(e, i) \in Edge
    BY <2>1, EventFacts, EdgeType
  <2>5. edge' \subseteq Edge
    BY <1>7, <2>4 DEF TypeOK, Commit
  <2>6. request' \in [Request -> Transaction]
    BY <1>7, IdleType, RequestUpdate DEF TypeOK, Commit
  <2> QED
    BY <1>7, <2>1, <2>2, <2>3, <2>5, <2>6 DEF TypeOK, Commit
<1>8. ASSUME NEW q \in Request, DeadlockVictim(q) PROVE TypeOK'
  BY <1>8, RollbackType DEF DeadlockVictim, TypeOK
<1>9. ASSUME NEW q \in Request, Fail(q) PROVE TypeOK'
  <2>1. faults' \in 0..MaxFaults
    BY <1>9, LineageBounds DEF Fail, TypeOK
  <2> QED
    BY <1>9, <2>1, RollbackType DEF Fail, TypeOK
<1>10. CASE UNCHANGED vars
  BY <1>10 DEF TypeOK, vars
<1> QED
  BY <1>1, <1>3, <1>4, <1>5, <1>6, <1>7, <1>8, <1>9, <1>10 DEF Next, IngestStep

-----------------------------------------------------------------------------
(* The rows of lineage_runs *)

\* A fresh row tells of the event that made it, and of none other.
LEMMA AppliedTells ==
  ASSUME NEW e \in Event, NEW old \in LineageRun, NEW S \in SUBSET Event,
         TellsOf(old, S)
  PROVE  TellsOf(Applied(old, e), S \cup {e})
BY EventFacts, AppliedType DEF TellsOf, Applied, TerminalStates

\* No event is told of by the missing row.
LEMMA NothingTold == TellsOf(NoRun, {})
BY NoRunType DEF TellsOf

\* An UPDATE computed from a row that was true once, applied to the row that is
\* true now, tells of the event and of all that was told before.
LEMMA UpdatedTells ==
  ASSUME NEW e \in Event, NEW old \in LineageRun, NEW c \in LineageRun,
         NEW S \in SUBSET Event, TellsOf(c, S), old # NoRun, S # {},
         {old.started, old.ended} \subseteq S \cup {NoEvent},
         old.started # NoEvent => \E f \in S : TypeOf[f] = "START",
         old.ended # NoEvent => \E f \in S : TypeOf[f] \in TerminalStates,
         old.named => S \cap Named # {}
  PROVE  /\ Applied(old, e) = old => TellsOf(c, S \cup {e})
         /\ TellsOf(Updated(c, old, Applied(old, e)), S \cup {e})
<1> DEFINE n == Applied(old, e)
           u == Updated(c, old, n)
<1>1. n \in LineageRun /\ n # NoRun /\ u \in LineageRun
  BY AppliedType, UpdatedType
<1>2. /\ n.state = TypeOf[e] /\ n.named = (old.named \/ e \in Named)
      /\ n.started = IF TypeOf[e] = "START" THEN e ELSE old.started
      /\ n.ended = IF TypeOf[e] \in TerminalStates THEN e ELSE old.ended
  BY DEF Applied
<1>3. /\ u.state = IF n.state = old.state THEN c.state ELSE n.state
      /\ u.named = IF n.named = old.named THEN c.named ELSE n.named
      /\ u.started = IF n.started = old.started THEN c.started ELSE n.started
      /\ u.ended = IF n.ended = old.ended THEN c.ended ELSE n.ended
  BY DEF Updated
<1>4. e # NoEvent /\ TypeOf[e] # "none" /\ S \cup {e} # {}
  BY EventFacts
<1>5. /\ c # NoRun /\ (\E f \in S : c.state = TypeOf[f])
      /\ c.started # NoEvent <=> \E f \in S : TypeOf[f] = "START"
      /\ c.ended # NoEvent <=> \E f \in S : TypeOf[f] \in TerminalStates
      /\ c.named <=> S \cap Named # {}
      /\ {c.started, c.ended} \subseteq S \cup {NoEvent}
  BY DEF TellsOf
<1>6. \E f \in S \cup {e} : u.state = TypeOf[f]
  BY <1>2, <1>3, <1>5
<1>7. u # NoRun
  BY <1>6, EventFacts, NoRunType
<1>8. u.started # NoEvent <=> \E f \in S \cup {e} : TypeOf[f] = "START"
  BY <1>2, <1>3, <1>4, <1>5
<1>9. u.ended # NoEvent <=> \E f \in S \cup {e} : TypeOf[f] \in TerminalStates
  BY <1>2, <1>3, <1>4, <1>5
<1>10. u.named <=> (S \cup {e}) \cap Named # {}
  BY <1>1, <1>2, <1>3, <1>5 DEF LineageRun
<1>11. {u.started, u.ended} \subseteq (S \cup {e}) \cup {NoEvent}
  BY <1>2, <1>3, <1>5
<1>12. TellsOf(u, S \cup {e})
  BY <1>4, <1>6, <1>7, <1>8, <1>9, <1>10, <1>11 DEF TellsOf
<1>13. n = old => TellsOf(c, S \cup {e})
  <2> SUFFICES ASSUME n = old PROVE TellsOf(c, S \cup {e})
    OBVIOUS
  <2>1. TypeOf[e] = "START" => old.started = e
    BY <1>2
  <2>2. TypeOf[e] \in TerminalStates => old.ended = e
    BY <1>2
  <2>3. e \in Named => old.named
    BY <1>2
  <2>4. c.started # NoEvent <=> \E f \in S \cup {e} : TypeOf[f] = "START"
    BY <2>1, <1>4, <1>5
  <2>5. c.ended # NoEvent <=> \E f \in S \cup {e} : TypeOf[f] \in TerminalStates
    BY <2>2, <1>4, <1>5
  <2>6. c.named <=> (S \cup {e}) \cap Named # {}
    BY <2>3, <1>5
  <2>7. {c.started, c.ended} \subseteq (S \cup {e}) \cup {NoEvent}
    BY <1>5
  <2> QED
    BY <1>4, <1>5, <2>4, <2>5, <2>6, <2>7 DEF TellsOf
<1> QED
  BY <1>12, <1>13

\* An event that a row tells of already, without being one of S, says nothing
\* that S does not say.
LEMMA TellsAbsorb ==
  ASSUME NEW S \in SUBSET Event, NEW a \in Event, NEW b \in Event,
         NEW c \in LineageRun, NEW w \in LineageRun,
         TellsOf(c, S), TellsOf(c, S \cup {a}), TellsOf(w, S \cup {b})
  PROVE  TellsOf(w, (S \cup {a}) \cup {b})
<1>1. S # {} /\ w # NoRun
  BY DEF TellsOf
<1>2. TypeOf[a] = "START" => \E f \in S : TypeOf[f] = "START"
  BY DEF TellsOf
<1>3. TypeOf[a] \in TerminalStates => \E f \in S : TypeOf[f] \in TerminalStates
  BY DEF TellsOf
<1>4. a \in Named => S \cap Named # {}
  BY DEF TellsOf
<1>5. \E f \in (S \cup {a}) \cup {b} : w.state = TypeOf[f]
  BY DEF TellsOf
<1>6. w.started # NoEvent <=> \E f \in (S \cup {a}) \cup {b} : TypeOf[f] = "START"
  BY <1>2 DEF TellsOf
<1>7. w.ended # NoEvent <=>
        \E f \in (S \cup {a}) \cup {b} : TypeOf[f] \in TerminalStates
  BY <1>3 DEF TellsOf
<1>8. w.named <=> ((S \cup {a}) \cup {b}) \cap Named # {}
  BY <1>4 DEF TellsOf
<1>9. {w.started, w.ended} \subseteq ((S \cup {a}) \cup {b}) \cup {NoEvent}
  BY DEF TellsOf
<1> QED
  BY <1>1, <1>5, <1>6, <1>7, <1>8, <1>9 DEF TellsOf

-----------------------------------------------------------------------------
(* The inductive invariant *)

LEMMA InitInvariant == Init => IngestInvariant
<1> SUFFICES ASSUME Init PROVE IngestInvariant
  OBVIOUS
<1>1. TypeOK
  BY InitType
<1>2. \A r \in Run : Mine(r) = {} /\ run[r] = NoRun
  BY DEF Mine, Init
<1>3. RunTimesJustified
  BY <1>2, NothingTold DEF RunTimesJustified
<1>4. RecordedIffAccepted
  BY DEF Init, RecordedIffAccepted
<1>5. \A q \in Request : request[q] = Idle /\ ~Busy(q)
  BY IdleType DEF Init, Busy
<1>6. RunLockExclusive
  BY <1>5 DEF RunLockExclusive, HoldsRun
<1>7. \A q \in Request : TransactionSound(q)
  BY <1>5, IdleType DEF TransactionSound, Busy
<1> QED
  BY <1>1, <1>3, <1>4, <1>6, <1>7 DEF IngestInvariant

\* What an action that touches nothing but one transaction has to preserve.
LEMMA OneTransaction ==
  ASSUME IngestInvariant, TypeOK', NEW q \in Request,
         \A p \in Request \ {q} : request'[p] = request[p],
         UNCHANGED <<run, dataset, edge, accepted>>,
         TransactionSound(q)',
         \A r \in Run : HoldsRun(q, r)' => HoldsRun(q, r) \/ RunFree(q, r)
  PROVE  IngestInvariant'
<1>1. RecordedIffAccepted'
  BY DEF IngestInvariant, RecordedIffAccepted
<1>2. RunTimesJustified'
  BY DEF IngestInvariant, RunTimesJustified, Mine
<1>3. ASSUME NEW p \in Request \ {q} PROVE TransactionSound(p)'
  <2>1. TransactionSound(p) /\ request'[p] = request[p] /\ run' = run
    BY DEF IngestInvariant
  <2>2. Mine(RunOf[request[p].event])' = Mine(RunOf[request[p].event])
    BY <2>1 DEF Mine
  <2>3. SeenStillTrue(p)' <=> SeenStillTrue(p)
    BY <2>1, <2>2 DEF SeenStillTrue
  <2>4. TellsOfOwn(p)' <=> TellsOfOwn(p)
    BY <2>1, <2>2 DEF TellsOfOwn
  <2> QED
    BY <2>1, <2>3, <2>4 DEF TransactionSound, Busy
<1>4. ASSUME NEW p \in Request \ {q}, NEW r \in Run
      PROVE  HoldsRun(p, r)' <=> HoldsRun(p, r)
  BY <1>4 DEF HoldsRun, Busy
<1>5. RunLockExclusive'
  <2> SUFFICES ASSUME NEW p \in Request, NEW o \in Request, NEW r \in Run,
                      HoldsRun(p, r)', HoldsRun(o, r)'
               PROVE  p = o
    BY DEF RunLockExclusive
  <2>1. CASE p # q /\ o # q
    BY <2>1, <1>4 DEF IngestInvariant, RunLockExclusive
  <2>2. CASE p = q /\ o # q
    BY <2>2, <1>4 DEF IngestInvariant, RunLockExclusive, RunFree
  <2>3. CASE p # q /\ o = q
    BY <2>3, <1>4 DEF IngestInvariant, RunLockExclusive, RunFree
  <2> QED
    BY <2>1, <2>2, <2>3
<1> QED
  BY <1>1, <1>2, <1>3, <1>5 DEF IngestInvariant

\* A transaction that has come to an end claims nothing.
LEMMA IdleSound ==
  ASSUME NEW q \in Request, request'[q] = Idle
  PROVE  TransactionSound(q)' /\ \A r \in Run : ~HoldsRun(q, r)'
BY IdleType DEF TransactionSound, Busy, HoldsRun

LEMMA RollbackInvariant ==
  ASSUME IngestInvariant, TypeOK', NEW q \in Request, Rollback(q)
  PROVE  IngestInvariant'
<1>1. request'[q] = Idle /\ \A p \in Request \ {q} : request'[p] = request[p]
  BY DEF Rollback, IngestInvariant, TypeOK
<1>2. TransactionSound(q)' /\ \A r \in Run : ~HoldsRun(q, r)'
  BY <1>1, IdleSound
<1>3. UNCHANGED <<run, dataset, edge, accepted>>
  BY DEF Rollback
<1> QED
  BY <1>1, <1>2, <1>3, OneTransaction

\* Of every transaction that writes, what the proof of a step needs to know.
LEMMA WriterFacts ==
  ASSUME IngestInvariant, NEW q \in Request, request[q].pc = "write"
  PROVE  /\ request[q].event \in Event /\ request[q].seen \in LineageRun
         /\ RunOf[request[q].event] \in Run
         /\ run[RunOf[request[q].event]] \in LineageRun
         /\ Mine(RunOf[request[q].event]) \in SUBSET Event
         /\ TellsOf(run[RunOf[request[q].event]], Mine(RunOf[request[q].event]))
         /\ SeenStillTrue(q) /\ request[q].row = NoRun /\ request[q].done = 0
<1>1. request[q].event \in Event /\ SeenStillTrue(q)
      /\ request[q].row = NoRun /\ request[q].done = 0
  BY DEF IngestInvariant, TransactionSound, Busy
<1>2. request[q] \in Transaction
  BY DEF IngestInvariant, TypeOK
<1>3. RunOf[request[q].event] \in Run
  BY <1>1, EventFacts
<1>4. accepted \subseteq Event /\ run \in [Run -> LineageRun]
  BY DEF IngestInvariant, TypeOK
<1>5. TellsOf(run[RunOf[request[q].event]], Mine(RunOf[request[q].event]))
  BY <1>3 DEF IngestInvariant, RunTimesJustified
<1> QED
  BY <1>1, <1>2, <1>3, <1>4, <1>5 DEF Mine, Transaction

\* Writing a row that tells of the event and of all that is accepted.
LEMMA WroteInvariant ==
  ASSUME IngestInvariant, TypeOK', NEW q \in Request, request[q].pc = "write",
         NEW row \in LineageRun, Wrote(q, row),
         row # NoRun => RunFree(q, RunOf[request[q].event]),
         LET r == RunOf[request[q].event]
         IN TellsOf(IF row = NoRun THEN run[r] ELSE row, Mine(r) \cup {request[q].event})
  PROVE  IngestInvariant'
<1> DEFINE e == request[q].event
<1>1. /\ request'[q].pc = "link" /\ request'[q].row = row /\ request'[q].done = 0
      /\ request'[q].event = e /\ request'[q].seen = request[q].seen
      /\ \A p \in Request \ {q} : request'[p] = request[p]
  BY WriterFacts DEF Wrote, IngestInvariant, TypeOK, Transaction
<1>2. e \in Event /\ SeenStillTrue(q) /\ Len(Refs[e]) \in Nat
  BY WriterFacts, EventFacts
<1>3. UNCHANGED <<run, dataset, edge, accepted>>
  BY DEF Wrote
<1>4. SeenStillTrue(q)'
  BY <1>1, <1>2, <1>3 DEF SeenStillTrue, Mine
<1>5. TellsOfOwn(q)'
  BY <1>1, <1>3 DEF TellsOfOwn, Mine
<1>6. TransactionSound(q)'
  BY <1>1, <1>2, <1>4, <1>5 DEF TransactionSound, Busy
<1>7. \A r \in Run : HoldsRun(q, r)' => RunFree(q, r)
  BY <1>1 DEF HoldsRun
<1> QED
  BY <1>1, <1>3, <1>6, <1>7, OneTransaction

\* Committing makes what the transaction wrote, and its event, part of the
\* tables; the other transactions stay sound.
LEMMA CommitInvariant ==
  ASSUME IngestInvariant, TypeOK', NEW q \in Request, Commit(q)
  PROVE  IngestInvariant'
<1>a. request[q].pc = "link" /\ Busy(q) /\ ~More(q)
  BY DEF Commit, Busy
<1>b. PICK e \in Event : e = request[q].event
  BY <1>a DEF IngestInvariant, TransactionSound
<1>c. PICK r \in Run : r = RunOf[e]
  BY EventFacts
<1> DEFINE S == Mine(r)
           after == IF request[q].row = NoRun THEN run[r] ELSE request[q].row
<1>1. /\ request[q].pc = "link" /\ Busy(q)
      /\ request[q].done \in Nat /\ request[q].done = Len(Refs[e])
      /\ 1..request[q].done = DOMAIN Refs[e]
  <2>1. ~More(q)
    BY <1>a
  <2>2. request[q].done <= Len(Refs[e])
    BY <1>a, <1>b DEF IngestInvariant, TransactionSound
  <2>3. request[q] \in Transaction
    BY DEF IngestInvariant, TypeOK
  <2> QED
    BY <1>a, <1>b, <2>1, <2>2, <2>3, EventFacts DEF More, Transaction
<1>2. /\ S \in SUBSET Event /\ run[r] \in LineageRun /\ after \in LineageRun
      /\ TellsOf(run[r], S) /\ TellsOf(after, S \cup {e})
  <2>1. request[q] \in Transaction /\ run \in [Run -> LineageRun] /\ accepted \subseteq Event
    BY DEF IngestInvariant, TypeOK
  <2>2. TellsOf(run[r], S) /\ TellsOf(after, S \cup {e})
    BY <1>1, <1>b, <1>c DEF IngestInvariant, RunTimesJustified, TransactionSound, TellsOfOwn
  <2> QED
    BY <1>1, <2>1, <2>2 DEF Mine, Transaction
<1>3. /\ accepted' = accepted \cup {e} /\ run' = [run EXCEPT ![r] = after]
      /\ request' = [request EXCEPT ![q] = Idle]
  BY <1>b, <1>c DEF Commit, IngestInvariant, TypeOK
<1>4. /\ Mine(r)' = S \cup {e}
      /\ \A x \in Run \ {r} : Mine(x)' = Mine(x)
  BY <1>c, <1>3 DEF Mine
<1>5. /\ run'[r] = after
      /\ \A x \in Run \ {r} : run'[x] = run[x]
  BY <1>1, <1>3 DEF IngestInvariant, TypeOK
<1>6. RunTimesJustified'
  BY <1>2, <1>4, <1>5 DEF IngestInvariant, RunTimesJustified
<1>7. RecordedIffAccepted'
  <2>1. edge' = edge \cup EdgesOf(e)
    BY <1>1, <1>b DEF Commit, EdgesOf
  <2>2. edge' = UNION {EdgesOf(f) : f \in accepted'}
    BY <1>3, <2>1 DEF IngestInvariant, RecordedIffAccepted
  <2>3. ASSUME NEW d \in Dataset PROVE dataset'[d] = {f \in accepted' : Names(f, d)}
    <3>1. dataset'[d] = IF Names(e, d) THEN dataset[d] \cup {e} ELSE dataset[d]
      BY <1>1, <1>b DEF Commit, Names
    <3>2. dataset[d] = {f \in accepted : Names(f, d)}
      BY DEF IngestInvariant, RecordedIffAccepted
    <3> QED
      BY <1>3, <3>1, <3>2
  <2> QED
    BY <2>2, <2>3 DEF RecordedIffAccepted
<1>8. request'[q] = Idle /\ \A p \in Request \ {q} : request'[p] = request[p]
  BY <1>3 DEF IngestInvariant, TypeOK
<1>9. RunLockExclusive'
  <2>1. \A x \in Run : ~HoldsRun(q, x)'
    BY <1>8, IdleSound
  <2>2. \A p \in Request \ {q}, x \in Run : HoldsRun(p, x)' <=> HoldsRun(p, x)
    BY <1>8 DEF HoldsRun, Busy
  <2> QED
    BY <2>1, <2>2 DEF IngestInvariant, RunLockExclusive
<1>10. ASSUME NEW p \in Request \ {q} PROVE TransactionSound(p)'
  <2>1. TransactionSound(p) /\ request'[p] = request[p] /\ request[p] \in Transaction
    BY <1>8 DEF IngestInvariant, TypeOK
  <2>2. CASE ~Busy(p)
    BY <2>1, <2>2 DEF TransactionSound, Busy, Transaction
  <2>3. CASE Busy(p)
    <3>a. request[p].event \in Event /\ SeenStillTrue(p)
      BY <2>1, <2>3 DEF TransactionSound
    <3>b. PICK b \in Event : b = request[p].event
      BY <3>a
    <3>c. PICK x \in Run : x = RunOf[b]
      BY EventFacts
    <3>2. Mine(x) \subseteq Mine(x)'
      BY <1>3 DEF Mine
    <3>3. SeenStillTrue(p)'
      BY <2>1, <3>a, <3>b, <3>c, <3>2 DEF SeenStillTrue
    <3>4. ASSUME request[p].pc = "link" PROVE TellsOfOwn(p)'
      <4> DEFINE w == IF request[p].row = NoRun THEN run[x] ELSE request[p].row
      <4>1. TellsOf(w, Mine(x) \cup {b}) /\ w \in LineageRun
        BY <2>1, <3>b, <3>c, <3>4
           DEF TransactionSound, TellsOfOwn, IngestInvariant, TypeOK, Transaction
      <4>2. CASE x # r
        BY <2>1, <3>b, <3>c, <4>1, <4>2, <1>4, <1>5 DEF TellsOfOwn
      <4>3. CASE x = r /\ request[q].row = NoRun
        <5>1. TellsOf(w, (S \cup {e}) \cup {b})
          BY <1>2, <4>1, <4>3, TellsAbsorb
        <5> QED
          BY <2>1, <3>b, <3>c, <4>3, <5>1, <1>4, <1>5 DEF TellsOfOwn
      <4>4. CASE x = r /\ request[q].row # NoRun
        <5>1. HoldsRun(q, r)
          BY <1>1, <1>b, <1>c, <4>4 DEF HoldsRun
        <5>2. request[p].row = NoRun
          BY <2>3, <3>b, <3>c, <4>4, <5>1 DEF HoldsRun, IngestInvariant, RunLockExclusive
        <5>3. TellsOf(run[r], S \cup {b})
          BY <4>1, <4>4, <5>2
        <5>4. TellsOf(after, (S \cup {b}) \cup {e})
          BY <1>2, <5>3, TellsAbsorb
        <5>5. (S \cup {b}) \cup {e} = (S \cup {e}) \cup {b}
          OBVIOUS
        <5> QED
          BY <2>1, <3>b, <3>c, <4>4, <5>2, <5>4, <5>5, <1>4, <1>5 DEF TellsOfOwn
      <4> QED
        BY <4>2, <4>3, <4>4
    <3> QED
      BY <2>1, <2>3, <3>a, <3>3, <3>4 DEF TransactionSound, Busy
  <2> QED
    BY <2>2, <2>3
<1>11. TransactionSound(q)'
  BY <1>8, IdleSound
<1> QED
  BY <1>6, <1>7, <1>9, <1>10, <1>11 DEF IngestInvariant

LEMMA StepInvariant ==
  ASSUME IngestInvariant, [Next]_vars
  PROVE  IngestInvariant'
<1>1. TypeOK'
  BY StepType DEF IngestInvariant, TransactionSound
<1>2. ASSUME NEW q \in Request, NEW e \in Event, Receive(q, e) PROVE IngestInvariant'
  <2>1. /\ request'[q].pc = "write" /\ request'[q].row = NoRun /\ request'[q].done = 0
        /\ request'[q].event = e /\ request'[q].seen = run[RunOf[e]]
        /\ \A p \in Request \ {q} : request'[p] = request[p]
    BY <1>2 DEF Receive, Idle, IngestInvariant, TypeOK
  <2>2. UNCHANGED <<run, dataset, edge, accepted>>
    BY <1>2 DEF Receive
  <2>3. TellsOf(run[RunOf[e]], Mine(RunOf[e]))
    BY EventFacts DEF IngestInvariant, RunTimesJustified
  <2>4. SeenStillTrue(q)'
    BY <2>1, <2>2, <2>3 DEF SeenStillTrue, TellsOf, Mine
  <2>5. TransactionSound(q)'
    BY <2>1, <2>4 DEF TransactionSound, Busy
  <2>6. \A r \in Run : ~HoldsRun(q, r)'
    BY <2>1 DEF HoldsRun
  <2> QED
    BY <1>1, <2>1, <2>2, <2>5, <2>6, OneTransaction
<1>3. ASSUME NEW q \in Request, UpdateRun(q) PROVE IngestInvariant'
  <2> DEFINE e == request[q].event
             old == request[q].seen
             c == run[RunOf[e]]
             S == Mine(RunOf[e])
             new == Applied(old, e)
             u == Updated(c, old, new)
  <2>1. request[q].pc = "write" /\ old # NoRun
    BY <1>3 DEF UpdateRun
  <2>2. /\ e \in Event /\ old \in LineageRun /\ c \in LineageRun /\ S \in SUBSET Event
        /\ TellsOf(c, S) /\ S # {}
        /\ {old.started, old.ended} \subseteq S \cup {NoEvent}
        /\ old.started # NoEvent => \E f \in S : TypeOf[f] = "START"
        /\ old.ended # NoEvent => \E f \in S : TypeOf[f] \in TerminalStates
        /\ old.named => S \cap Named # {}
    BY <2>1, WriterFacts DEF SeenStillTrue
  <2>3. /\ new = old => TellsOf(c, S \cup {e})
        /\ TellsOf(u, S \cup {e})
    BY <2>1, <2>2, UpdatedTells
  <2>4. u \in LineageRun /\ NoRun \in LineageRun
    BY <2>2, AppliedType, UpdatedType, NoRunType
  <2>5. u # NoRun
    BY <2>3 DEF TellsOf
  <2>6. CASE new = old /\ Wrote(q, NoRun)
    BY <1>1, <2>1, <2>3, <2>4, <2>6, WroteInvariant
  <2>7. CASE RunFree(q, RunOf[e]) /\ Wrote(q, u)
    BY <1>1, <2>1, <2>3, <2>4, <2>5, <2>7, WroteInvariant
  <2> QED
    BY <1>3, <2>6, <2>7 DEF UpdateRun
<1>4. ASSUME NEW q \in Request, InsertRun(q) PROVE IngestInvariant'
  <2> DEFINE e == request[q].event
             n == Applied(NoRun, e)
  <2>1. /\ request[q].pc = "write" /\ RunFree(q, RunOf[e])
        /\ run[RunOf[e]] = NoRun /\ Wrote(q, n)
    BY <1>4 DEF InsertRun
  <2>2. e \in Event /\ TellsOf(NoRun, Mine(RunOf[e])) /\ Mine(RunOf[e]) \in SUBSET Event
    BY <2>1, WriterFacts
  <2>3. n \in LineageRun /\ n # NoRun /\ TellsOf(n, Mine(RunOf[e]) \cup {e})
    BY <2>2, AppliedType, AppliedTells, NoRunType
  <2> QED
    BY <1>1, <2>1, <2>3, WroteInvariant
<1>5. ASSUME NEW q \in Request, InsertConflict(q) PROVE IngestInvariant'
  BY <1>1, <1>5, RollbackInvariant DEF InsertConflict
<1>6. ASSUME NEW q \in Request, UpsertAndLink(q) PROVE IngestInvariant'
  <2> DEFINE e == request[q].event
  <2>1. /\ request[q].pc = "link" /\ request[q].done < Len(Refs[e]) /\ Busy(q)
        /\ UNCHANGED <<run, dataset, edge, accepted>>
    BY <1>6 DEF UpsertAndLink, More, Busy
  <2>2. request[q] \in Transaction /\ TransactionSound(q)
    BY DEF IngestInvariant, TypeOK
  <2>3. /\ request'[q].pc = "link" /\ request'[q].row = request[q].row
        /\ request'[q].done = request[q].done + 1
        /\ request'[q].event = e /\ request'[q].seen = request[q].seen
        /\ \A p \in Request \ {q} : request'[p] = request[p]
    BY <1>6, <2>1, <2>2 DEF UpsertAndLink, IngestInvariant, TypeOK, Transaction
  <2>4. e \in Event /\ request[q].done + 1 <= Len(Refs[e])
    BY <2>1, <2>2, EventFacts DEF TransactionSound, Transaction
  <2>5. SeenStillTrue(q)' /\ TellsOfOwn(q)'
    BY <2>1, <2>2, <2>3 DEF TransactionSound, SeenStillTrue, TellsOfOwn, Mine
  <2>6. TransactionSound(q)'
    BY <2>3, <2>4, <2>5 DEF TransactionSound, Busy
  <2>7. \A r \in Run : HoldsRun(q, r)' => HoldsRun(q, r)
    BY <2>1, <2>3 DEF HoldsRun
  <2> QED
    BY <1>1, <2>1, <2>3, <2>6, <2>7, OneTransaction
<1>7. ASSUME NEW q \in Request, Commit(q) PROVE IngestInvariant'
  BY <1>1, <1>7, CommitInvariant
<1>8. ASSUME NEW q \in Request, DeadlockVictim(q) PROVE IngestInvariant'
  BY <1>1, <1>8, RollbackInvariant DEF DeadlockVictim
<1>9. ASSUME NEW q \in Request, Fail(q) PROVE IngestInvariant'
  BY <1>1, <1>9, RollbackInvariant DEF Fail
<1>10. CASE UNCHANGED vars
  <2>1. UNCHANGED <<run, dataset, edge, accepted, request>>
    BY <1>10 DEF vars
  <2>2. RecordedIffAccepted' /\ RunTimesJustified' /\ RunLockExclusive'
    BY <2>1 DEF IngestInvariant, RecordedIffAccepted, RunTimesJustified, Mine,
       RunLockExclusive, HoldsRun, Busy
  <2>3. ASSUME NEW q \in Request PROVE TransactionSound(q)'
    <3>1. TransactionSound(q)
      BY DEF IngestInvariant
    <3>2. SeenStillTrue(q)' <=> SeenStillTrue(q)
      BY <2>1 DEF SeenStillTrue, Mine
    <3>3. TellsOfOwn(q)' <=> TellsOfOwn(q)
      BY <2>1 DEF TellsOfOwn, Mine
    <3> QED
      BY <2>1, <3>1, <3>2, <3>3 DEF TransactionSound, Busy
  <2> QED
    BY <1>1, <2>2, <2>3 DEF IngestInvariant
<1> QED
  BY <1>2, <1>3, <1>4, <1>5, <1>6, <1>7, <1>8, <1>9, <1>10 DEF Next, IngestStep

\* Types, the record of accepted events, and what makes it so, in every
\* reachable state.
THEOREM IngestCorrect == Spec => []IngestInvariant
<1> QED
  BY InitInvariant, StepInvariant, PTL DEF Spec

\* The tables are well formed in every reachable state.
THEOREM LineageTypeCorrect == Spec => []TypeOK
<1>1. IngestInvariant => TypeOK
  BY DEF IngestInvariant
<1> QED
  BY <1>1, IngestCorrect, PTL

\* Edges and dataset facets are those of the events answered 201, whole.
THEOREM RecordCorrect == Spec => []RecordedIffAccepted
<1>1. IngestInvariant => RecordedIffAccepted
  BY DEF IngestInvariant
<1> QED
  BY <1>1, IngestCorrect, PTL

\* A run tells of exactly the events of it that were accepted.
THEOREM RunTimesCorrect == Spec => []RunTimesJustified
<1>1. IngestInvariant => RunTimesJustified
  BY DEF IngestInvariant
<1> QED
  BY <1>1, IngestCorrect, PTL

-----------------------------------------------------------------------------
(* Refinement *)

\* Before any event nothing is recorded.
LEMMA InitMaps == Init => Store!Init
BY NoRunType DEF Init, Store!Init

\* A commit is the one step that shows: it records its event, whole.
LEMMA CommitMaps ==
  ASSUME IngestInvariant, IngestInvariant', NEW q \in Request, Commit(q)
  PROVE  Store!Next
<1>1. PICK e \in Event : e = request[q].event /\ request[q].pc = "link"
  BY DEF Commit, IngestInvariant, TransactionSound, Busy
<1>2. accepted' = accepted \cup {e} /\ RunOf[e] \in Run
  BY <1>1, EventFacts DEF Commit
<1>a. \A r \in Run :
        /\ run[r] # NoRun <=> \E f \in accepted : RunOf[f] = r
        /\ run[r].started # NoEvent
             <=> \E f \in accepted : RunOf[f] = r /\ TypeOf[f] = "START"
        /\ run[r].ended # NoEvent
             <=> \E f \in accepted : RunOf[f] = r /\ TypeOf[f] \in TerminalStates
        /\ run[r].named <=> \E f \in accepted : RunOf[f] = r /\ f \in Named
  <2>1. \A r \in Run : TellsOf(run[r], {f \in accepted : RunOf[f] = r})
    BY DEF IngestInvariant, RunTimesJustified, Mine
  <2> QED
    BY <2>1 DEF TellsOf
<1>b. \A r \in Run :
        /\ run'[r] # NoRun <=> \E f \in accepted' : RunOf[f] = r
        /\ run'[r].started # NoEvent
             <=> \E f \in accepted' : RunOf[f] = r /\ TypeOf[f] = "START"
        /\ run'[r].ended # NoEvent
             <=> \E f \in accepted' : RunOf[f] = r /\ TypeOf[f] \in TerminalStates
        /\ run'[r].named <=> \E f \in accepted' : RunOf[f] = r /\ f \in Named
  <2>1. \A r \in Run : TellsOf(run'[r], {f \in accepted' : RunOf[f] = r})
    BY DEF IngestInvariant, RunTimesJustified, Mine
  <2> QED
    BY <2>1 DEF TellsOf
<1>3. {r \in Run : run'[r] # NoRun} = {r \in Run : run[r] # NoRun} \cup {RunOf[e]}
  BY <1>2, <1>a, <1>b
<1>4. {r \in Run : run'[r].started # NoEvent} =
        Store!Joins(e, {r \in Run : run[r].started # NoEvent}, TypeOf[e] = "START")
  BY <1>2, <1>a, <1>b DEF Store!Joins
<1>5. {r \in Run : run'[r].ended # NoEvent} =
        Store!Joins(e, {r \in Run : run[r].ended # NoEvent}, TypeOf[e] \in TerminalStates)
  BY <1>2, <1>a, <1>b DEF Store!Joins, TerminalStates, Store!TerminalStates
<1>6. {r \in Run : run'[r].named} =
        Store!Joins(e, {r \in Run : run[r].named}, e \in Named)
  BY <1>2, <1>a, <1>b DEF Store!Joins
<1>7. edge' = edge \cup EdgesOf(e)
  BY <1>2 DEF IngestInvariant, RecordedIffAccepted
<1>8. dataset' = [d \in Dataset |->
                    IF Names(e, d) THEN dataset[d] \cup {e} ELSE dataset[d]]
  <2>1. dataset' = [d \in Dataset |-> dataset'[d]]
    BY DEF IngestInvariant, TypeOK
  <2>2. ASSUME NEW d \in Dataset
        PROVE  dataset'[d] = IF Names(e, d) THEN dataset[d] \cup {e} ELSE dataset[d]
    <3>1. /\ dataset[d] = {f \in accepted : Names(f, d)}
          /\ dataset'[d] = {f \in accepted' : Names(f, d)}
      BY DEF IngestInvariant, RecordedIffAccepted
    <3> QED
      BY <1>2, <3>1
  <2> QED
    BY <2>1, <2>2
<1> QED
  BY <1>3, <1>4, <1>5, <1>6, <1>7, <1>8
     DEF Store!Next, Store!Accept, Store!EdgesOf, Store!EdgeOf, Store!Names, EdgesOf, EdgeOf,
         Names, Store!TerminalStates, TerminalStates

\* Every other step leaves the tables alone.
LEMMA StepMaps ==
  ASSUME IngestInvariant, IngestInvariant', [Next]_vars
  PROVE  [Store!Next]_Store!vars
<1>1. CASE \E q \in Request : Commit(q)
  BY <1>1, CommitMaps
<1>2. CASE ~\E q \in Request : Commit(q)
  <2>1. UNCHANGED <<run, dataset, edge>>
    BY <1>2 DEF Next, vars, Receive, IngestStep, UpdateRun, InsertRun, Wrote, InsertConflict,
       Rollback, UpsertAndLink, DeadlockVictim, Fail
  <2> QED
    BY <2>1 DEF Store!vars
<1> QED
  BY <1>1, <1>2

\* Requests that interleave record events one after the other.
THEOREM StoreImplemented == Spec => ImplementsStore
<1>1. Spec => []IngestInvariant
  BY IngestCorrect
<1>2. IngestInvariant /\ IngestInvariant' /\ [Next]_vars => [Store!Next]_Store!vars
  BY StepMaps
<1> QED
  BY <1>1, <1>2, InitMaps, PTL DEF Spec, ImplementsStore, Store!Spec

-----------------------------------------------------------------------------
(* Paths, and induction over the depth of a graph *)

\* n steps of the relation H lead from a to b.
PathOf(H, a, b, n) ==
  \E q \in [1..n + 1 -> Dataset] :
    q[1] = a /\ q[n + 1] = b /\ \A i \in 1..n : <<q[i], q[i + 1]>> \in H

LEMMA PathStart ==
  ASSUME NEW H, NEW a \in Dataset, NEW b \in Dataset
  PROVE  PathOf(H, a, b, 0) <=> a = b
<1>1. ASSUME a = b
      PROVE  PathOf(H, a, b, 0)
  <2> DEFINE q == [i \in 1..1 |-> a]
  <2>1. q \in [1..0 + 1 -> Dataset] /\ q[1] = a /\ q[0 + 1] = b
    BY <1>1
  <2>2. \A i \in 1..0 : <<q[i], q[i + 1]>> \in H
    OBVIOUS
  <2> QED
    BY <2>1, <2>2 DEF PathOf
<1> QED
  BY <1>1 DEF PathOf

LEMMA PathStep ==
  ASSUME NEW H, NEW a \in Dataset, NEW c \in Dataset, NEW n \in Nat
  PROVE  PathOf(H, a, c, n + 1) <=>
           \E b \in Dataset : PathOf(H, a, b, n) /\ <<b, c>> \in H
<1>1. ASSUME PathOf(H, a, c, n + 1)
      PROVE  \E b \in Dataset : PathOf(H, a, b, n) /\ <<b, c>> \in H
  <2>1. PICK q \in [1..(n + 1) + 1 -> Dataset] :
          /\ q[1] = a /\ q[(n + 1) + 1] = c
          /\ \A i \in 1..n + 1 : <<q[i], q[i + 1]>> \in H
    BY <1>1 DEF PathOf
  <2> DEFINE p == [i \in 1..n + 1 |-> q[i]]
  <2>2. p \in [1..n + 1 -> Dataset] /\ p[1] = a /\ p[n + 1] = q[n + 1]
    BY <2>1
  <2>3. \A i \in 1..n : <<p[i], p[i + 1]>> \in H
    BY <2>1
  <2>4. PathOf(H, a, q[n + 1], n)
    <3> HIDE DEF p
    <3> QED
      BY <2>2, <2>3 DEF PathOf
  <2>5. q[n + 1] \in Dataset /\ <<q[n + 1], c>> \in H
    BY <2>1
  <2> QED
    BY <2>4, <2>5
<1>2. ASSUME NEW b \in Dataset, PathOf(H, a, b, n), <<b, c>> \in H
      PROVE  PathOf(H, a, c, n + 1)
  <2>1. PICK p \in [1..n + 1 -> Dataset] :
          /\ p[1] = a /\ p[n + 1] = b
          /\ \A i \in 1..n : <<p[i], p[i + 1]>> \in H
    BY <1>2 DEF PathOf
  <2> DEFINE q == [i \in 1..(n + 1) + 1 |-> IF i = n + 2 THEN c ELSE p[i]]
  <2>2. q \in [1..(n + 1) + 1 -> Dataset] /\ q[1] = a /\ q[(n + 1) + 1] = c
    BY <2>1
  <2>3. \A i \in 1..n + 1 : <<q[i], q[i + 1]>> \in H
    BY <1>2, <2>1
  <2> HIDE DEF q
  <2> QED
    BY <2>2, <2>3 DEF PathOf
<1> QED
  BY <1>1, <1>2

\* A path read backwards is one of the converse relation.
LEMMA PathReverse ==
  ASSUME NEW H, NEW K, \A x, y \in Dataset : <<x, y>> \in H => <<y, x>> \in K,
         NEW a \in Dataset, NEW b \in Dataset, NEW n \in Nat, PathOf(H, a, b, n)
  PROVE  PathOf(K, b, a, n)
<1>1. PICK q \in [1..n + 1 -> Dataset] :
        /\ q[1] = a /\ q[n + 1] = b
        /\ \A i \in 1..n : <<q[i], q[i + 1]>> \in H
  BY DEF PathOf
<1> DEFINE p == [i \in 1..n + 1 |-> q[n + 2 - i]]
<1>2. p \in [1..n + 1 -> Dataset] /\ p[1] = b /\ p[n + 1] = a
  BY <1>1
<1>3. ASSUME NEW i \in 1..n
      PROVE  <<p[i], p[i + 1]>> \in K
  <2>1. n + 1 - i \in 1..n /\ (n + 1 - i) + 1 = n + 2 - i
    OBVIOUS
  <2>2. p[i] = q[(n + 1 - i) + 1] /\ p[i + 1] = q[n + 1 - i]
    BY <2>1
  <2>3. q[n + 1 - i] \in Dataset /\ q[(n + 1 - i) + 1] \in Dataset
    BY <2>1
  <2> QED
    BY <1>1, <2>1, <2>2, <2>3
<1> HIDE DEF p
<1> QED
  BY <1>2, <1>3 DEF PathOf

\* The iterations of the recursive query: level k is what k steps lead to.
LEMMA LevelsArePaths ==
  ASSUME NEW H \in SUBSET (Dataset \X Dataset), NEW root \in Dataset,
         NEW depth \in Nat, NEW k \in 0..depth
  PROVE  Levels(H, root, depth)[k] = {c \in Dataset : PathOf(H, root, c, k)}
<1> DEFINE Image(S) == {h[2] : h \in {x \in H : x[1] \in S}}
           At(n) == {c \in Dataset : PathOf(H, root, c, n)}
           w == Levels(H, root, depth)
           f == [n \in 0..depth |-> At(n)]
<1>1. At(0) = {root}
  BY PathStart
<1>2. ASSUME NEW n \in Nat
      PROVE  At(n + 1) = Image(At(n))
  <2>1. ASSUME NEW c \in At(n + 1)
        PROVE  c \in Image(At(n))
    <3>1. PICK b \in Dataset : PathOf(H, root, b, n) /\ <<b, c>> \in H
      BY <1>2, <2>1, PathStep
    <3> QED
      BY <3>1
  <2>2. ASSUME NEW c \in Image(At(n))
        PROVE  c \in At(n + 1)
    <3>1. PICK h \in H : h[1] \in At(n) /\ c = h[2]
      BY <2>2
    <3>2. h = <<h[1], c>> /\ c \in Dataset /\ h[1] \in Dataset
            /\ PathOf(H, root, h[1], n)
      BY <3>1
    <3> QED
      BY <1>2, <3>1, <3>2, PathStep
  <2> QED
    BY <2>1, <2>2
<1> HIDE DEF At
<1>3. f = [n \in 0..depth |-> IF n = 0 THEN {root} ELSE Image(f[n - 1])]
  <2>1. ASSUME NEW n \in 0..depth
        PROVE  f[n] = IF n = 0 THEN {root} ELSE Image(f[n - 1])
    <3>1. CASE n = 0
      BY <1>1, <3>1
    <3>2. CASE n # 0
      <4>1. n - 1 \in Nat /\ n - 1 \in 0..depth /\ n = (n - 1) + 1
        BY <3>2
      <4>2. At(n) = Image(At(n - 1))
        BY <1>2, <4>1
      <4> QED
        BY <3>2, <4>1, <4>2
    <3> QED
      BY <3>1, <3>2
  <2> QED
    BY <2>1
<1>4. w = [n \in 0..depth |-> IF n = 0 THEN {root} ELSE Image(w[n - 1])]
  <2>1. w = CHOOSE g : g = [n \in 0..depth |->
                             IF n = 0 THEN {root} ELSE Image(g[n - 1])]
    BY DEF Levels
  <2> HIDE DEF f, w, Image
  <2> QED
    BY <1>3, <2>1
<1> HIDE DEF w
<1>5. \A n \in 0..depth : w[n] = IF n = 0 THEN {root} ELSE Image(w[n - 1])
  BY <1>4
<1> HIDE DEF Image
<1> DEFINE S == {n \in Nat : n <= depth => w[n] = At(n)}
<1>6. 0 \in S
  <2>1. w[0] = {root}
    BY <1>5
  <2> QED
    BY <1>1, <2>1
<1>7. ASSUME NEW n \in Nat, n \in S
      PROVE  n + 1 \in S
  <2>1. CASE n + 1 <= depth
    <3>1. w[n] = At(n) /\ n + 1 \in 0..depth /\ n + 1 # 0 /\ (n + 1) - 1 = n
      BY <1>7, <2>1
    <3>2. w[n + 1] = Image(w[(n + 1) - 1])
      BY <1>5, <3>1
    <3>3. w[n + 1] = At(n + 1)
      BY <1>2, <3>1, <3>2
    <3> QED
      BY <3>3
  <2>2. CASE ~(n + 1 <= depth)
    BY <2>2
  <2> QED
    BY <2>1, <2>2
<1>8. k \in S
  <2> HIDE DEF S
  <2>1. Nat \subseteq S
    BY <1>6, <1>7, SetInduction
  <2> QED
    BY <2>1
<1> QED
  BY <1>8 DEF w, At

-----------------------------------------------------------------------------
(* Graphs *)

Fed == {z \in Dataset \X Dataset : Feeds(z[1], z[2])}

LEMMA ChainIsPath ==
  ASSUME NEW a \in Dataset, NEW b \in Dataset, NEW n \in Nat
  PROVE  Chain(a, b, n) <=> PathOf(Fed, a, b, n)
<1>1. ASSUME NEW q \in [1..n + 1 -> Dataset]
      PROVE  (\A i \in 1..n : Feeds(q[i], q[i + 1]))
               <=> \A i \in 1..n : <<q[i], q[i + 1]>> \in Fed
  <2>1. \A i \in 1..n : q[i] \in Dataset /\ q[i + 1] \in Dataset
    OBVIOUS
  <2> QED
    BY <2>1 DEF Fed
<1> QED
  BY <1>1 DEF Chain, PathOf

\* An edge is a line of an accepted event.
LEMMA EdgeOfAccepted ==
  ASSUME IngestInvariant, NEW y
  PROVE  y \in edge <=>
           \E e \in accepted : \E i \in DOMAIN Refs[e] :
             y = [run |-> RunOf[e], role |-> Refs[e][i].role,
                  dataset |-> Refs[e][i].dataset]
BY DEF IngestInvariant, RecordedIffAccepted, EdgesOf, EdgeOf

\* The joins of the query and the reports of the events give the same pairs.
LEMMA JoinIsFed ==
  ASSUME IngestInvariant, NEW d \in Dataset, NEW c \in Dataset
  PROVE  Feeds(d, c) <=>
           \E x, y \in edge : /\ x.run = y.run
                              /\ x.role = "input" /\ x.dataset = d
                              /\ y.role = "output" /\ y.dataset = c
<1>0. accepted \subseteq Event
  BY DEF IngestInvariant, TypeOK
<1>1. ASSUME Feeds(d, c)
      PROVE  \E x, y \in edge : /\ x.run = y.run
                                /\ x.role = "input" /\ x.dataset = d
                                /\ y.role = "output" /\ y.dataset = c
  <2>1. PICK e \in accepted, f \in accepted :
          /\ RunOf[e] = RunOf[f]
          /\ \E i \in DOMAIN Refs[e] : Refs[e][i] = [role |-> "input", dataset |-> d]
          /\ \E i \in DOMAIN Refs[f] : Refs[f][i] = [role |-> "output", dataset |-> c]
    BY <1>1 DEF Feeds
  <2> DEFINE x == [run |-> RunOf[e], role |-> "input", dataset |-> d]
             y == [run |-> RunOf[f], role |-> "output", dataset |-> c]
  <2>2. x \in edge
    BY <2>1, EdgeOfAccepted
  <2>3. y \in edge
    BY <2>1, EdgeOfAccepted
  <2> QED
    BY <2>1, <2>2, <2>3
<1>2. ASSUME NEW x \in edge, NEW y \in edge, x.run = y.run,
             x.role = "input", x.dataset = d, y.role = "output", y.dataset = c
      PROVE  Feeds(d, c)
  <2>1a. PICK e \in accepted : \E i \in DOMAIN Refs[e] :
           x = [run |-> RunOf[e], role |-> Refs[e][i].role,
                dataset |-> Refs[e][i].dataset]
    BY EdgeOfAccepted
  <2>1. PICK i \in DOMAIN Refs[e] :
          x = [run |-> RunOf[e], role |-> Refs[e][i].role,
               dataset |-> Refs[e][i].dataset]
    BY <2>1a
  <2>2a. PICK f \in accepted : \E j \in DOMAIN Refs[f] :
           y = [run |-> RunOf[f], role |-> Refs[f][j].role,
                dataset |-> Refs[f][j].dataset]
    BY EdgeOfAccepted
  <2>2. PICK j \in DOMAIN Refs[f] :
          y = [run |-> RunOf[f], role |-> Refs[f][j].role,
               dataset |-> Refs[f][j].dataset]
    BY <2>2a
  <2>3. Refs[e][i] \in DatasetRef /\ Refs[f][j] \in DatasetRef
    BY <1>0, EventFacts
  <2>4. Refs[e][i] = [role |-> "input", dataset |-> d]
    BY <1>2, <2>1, <2>3 DEF DatasetRef
  <2>5. Refs[f][j] = [role |-> "output", dataset |-> c]
    BY <1>2, <2>2, <2>3 DEF DatasetRef
  <2>6. RunOf[e] = RunOf[f]
    BY <1>2, <2>1, <2>2
  <2> QED
    BY <2>4, <2>5, <2>6 DEF Feeds
<1> QED
  BY <1>1, <1>2

Pairs(from, to) ==
  {<<z[1].dataset, z[2].dataset>> :
     z \in {y \in edge \X edge :
              y[1].run = y[2].run /\ y[1].role = from /\ y[2].role = to}}

LEMMA JoinPairs ==
  ASSUME NEW from, NEW to, NEW a, NEW b
  PROVE  <<a, b>> \in Pairs(from, to)
           <=> \E x, y \in edge : /\ x.run = y.run
                                 /\ x.role = from /\ x.dataset = a
                                 /\ y.role = to /\ y.dataset = b
<1> DEFINE P == {y \in edge \X edge : /\ y[1].run = y[2].run
                                     /\ y[1].role = from
                                     /\ y[2].role = to}
<1>1. ASSUME NEW z \in P, <<a, b>> = <<z[1].dataset, z[2].dataset>>
      PROVE  \E x, y \in edge : /\ x.run = y.run
                                /\ x.role = from /\ x.dataset = a
                                /\ y.role = to /\ y.dataset = b
  BY <1>1
<1>2. ASSUME NEW x \in edge, NEW y \in edge, x.run = y.run,
             x.role = from, x.dataset = a, y.role = to, y.dataset = b
      PROVE  \E z \in P : <<a, b>> = <<z[1].dataset, z[2].dataset>>
  <2>1. <<x, y>> \in P /\ <<x, y>>[1] = x /\ <<x, y>>[2] = y
    BY <1>2
  <2> HIDE DEF P
  <2> QED
    BY <1>2, <2>1
<1>3. <<a, b>> \in Pairs(from, to) <=>
        \E z \in P : <<a, b>> = <<z[1].dataset, z[2].dataset>>
  BY DEF Pairs
<1> HIDE DEF P
<1> QED
  BY <1>1, <1>2, <1>3

LEMMA HopsAreFed ==
  ASSUME IngestInvariant
  PROVE  /\ Hops("downstream") = Fed
         /\ Hops("upstream") \in SUBSET (Dataset \X Dataset)
         /\ \A d, c \in Dataset : <<c, d>> \in Hops("upstream") <=> <<d, c>> \in Fed
<1>1. edge \subseteq Edge
  BY DEF IngestInvariant, TypeOK
<1>2. Hops("downstream") = Pairs("input", "output")
  BY DEF Hops, Pairs
<1>3. Hops("upstream") = Pairs("output", "input")
  BY DEF Hops, Pairs
<1>4. /\ Hops("downstream") \in SUBSET (Dataset \X Dataset)
      /\ Hops("upstream") \in SUBSET (Dataset \X Dataset)
  BY <1>1, <1>2, <1>3 DEF Edge, Pairs
<1>5. ASSUME NEW d \in Dataset, NEW c \in Dataset
      PROVE  /\ <<d, c>> \in Hops("downstream") <=> Feeds(d, c)
             /\ <<c, d>> \in Hops("upstream") <=> Feeds(d, c)
  <2>1. <<d, c>> \in Hops("downstream") <=>
          \E x, y \in edge : /\ x.run = y.run
                             /\ x.role = "input" /\ x.dataset = d
                             /\ y.role = "output" /\ y.dataset = c
    BY <1>2, JoinPairs
  <2>2. <<c, d>> \in Hops("upstream") <=>
          \E y, x \in edge : /\ y.run = x.run
                             /\ y.role = "output" /\ y.dataset = c
                             /\ x.role = "input" /\ x.dataset = d
    BY <1>3, JoinPairs
  <2>3. Feeds(d, c) <=>
          \E x, y \in edge : /\ x.run = y.run
                             /\ x.role = "input" /\ x.dataset = d
                             /\ y.role = "output" /\ y.dataset = c
    BY JoinIsFed
  <2>4. <<c, d>> \in Hops("upstream") <=> Feeds(d, c)
    BY <2>2, <2>3
  <2> QED
    BY <2>1, <2>3, <2>4
<1>6. Hops("downstream") = Fed
  <2>1. ASSUME NEW z \in Dataset \X Dataset
        PROVE  z \in Hops("downstream") <=> z \in Fed
    <3>1. z = <<z[1], z[2]>> /\ z[1] \in Dataset /\ z[2] \in Dataset
      OBVIOUS
    <3>2. <<z[1], z[2]>> \in Hops("downstream") <=> Feeds(z[1], z[2])
      BY <1>5, <3>1
    <3> QED
      BY <3>1, <3>2 DEF Fed
  <2>2. Fed \subseteq Dataset \X Dataset
    BY DEF Fed
  <2> QED
    BY <1>4, <2>1, <2>2
<1> QED
  BY <1>4, <1>5, <1>6 DEF Fed

\* What MIN(depth) makes of the levels.
LEMMA GraphIsLeast ==
  ASSUME NEW dir, Hops(dir) \in SUBSET (Dataset \X Dataset),
         NEW root \in Dataset, NEW depth \in Nat
  PROVE  Graph(dir, root, depth) =
           {z \in Dataset \X (1..depth) :
              /\ PathOf(Hops(dir), root, z[1], z[2])
              /\ \A k \in 1..z[2] - 1 : ~PathOf(Hops(dir), root, z[1], k)}
<1> DEFINE H == Hops(dir)
           walk == Walk(dir, root, depth)
           level == Levels(H, root, depth)
<1>1. \A k \in 1..depth : level[k] = {c \in Dataset : PathOf(H, root, c, k)}
  BY LevelsArePaths
<1>2. walk = UNION {{<<d, k>> : d \in level[k]} : k \in 1..depth}
  BY DEF Walk
<1> HIDE DEF H, level
<1>3. walk = {z \in Dataset \X (1..depth) : PathOf(H, root, z[1], z[2])}
  BY <1>1, <1>2
<1>4. Graph(dir, root, depth) =
        {x \in walk : \A y \in walk : x[1] = y[1] => x[2] <= y[2]}
  BY DEF Graph
<1> HIDE DEF walk
<1>5. ASSUME NEW x \in walk
      PROVE  (\A y \in walk : x[1] = y[1] => x[2] <= y[2])
               <=> \A k \in 1..x[2] - 1 : ~PathOf(H, root, x[1], k)
  <2>1. x[1] \in Dataset /\ x[2] \in 1..depth
    BY <1>3
  <2>2. ASSUME NEW k \in 1..x[2] - 1, PathOf(H, root, x[1], k)
        PROVE  \E y \in walk : x[1] = y[1] /\ ~(x[2] <= y[2])
    <3>1. k \in 1..depth /\ ~(x[2] <= k)
      BY <2>1
    <3>2. <<x[1], k>> \in walk
      BY <1>3, <2>1, <2>2, <3>1
    <3> QED
      BY <3>1, <3>2
  <2>3. ASSUME NEW y \in walk, x[1] = y[1], ~(x[2] <= y[2])
        PROVE  \E k \in 1..x[2] - 1 : PathOf(H, root, x[1], k)
    <3>1. y[2] \in 1..depth /\ PathOf(H, root, y[1], y[2])
      BY <1>3
    <3>2. y[2] \in 1..x[2] - 1
      BY <2>1, <2>3, <3>1
    <3> QED
      BY <2>3, <3>1, <3>2
  <2> QED
    BY <2>2, <2>3
<1> QED
  BY <1>3, <1>4, <1>5 DEF H

LEMMA GraphsAreShortest ==
  ASSUME IngestInvariant
  PROVE  GraphIsShortestChain
<1> SUFFICES ASSUME NEW root \in Dataset, NEW depth \in 1..MaxDepth
             PROVE  /\ Graph("upstream", root, depth) =
                         {z \in Dataset \X (1..depth) : Shortest(z[1], root, z[2])}
                    /\ Graph("downstream", root, depth) =
                         {z \in Dataset \X (1..depth) : Shortest(root, z[1], z[2])}
  BY DEF GraphIsShortestChain
<1>1. depth \in Nat
  BY LineageBounds
<1>2. ASSUME NEW d \in Dataset, NEW n \in Nat
      PROVE  /\ PathOf(Hops("downstream"), root, d, n) <=> Chain(root, d, n)
             /\ PathOf(Hops("upstream"), root, d, n) <=> Chain(d, root, n)
  <2>1. PathOf(Hops("downstream"), root, d, n) <=> Chain(root, d, n)
    BY <1>2, HopsAreFed, ChainIsPath
  <2>2. PathOf(Hops("upstream"), root, d, n) => PathOf(Fed, d, root, n)
    BY <1>2, HopsAreFed, PathReverse
  <2>3. PathOf(Fed, d, root, n) => PathOf(Hops("upstream"), root, d, n)
    BY <1>2, HopsAreFed, PathReverse
  <2> QED
    BY <1>2, <2>1, <2>2, <2>3, ChainIsPath
<1>3. ASSUME NEW z \in Dataset \X (1..depth)
      PROVE  /\ z[1] \in Dataset /\ z[2] \in Nat /\ 1..z[2] - 1 \subseteq Nat
  BY <1>1
<1>4. ASSUME NEW z \in Dataset \X (1..depth)
      PROVE  /\ Shortest(root, z[1], z[2]) <=>
                  /\ PathOf(Hops("downstream"), root, z[1], z[2])
                  /\ \A k \in 1..z[2] - 1 :
                       ~PathOf(Hops("downstream"), root, z[1], k)
             /\ Shortest(z[1], root, z[2]) <=>
                  /\ PathOf(Hops("upstream"), root, z[1], z[2])
                  /\ \A k \in 1..z[2] - 1 :
                       ~PathOf(Hops("upstream"), root, z[1], k)
  BY <1>2, <1>3 DEF Shortest
<1>5. Graph("downstream", root, depth) =
        {z \in Dataset \X (1..depth) : Shortest(root, z[1], z[2])}
  <2>1. Hops("downstream") \in SUBSET (Dataset \X Dataset)
    BY HopsAreFed DEF Fed
  <2> QED
    BY <1>1, <1>4, <2>1, GraphIsLeast
<1>6. Graph("upstream", root, depth) =
        {z \in Dataset \X (1..depth) : Shortest(z[1], root, z[2])}
  BY <1>1, <1>4, HopsAreFed, GraphIsLeast
<1> QED
  BY <1>5, <1>6

\* The upstream and downstream graphs hold each dataset at the length of the
\* shortest chain of runs, for every set of events and every depth: the joins
\* of the recursive query follow what the accepted events reported, cycles and
\* runs reported by several events included.
THEOREM GraphCorrect == Spec => []GraphIsShortestChain
<1>1. IngestInvariant => GraphIsShortestChain
  BY GraphsAreShortest
<1> QED
  BY <1>1, IngestCorrect, PTL

=============================================================================
