------------------------------ MODULE Lineage ------------------------------
(***************************************************************************)
(* lineage-service: the ingestion of events by concurrent requests, and    *)
(* the graph the stored edges make (services/lineage_service.py,           *)
(* routers/lineage.py, migration 0003).                                    *)
(*                                                                         *)
(* A request is one READ COMMITTED transaction, split at the SELECT of the *)
(* run, the write of the run, each dataset with its edge, and COMMIT.      *)
(* What it wrote is its own, and locks the rows, until it commits.         *)
(***************************************************************************)
EXTENDS LineageEvents

CONSTANTS
  Request,         \* concurrent requests
  MaxDeliveries,   \* bound on how often one event is posted
  MaxFaults,       \* bound on transactions that fail
  MaxDepth         \* bound on the max_depth of a graph query (10 in the route)

ASSUME LineageBounds ==
  MaxDeliveries \in Nat /\ MaxFaults \in Nat /\ MaxDepth \in Nat \ {0}

VARIABLES
  run,        \* committed rows of lineage_runs
  dataset,    \* lineage_datasets: the events each row has facets of, {} for no row
  edge,       \* committed rows of lineage_run_inputs and _outputs
  request,    \* the transactions in progress
  posted,     \* how often each event was posted
  faults,     \* faults so far
  accepted,   \* history: events answered 201
  refused     \* history: events refused for a duplicate run_id

vars == <<run, dataset, edge, request, posted, faults, accepted, refused>>

-----------------------------------------------------------------------------
(* db/models.py *)

NoRun == [state |-> "none", named |-> FALSE,
          started |-> NoEvent, ended |-> NoEvent, facets |-> {}]

LineageRun == [state: EventType \cup {"none"}, named: BOOLEAN,
               started: Event \cup {NoEvent}, ended: Event \cup {NoEvent},
               facets: SUBSET Event]

Idle == [pc |-> "idle", event |-> NoEvent, seen |-> NoRun, row |-> NoRun, done |-> 0]

\* seen: the row as selected; row: the row as written, NoRun for not written;
\* done: how many datasets are upserted and linked.
Transaction == [pc: {"idle", "write", "link"}, event: Event \cup {NoEvent},
                seen: LineageRun, row: LineageRun, done: Nat]

TypeOK ==
  /\ run \in [Run -> LineageRun]
  /\ dataset \in [Dataset -> SUBSET Event]
  /\ edge \subseteq Edge
  /\ request \in [Request -> Transaction]
  /\ posted \in [Event -> 0..MaxDeliveries]
  /\ faults \in 0..MaxFaults
  /\ accepted \subseteq Event
  /\ refused \subseteq Event

Init ==
  /\ run = [r \in Run |-> NoRun]
  /\ dataset = [d \in Dataset |-> {}]
  /\ edge = {}
  /\ request = [q \in Request |-> Idle]
  /\ posted = [e \in Event |-> 0]
  /\ faults = 0
  /\ accepted = {}
  /\ refused = {}

-----------------------------------------------------------------------------
(* Row locks *)

Busy(q) == request[q].pc # "idle"

\* The dataset a transaction has to upsert next.
More(q) == request[q].pc = "link" /\ request[q].done < Len(Refs[request[q].event])

NextRef(q) == Refs[request[q].event][request[q].done + 1]

\* Rows of lineage_runs and lineage_datasets that a transaction has written.
HoldsRun(q, r) ==
  Busy(q) /\ request[q].row # NoRun /\ RunOf[request[q].event] = r

HoldsDataset(q, d) ==
  Busy(q) /\ \E i \in 1..request[q].done : Refs[request[q].event][i].dataset = d

RunFree(q, r) == \A p \in Request \ {q} : ~HoldsRun(p, r)

DatasetFree(q, d) == \A p \in Request \ {q} : ~HoldsDataset(p, d)

-----------------------------------------------------------------------------
(* LineageService.ingest *)

Receive(q, e) ==
  /\ ~Busy(q)
  /\ posted[e] < MaxDeliveries
  /\ posted' = [posted EXCEPT ![e] = @ + 1]
  /\ request' = [request EXCEPT ![q] = [Idle EXCEPT
                   !.pc = "write", !.event = e, !.seen = run[RunOf[e]]]]
  /\ UNCHANGED <<run, dataset, edge, faults, accepted, refused>>

\* Mutant: ended_at gets the type of the event.
AppliedMistyped(old, e) ==
  [state |-> TypeOf[e],
   named |-> old.named \/ e \in Named,
   started |-> IF TypeOf[e] = "START" THEN e ELSE old.started,
   ended |-> IF TypeOf[e] \in TerminalStates THEN TypeOf[e] ELSE old.ended,
   facets |-> old.facets \cup {e}]

\* The attributes an event sets on a row, or gives a new one.
Applied(old, e) ==
  [state |-> TypeOf[e],
   named |-> old.named \/ e \in Named,
   started |-> IF TypeOf[e] = "START" THEN e ELSE old.started,
   ended |-> IF TypeOf[e] \in TerminalStates THEN e ELSE old.ended,
   facets |-> old.facets \cup {e}]

\* An UPDATE names the columns whose value differs from the selected one; the
\* others keep what is committed by then.
Updated(current, old, new) ==
  [state |-> IF new.state = old.state THEN current.state ELSE new.state,
   named |-> IF new.named = old.named THEN current.named ELSE new.named,
   started |-> IF new.started = old.started THEN current.started ELSE new.started,
   ended |-> IF new.ended = old.ended THEN current.ended ELSE new.ended,
   facets |-> IF new.facets = old.facets THEN current.facets ELSE new.facets]

Wrote(q, row) ==
  /\ request' = [request EXCEPT ![q].pc = "link", ![q].row = row]
  /\ UNCHANGED <<run, dataset, edge, posted, faults, accepted, refused>>

\* Mutant: the row is updated from the selected copy alone, all columns.
UpdateRunStale(q) ==
  LET e == request[q].event
      old == request[q].seen
  IN /\ request[q].pc = "write" /\ old # NoRun
     /\ RunFree(q, RunOf[e])
     /\ Wrote(q, Applied(old, e))

UpdateRun(q) ==
  LET e == request[q].event
      old == request[q].seen
      new == Applied(old, e)
  IN /\ request[q].pc = "write" /\ old # NoRun
     /\ \/ new = old /\ Wrote(q, NoRun)
        \/ /\ new # old /\ RunFree(q, RunOf[e])
           /\ Wrote(q, Updated(run[RunOf[e]], old, new))

InsertRun(q) ==
  LET e == request[q].event
  IN /\ request[q].pc = "write" /\ request[q].seen = NoRun
     /\ RunFree(q, RunOf[e])
     /\ run[RunOf[e]] = NoRun
     /\ Wrote(q, Applied(NoRun, e))

\* Mutant: get_db has no except clause, the session stays as it is.
RollbackMissing(q) ==
  UNCHANGED <<run, dataset, edge, request, posted, accepted>>

\* db/__init__.py: an exception rolls the transaction back.
Rollback(q) ==
  /\ request' = [request EXCEPT ![q] = Idle]
  /\ UNCHANGED <<run, dataset, edge, posted, accepted>>

\* Another request inserted the run since the SELECT: duplicate key, 500.
InsertConflict(q) ==
  LET e == request[q].event
  IN /\ request[q].pc = "write" /\ request[q].seen = NoRun
     /\ RunFree(q, RunOf[e])
     /\ run[RunOf[e]] # NoRun
     /\ Rollback(q)
     /\ refused' = refused \cup {e}
     /\ UNCHANGED faults

\* Mutant: _link is outside of the transaction.
UpsertAndLinkAtOnce(q) ==
  /\ More(q)
  /\ DatasetFree(q, NextRef(q).dataset)
  /\ request' = [request EXCEPT ![q].done = @ + 1]
  /\ edge' = edge \cup {EdgeOf(request[q].event, request[q].done + 1)}
  /\ UNCHANGED <<run, dataset, posted, faults, accepted, refused>>

\* _upsert_dataset waits for the row; with it in hand nothing delays _link.
UpsertAndLink(q) ==
  /\ More(q)
  /\ DatasetFree(q, NextRef(q).dataset)
  /\ request' = [request EXCEPT ![q].done = @ + 1]
  /\ UNCHANGED <<run, dataset, edge, posted, faults, accepted, refused>>

\* Mutant: ON CONFLICT replaces the facets of the dataset.
CommitReplacing(q) ==
  LET e == request[q].event
  IN /\ request[q].pc = "link" /\ ~More(q)
     /\ run' = IF request[q].row = NoRun THEN run
               ELSE [run EXCEPT ![RunOf[e]] = request[q].row]
     /\ dataset' = [d \in Dataset |-> IF Names(e, d) THEN {e} ELSE dataset[d]]
     /\ edge' = edge \cup EdgesOf(e)
     /\ accepted' = accepted \cup {e}
     /\ request' = [request EXCEPT ![q] = Idle]
     /\ UNCHANGED <<posted, faults, refused>>

\* get_db commits: the written run, facets || excluded, edges unless present.
Commit(q) ==
  LET e == request[q].event
      linked == 1..request[q].done
  IN /\ request[q].pc = "link" /\ ~More(q)
     /\ run' = IF request[q].row = NoRun THEN run
               ELSE [run EXCEPT ![RunOf[e]] = request[q].row]
     /\ dataset' = [d \in Dataset |-> IF \E i \in linked : Refs[e][i].dataset = d
                                      THEN dataset[d] \cup {e} ELSE dataset[d]]
     /\ edge' = edge \cup {EdgeOf(e, i) : i \in linked}
     /\ accepted' = accepted \cup {e}
     /\ request' = [request EXCEPT ![q] = Idle]
     /\ UNCHANGED <<posted, faults, refused>>

-----------------------------------------------------------------------------
(* Failures *)

\* p holds the row q waits for.
Waits(q, p) ==
  /\ p # q
  /\ \/ /\ request[q].pc = "write"
        /\ Applied(request[q].seen, request[q].event) # request[q].seen
        /\ HoldsRun(p, RunOf[request[q].event])
     \/ More(q) /\ HoldsDataset(p, NextRef(q).dataset)

\* PostgreSQL aborts a transaction that waits, through others, for itself.
DeadlockVictim(q) ==
  /\ \E S \in SUBSET Request :
       /\ q \in S
       /\ \A p \in S : (\E w \in S : Waits(p, w)) /\ (\E w \in S : Waits(w, p))
  /\ Rollback(q)
  /\ UNCHANGED <<faults, refused>>

\* The client or the database goes away, or the process dies.
Fail(q) ==
  /\ Busy(q)
  /\ faults < MaxFaults
  /\ faults' = faults + 1
  /\ Rollback(q)
  /\ UNCHANGED refused

IngestStep(q) ==
  \/ UpdateRun(q) \/ InsertRun(q) \/ InsertConflict(q)
  \/ UpsertAndLink(q) \/ Commit(q) \/ DeadlockVictim(q)

Next ==
  \E q \in Request :
    \/ \E e \in Event : Receive(q, e)
    \/ IngestStep(q)
    \/ Fail(q)

Spec == Init /\ [][Next]_vars

\* The event loop runs every coroutine on, and PostgreSQL looks for deadlocks.
FairSpec == Spec /\ \A q \in Request : WF_vars(IngestStep(q))

-----------------------------------------------------------------------------
(* LineageService.graph and the routes that read *)

Direction == {"upstream", "downstream"}

\* The two joins of one step of the recursive query: a dataset, and another
\* that one run connects it to.
Hops(dir) ==
  LET from == IF dir = "upstream" THEN "output" ELSE "input"
      to == IF dir = "upstream" THEN "input" ELSE "output"
  IN {<<z[1].dataset, z[2].dataset>> :
        z \in {y \in edge \X edge :
                 y[1].run = y[2].run /\ y[1].role = from /\ y[2].role = to}}

\* The datasets each iteration of the recursive query comes to.
Levels(hops, root, depth) ==
  LET level[k \in 0..depth] ==
        IF k = 0 THEN {root}
        ELSE {h[2] : h \in {x \in hops : x[1] \in level[k - 1]}}
  IN level

\* Mutant: WHERE walk.depth <= :max_depth.
WalkTooFar(dir, root, depth) ==
  LET level == Levels(Hops(dir), root, depth + 1)
  IN UNION {{<<d, k>> : d \in level[k]} : k \in 1..depth + 1}

\* The rows <<dataset, depth>> of WITH RECURSIVE walk at depth > 0.
Walk(dir, root, depth) ==
  LET level == Levels(Hops(dir), root, depth)
  IN UNION {{<<d, k>> : d \in level[k]} : k \in 1..depth}

\* MIN(depth) ... GROUP BY namespace, name
Graph(dir, root, depth) ==
  LET walk == Walk(dir, root, depth)
  IN {x \in walk : \A y \in walk : x[1] = y[1] => x[2] <= y[2]}

\* GET /datasets/{namespace}/{name}
GetDataset(d) == IF dataset[d] = {} THEN "not_found" ELSE "dataset"

\* The routes in the order they are registered; the name of the first is a
\* path, and takes what follows it for a part of the name.
Answer(d, dir) ==
  LET routes == <<"dataset", "upstream", "downstream">>
      matches(route) == route \in {"dataset", dir}
      chosen == routes[CHOOSE i \in 1..3 : /\ matches(routes[i])
                                           /\ \A j \in 1..i - 1 : ~matches(routes[j])]
  IN IF chosen = "dataset" THEN "not_found" ELSE GetDataset(d)

-----------------------------------------------------------------------------
(* Properties *)

\* The edges and the dataset facets are those of the events that were answered
\* 201, each of them whole: no request that failed half-way left anything, and
\* no concurrent request took anything away.
RecordedIffAccepted ==
  /\ edge = UNION {EdgesOf(e) : e \in accepted}
  /\ \A d \in Dataset : dataset[d] = {e \in accepted : Names(e, d)}

Mine(r) == {e \in accepted : RunOf[e] = r}

\* A row that tells of the events in S.
TellsOf(row, S) ==
  /\ row # NoRun <=> S # {}
  /\ S # {} => \E e \in S : row.state = TypeOf[e]
  /\ row.started # NoEvent <=> \E e \in S : TypeOf[e] = "START"
  /\ row.ended # NoEvent <=> \E e \in S : TypeOf[e] \in TerminalStates
  /\ row.named <=> S \cap Named # {}
  /\ {row.started, row.ended} \subseteq S \cup {NoEvent}

\* A run has the state of one of its accepted events, and a start, an end and a
\* job id exactly when one of them gave it one, whatever the order in which the
\* requests selected and wrote the row.
RunTimesJustified == \A r \in Run : TellsOf(run[r], Mine(r))

\* What makes it so.  No two transactions have written the same run; what a
\* transaction selected is true of its run; and what it is about to commit
\* tells of the accepted events and of its own.
RunLockExclusive ==
  \A p, q \in Request, r \in Run : HoldsRun(p, r) /\ HoldsRun(q, r) => p = q

SeenStillTrue(q) ==
  LET seen == request[q].seen
      mine == Mine(RunOf[request[q].event])
  IN /\ seen # NoRun => mine # {}
     /\ {seen.started, seen.ended} \subseteq mine \cup {NoEvent}
     /\ seen.started # NoEvent => \E e \in mine : TypeOf[e] = "START"
     /\ seen.ended # NoEvent => \E e \in mine : TypeOf[e] \in TerminalStates
     /\ seen.named => mine \cap Named # {}

TellsOfOwn(q) ==
  LET r == RunOf[request[q].event]
  IN TellsOf(IF request[q].row = NoRun THEN run[r] ELSE request[q].row,
             Mine(r) \cup {request[q].event})

TransactionSound(q) ==
  /\ request[q].pc = "idle" => request[q] = Idle
  /\ Busy(q) => request[q].event \in Event /\ SeenStillTrue(q)
  /\ request[q].pc = "write" => request[q].row = NoRun /\ request[q].done = 0
  /\ request[q].pc = "link" =>
       TellsOfOwn(q) /\ request[q].done <= Len(Refs[request[q].event])

IngestInvariant ==
  /\ TypeOK
  /\ RecordedIffAccepted
  /\ RunTimesJustified
  /\ RunLockExclusive
  /\ \A q \in Request : TransactionSound(q)

\* Some run was reported to read d and to write c.
Feeds(d, c) ==
  \E e, f \in accepted :
    /\ RunOf[e] = RunOf[f]
    /\ \E i \in DOMAIN Refs[e] : Refs[e][i] = [role |-> "input", dataset |-> d]
    /\ \E i \in DOMAIN Refs[f] : Refs[f][i] = [role |-> "output", dataset |-> c]

\* n runs lead from d to c, each reads what the one before it writes.
Chain(d, c, n) ==
  \E q \in [1..n + 1 -> Dataset] :
    q[1] = d /\ q[n + 1] = c /\ \A i \in 1..n : Feeds(q[i], q[i + 1])

Shortest(d, c, n) == Chain(d, c, n) /\ \A k \in 1..n - 1 : ~Chain(d, c, k)

\* The upstream graph of c holds d at depth n exactly when the shortest chain
\* of runs that reads d and in the end writes c has n links, n <= max_depth;
\* and the downstream graph of d then holds c at depth n.
GraphIsShortestChain ==
  \A root \in Dataset, depth \in 1..MaxDepth :
    /\ Graph("upstream", root, depth) =
         {z \in Dataset \X (1..depth) : Shortest(z[1], root, z[2])}
    /\ Graph("downstream", root, depth) =
         {z \in Dataset \X (1..depth) : Shortest(root, z[1], z[2])}

\* Every request is answered: no lock is kept, and no one waits for ever.
EveryRequestAnswered == \A q \in Request : Busy(q) ~> ~Busy(q)

\* lineage_service.py:72: "Merge facets; keep newest wins", so the facets of no
\* event disappear.
RunFacetsMerged ==
  \A r \in Run : run[r].facets = {e \in accepted : RunOf[e] = r}

\* lineage_service.py:4: "A second event with the same runId UPDATEs the
\* existing row", so no event is refused for its run_id.
SecondEventUpdates == refused = {}

\* README.md:165: GET .../upstream and .../downstream of a dataset that exists
\* are answered with its graph.
GraphRoutesAnswer ==
  \A d \in Dataset, dir \in Direction : dataset[d] # {} => Answer(d, dir) # "not_found"

\* The tables as LineageStore describes them.
Store == INSTANCE LineageStore WITH
  runs <- {r \in Run : run[r] # NoRun},
  started <- {r \in Run : run[r].started # NoEvent},
  ended <- {r \in Run : run[r].ended # NoEvent},
  named <- {r \in Run : run[r].named},
  edges <- edge,
  facets <- dataset

\* Every behaviour of the interleaved transactions is one of atomic steps that
\* record one event each.
ImplementsStore == Store!Spec

=============================================================================
