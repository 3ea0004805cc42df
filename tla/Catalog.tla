------------------------------ MODULE Catalog ------------------------------
(***************************************************************************)
(* metadata-service: the catalogue in PostgreSQL and its mirror in the     *)
(* AWS Glue Data Catalog.                                                  *)
(*                                                                         *)
(* Requests of all replicas interleave.  A statement sees what committed   *)
(* before it (READ COMMITTED); what a transaction has flushed stays locked *)
(* until the session dependency commits it, after the handler returned and *)
(* after the call to Glue, which no transaction covers.                    *)
(***************************************************************************)
EXTENDS Integers, Sequences, FiniteSets

CONSTANTS
  Database, Name,      \* database names, table names
  GlueName(_, _),      \* f"{db_name}__{table_name}"
  Column, NoColumn,
  Requests,            \* the update requests that clients send
  Session,             \* requests in service at one time
  MaxTables,           \* bound on tables ever created
  MaxFields,           \* bound on the columns of a table
  MaxVersions,         \* bound on the versions of a table
  MaxGlueFailures,     \* bound on calls to Glue that fail
  MaxAborts            \* bound on transactions rolled back

\* What update_table is asked for; at most one column of each kind.
Request ==
  {u \in [add: Column \cup {NoColumn}, drop: Column \cup {NoColumn},
          from: Column \cup {NoColumn}, to: Column \cup {NoColumn}] :
     u.from = NoColumn <=> u.to = NoColumn}
NoRequest == [add |-> NoColumn, drop |-> NoColumn,
              from |-> NoColumn, to |-> NoColumn]

ASSUME CatalogAssumption ==
  /\ NoColumn \notin Column
  /\ Requests \subseteq Request
  /\ {MaxTables, MaxFields, MaxVersions} \subseteq Nat
  /\ {MaxGlueFailures, MaxAborts} \subseteq Nat

VARIABLES
  databases,      \* committed rows of catalog_databases
  tables,         \* rows of catalog_tables with their schema_history
  glue,           \* marker entries in Glue
  session,        \* the open requests
  glueFailures, aborts,  \* history: failed calls, rollbacks
  lost, stray     \* history: entries with a cause to be missing, or to be there
                  \* in vain, since Glue was last set right

historyVars == <<glueFailures, aborts, lost, stray>>
vars == <<databases, tables, glue, session, historyVars>>

-----------------------------------------------------------------------------
Version == [version: Nat, fields: Seq(Column)]

\* A table is inserted, committed and dropped once: its table_id is a uuid.
\* fields is schema_json; history are its rows of schema_history.
Table == [db: Database, name: Name,
          state: {"inserted", "live", "dropped"},
          fields: Seq(Column), history: Seq(Version)]

\* table: the row it works on.  base: schema_json as update_table loaded it.
\* todo: what sync_glue has still to register.
Idle == [pc |-> "idle", table |-> 0, base |-> << >>, version |-> 0,
         request |-> NoRequest, todo |-> {}]

Work == [pc: {"idle", "register", "created", "delete", "unregister",
              "dropped", "version", "flush", "updated", "sync"},
         table: 0..MaxTables, base: Seq(Column), version: Nat,
         request: Request, todo: SUBSET (1..MaxTables)]

TypeOK ==
  /\ databases \subseteq Database
  /\ tables \in Seq(Table) /\ Len(tables) <= MaxTables
  /\ {glue, lost, stray} \subseteq SUBSET {GlueName(d, n) : d \in Database, n \in Name}
  /\ session \in [Session -> Work]
  /\ glueFailures \in 0..MaxGlueFailures
  /\ aborts \in 0..MaxAborts

Init ==
  /\ databases = {} /\ tables = << >> /\ glue = {}
  /\ session = [h \in Session |-> Idle]
  /\ glueFailures = 0 /\ aborts = 0 /\ lost = {} /\ stray = {}

Live(t) == tables[t].state = "live"
Entry(t) == GlueName(tables[t].db, tables[t].name)

\* Row t was inserted or deleted by a transaction that has not committed yet.
Changing(t) ==
  \E h \in Session :
    /\ session[h].table = t
    /\ session[h].pc \in {"register", "created", "unregister", "dropped"}

\* It was updated by one.  Inserts into its schema_history do not mind.
Updating(t) == \E h \in Session : session[h].table = t /\ session[h].pc = "updated"

Locked(t) == Changing(t) \/ Updating(t)

\* The row is gone, and its schema_history with it (ON DELETE CASCADE).
Gone(row) == [row EXCEPT !.state = "dropped", !.fields = << >>, !.history = << >>]

Goto(h, pc) == session' = [session EXCEPT ![h].pc = pc]
Finish(h) == session' = [session EXCEPT ![h] = Idle]

\* A call to Glue takes effect or not; the handler logs a failure and goes on.
GlueHas(entries) == glue' = entries /\ UNCHANGED glueFailures

GlueFails ==
  /\ glueFailures < MaxGlueFailures
  /\ glueFailures' = glueFailures + 1
  /\ UNCHANGED glue

-----------------------------------------------------------------------------
(* Databases *)

CreateDatabase(d) ==
  /\ d \notin databases
  /\ databases' = databases \cup {d}
  /\ UNCHANGED <<tables, glue, session, historyVars>>

\* The tables go with their database (ON DELETE CASCADE); Glue is not told.
\* The DELETE waits for transactions that have rows of the database locked.
DropDatabase(d) ==
  /\ d \in databases
  /\ \A t \in DOMAIN tables : tables[t].db = d => ~Locked(t)
  /\ databases' = databases \ {d}
  /\ tables' = [t \in DOMAIN tables |->
       IF tables[t].db = d THEN Gone(tables[t]) ELSE tables[t]]
  /\ stray' = stray \cup
       {Entry(t) : t \in {x \in DOMAIN tables : tables[x].db = d /\ Live(x)}}
  /\ UNCHANGED <<glue, session, glueFailures, aborts, lost>>

-----------------------------------------------------------------------------
(* create_table *)

\* Both INSERTs.  One of a name that exists, or that another transaction has
\* inserted or deleted but not committed, fails or waits.
Insert(h, d, n, c) ==
  /\ session[h] = Idle
  /\ Len(tables) < MaxTables
  /\ d \in databases
  /\ \A t \in DOMAIN tables :
       tables[t].db = d /\ tables[t].name = n => tables[t].state = "dropped"
  /\ tables' = Append(tables,
       [db |-> d, name |-> n, state |-> "inserted", fields |-> <<c>>,
        history |-> <<[version |-> 1, fields |-> <<c>>]>>])
  /\ session' = [session EXCEPT ![h].pc = "register",
                                ![h].table = Len(tables) + 1]
  /\ UNCHANGED <<databases, glue, historyVars>>

\* GlueCatalogClient.register_table; an entry that exists is left alone.
Register(h) ==
  /\ session[h].pc = "register"
  /\ LET e == Entry(session[h].table)
     IN \/ GlueHas(glue \cup {e}) /\ lost' = lost \ {e} /\ stray' = stray \ {e}
        \/ GlueFails /\ lost' = lost \cup {e} /\ UNCHANGED stray
  /\ Goto(h, "created")
  /\ UNCHANGED <<databases, tables, aborts>>

CommitCreate(h) ==
  /\ session[h].pc = "created"
  /\ tables' = [tables EXCEPT ![session[h].table].state = "live"]
  /\ Finish(h)
  /\ UNCHANGED <<databases, glue, historyVars>>

-----------------------------------------------------------------------------
(* drop_table *)

SelectForDrop(h, t) ==
  /\ session[h] = Idle
  /\ Live(t)
  /\ session' = [session EXCEPT ![h].pc = "delete", ![h].table = t]
  /\ UNCHANGED <<databases, tables, glue, historyVars>>

\* When the row is gone by now the DELETE matches none: SQLAlchemy warns, and
\* the handler goes on to Glue all the same.
Delete(h) ==
  /\ session[h].pc = "delete"
  /\ ~Locked(session[h].table)
  /\ Goto(h, "unregister")
  /\ UNCHANGED <<databases, tables, glue, historyVars>>

\* Mutant: the entry in Glue is left to the synchronisation.
UnregisterSkipped(h) ==
  /\ session[h].pc = "unregister"
  /\ Goto(h, "dropped")
  /\ UNCHANGED <<databases, tables, glue, historyVars>>

\* Another row stands for the entry of t: a table of the same name created since,
\* or one of another database, as "a" and "b__c" share theirs with "a__b" and "c".
Taken(t) ==
  \E s \in DOMAIN tables \ {t} : tables[s].state # "dropped" /\ Entry(s) = Entry(t)

\* GlueCatalogClient.drop_table, by name.
Unregister(h) ==
  /\ session[h].pc = "unregister"
  /\ LET t == session[h].table
         e == Entry(t)
     IN \/ /\ GlueHas(glue \ {e})
           /\ stray' = stray \ {e}
           /\ lost' = IF Taken(t) THEN lost \cup {e} ELSE lost
        \/ GlueFails /\ stray' = stray \cup {e} /\ UNCHANGED lost
  /\ Goto(h, "dropped")
  /\ UNCHANGED <<databases, tables, aborts>>

\* Mutant: the session is closed without a COMMIT.
CommitDropForgotten(h) ==
  /\ session[h].pc = "dropped"
  /\ Finish(h)
  /\ UNCHANGED <<databases, tables, glue, historyVars>>

CommitDrop(h) ==
  /\ session[h].pc = "dropped"
  /\ tables' = [tables EXCEPT ![session[h].table] = Gone(@)]
  /\ Finish(h)
  /\ UNCHANGED <<databases, glue, historyVars>>

-----------------------------------------------------------------------------
(* update_table: the columns a request leaves. *)

\* Mutant: a request that adds no column adds an empty one.
AddedAlways(fields, u) == Append(fields, u.add)

Added(fields, u) ==
  IF u.add = NoColumn THEN fields ELSE Append(fields, u.add)

\* [f for f in fields if f["name"] != col_name]
Without(fields, c) ==
  LET kept[n \in 0..Len(fields)] ==
        IF n = 0 THEN << >>
        ELSE IF fields[n] = c THEN kept[n - 1] ELSE Append(kept[n - 1], fields[n])
  IN kept[Len(fields)]

Dropped(fields, u) ==
  IF u.drop = NoColumn THEN fields ELSE Without(fields, u.drop)

\* The first column of that name is renamed.
Renamed(fields, u) ==
  [i \in DOMAIN fields |->
     IF fields[i] = u.from /\ \A k \in 1..(i - 1) : fields[k] # u.from
     THEN u.to ELSE fields[i]]

Evolved(fields, u) == Renamed(Dropped(Added(fields, u), u), u)

\* Mutant: a dropped column is not noted as a change.
ChangesIgnoringDrops(fields, u) ==
  \/ u.add # NoColumn
  \/ \E i \in DOMAIN Dropped(Added(fields, u), u) :
       Dropped(Added(fields, u), u)[i] = u.from

\* The list `changes` of the handler is not empty.
Changes(fields, u) ==
  \/ u.add # NoColumn
  \/ u.drop # NoColumn
  \/ \E i \in DOMAIN Dropped(Added(fields, u), u) :
       Dropped(Added(fields, u), u)[i] = u.from

\* Whether the flush writes schema_json.  .copy() is shallow: added columns are
\* appended to the list inside the loaded value and renamed ones are renamed in
\* it, so it compares equal to the new value unless a column was taken out.
Flushed(fields, u) == Dropped(Added(fields, u), u) # Added(fields, u)

SelectForUpdate(h, t, u) ==
  /\ session[h] = Idle
  /\ Live(t)
  /\ u.add # NoColumn => Len(tables[t].fields) < MaxFields
  /\ Len(tables[t].history) < MaxVersions
  /\ session' = [session EXCEPT ![h].pc = "version", ![h].table = t,
       ![h].base = tables[t].fields, ![h].request = u]
  /\ UNCHANGED <<databases, tables, glue, historyVars>>

Numbers(row) == {row.history[i].version : i \in DOMAIN row.history}

\* max(version), or 0 when there is none.
LatestVersion(t) ==
  CHOOSE v \in Numbers(tables[t]) \cup {0} : \A n \in Numbers(tables[t]) : n <= v

\* Mutant: the versions are counted, not looked at.
SelectVersionByCount(h) ==
  /\ session[h].pc = "version"
  /\ session' = [session EXCEPT ![h].pc = "flush",
       ![h].version = Len(tables[session[h].table].history) + 1]
  /\ UNCHANGED <<databases, tables, glue, historyVars>>

\* select(func.max(SchemaHistory.version)).  A schema_json that has to be written
\* is flushed before the SELECT, and keeps the row locked from then on; when the
\* row is gone by now the UPDATE matches none (StaleDataError).  Without one the
\* versions are looked up without a lock.
SelectVersion(h) ==
  LET w == session[h]
      flushed == Flushed(w.base, w.request)
  IN /\ w.pc = "version"
     /\ flushed => ~Locked(w.table)
     /\ IF flushed /\ ~Live(w.table) THEN Finish(h)
        ELSE session' = [session EXCEPT
               ![h].pc = IF flushed THEN "updated" ELSE "flush",
               ![h].version = LatestVersion(w.table) + 1]
     /\ UNCHANGED <<databases, tables, glue, historyVars>>

\* The INSERT, and the COMMIT that follows.  For a table dropped in the meantime
\* it fails (foreign key) and is rolled back.
StoreUpdate(h) ==
  LET w == session[h]
      recorded == [version |-> w.version, fields |-> Evolved(w.base, w.request)]
  IN /\ w.pc \in {"flush", "updated"}
     /\ ~Changing(w.table)
     /\ tables' = IF ~Live(w.table) THEN tables
          ELSE [tables EXCEPT
            ![w.table].fields = IF w.pc = "updated" THEN recorded.fields ELSE @,
            ![w.table].history =
               IF Changes(w.base, w.request) THEN Append(@, recorded) ELSE @]
     /\ Finish(h)
     /\ UNCHANGED <<databases, glue, historyVars>>

-----------------------------------------------------------------------------
(* POST /databases/{db_name}/sync-glue *)

SelectForSync(h, d) ==
  /\ session[h] = Idle
  /\ d \in databases
  /\ session' = [session EXCEPT ![h].pc = "sync",
       ![h].todo = {t \in DOMAIN tables : Live(t) /\ tables[t].db = d}]
  /\ UNCHANGED <<databases, tables, glue, historyVars>>

\* Table t is gone, or about to go with its entry already taken out of Glue.
Outlived(t) ==
  ~Live(t) \/ \E h \in Session : session[h].table = t /\ session[h].pc = "dropped"

\* One register_table after the other, for the rows that were selected.
SyncNext(h) ==
  /\ session[h].pc = "sync"
  /\ \/ \E t \in session[h].todo :
          /\ session' = [session EXCEPT ![h].todo = @ \ {t}]
          /\ \/ /\ GlueHas(glue \cup {Entry(t)})
                /\ lost' = lost \ {Entry(t)}
                /\ stray' = IF Outlived(t) THEN stray \cup {Entry(t)} ELSE stray
             \/ GlueFails /\ UNCHANGED <<lost, stray>>
     \/ /\ session[h].todo = {}
        /\ Finish(h)
        /\ UNCHANGED <<glue, glueFailures, lost, stray>>
  /\ UNCHANGED <<databases, tables, aborts>>

\* The transaction fails or its COMMIT does: get_db rolls back, Glue keeps
\* what it was told.
Abort(h) ==
  /\ session[h] # Idle
  /\ aborts < MaxAborts
  /\ aborts' = aborts + 1
  /\ tables' = IF session[h].pc \in {"register", "created"}
               THEN [tables EXCEPT ![session[h].table] = Gone(@)]
               ELSE tables
  /\ LET w == session[h]
     IN /\ stray' = IF w.pc = "created" THEN stray \cup {Entry(w.table)} ELSE stray
        /\ lost' = IF w.pc = "dropped" THEN lost \cup {Entry(w.table)} ELSE lost
  /\ Finish(h)
  /\ UNCHANGED <<databases, glue, glueFailures>>

-----------------------------------------------------------------------------
TableRequest(h) ==
  \/ \E d \in Database, n \in Name, c \in Column : Insert(h, d, n, c)
  \/ \E t \in DOMAIN tables : SelectForDrop(h, t)
  \/ \E t \in DOMAIN tables, u \in Requests : SelectForUpdate(h, t, u)
  \/ \E d \in Database : SelectForSync(h, d)

SessionStep(h) ==
  \/ Register(h) \/ CommitCreate(h)
  \/ Delete(h) \/ Unregister(h) \/ CommitDrop(h)
  \/ SelectVersion(h) \/ StoreUpdate(h)
  \/ SyncNext(h) \/ Abort(h)

Next ==
  \/ \E d \in Database : CreateDatabase(d) \/ DropDatabase(d)
  \/ \E h \in Session : TableRequest(h) \/ SessionStep(h)

Spec == Init /\ [][Next]_vars

-----------------------------------------------------------------------------
(* Properties *)

\* The versions of a table are numbered from 1 without a gap, although they are
\* counted without a lock and requests fail half way; two may share a number.
VersionsContiguous ==
  \A t \in DOMAIN tables : Numbers(tables[t]) = 1..LatestVersion(t)

\* The stored schema is always one the history records, whichever of several
\* overlapping updates wins.
SchemaRecorded ==
  \A t \in DOMAIN tables : Live(t) =>
    \E i \in DOMAIN tables[t].history :
      tables[t].history[i].fields = tables[t].fields

\* What makes the two so.  It is about rows that will be committed, too: a new
\* row has one creator, and an update that has a live table holds a number that
\* follows one of the table's, or 1, and is flushed only with a change to record.
RowSound(row) ==
  /\ \E n \in 0..Len(row.history) : Numbers(row) = 1..n
  /\ row.state # "dropped" =>
       \E i \in DOMAIN row.history : row.history[i].fields = row.fields

Creates(w) == w.pc \in {"register", "created"}

WorkSound(w, row) ==
  /\ Creates(w) <=> row.state = "inserted"
  /\ w.pc \in {"flush", "updated"} /\ row.state = "live" =>
       w.version - 1 \in Numbers(row) \cup {0}
  /\ w.pc = "updated" => Flushed(w.base, w.request)

Engaged(w) == w.pc \notin {"idle", "sync"}

CatalogInvariant ==
  /\ \A t \in DOMAIN tables : RowSound(tables[t])
  /\ \A h \in Session : Engaged(session[h]) =>
       /\ session[h].table \in DOMAIN tables
       /\ WorkSound(session[h], tables[session[h].table])
  /\ \A g, h \in Session :
       Creates(session[g]) /\ Creates(session[h]) /\ session[g].table = session[h].table
         => g = h

\* Committed tables that Glue does not know of, no request on them being open.
Unmirrored ==
  {t \in DOMAIN tables : Live(t) /\ ~Changing(t) /\ Entry(t) \notin glue}

\* No interleaving alone takes a table out of Glue: since its entry was last
\* set right, each one that is missing there had a failed call, a drop that was
\* rolled back, or the drop of another table, one that shares its entry or a
\* predecessor dropped twice: what has the entry now is unregistered by name.
MissingEntriesAccounted == {Entry(t) : t \in Unmirrored} \subseteq lost

\* Entries of Glue that stand for no table, not even for one that a request is
\* about to commit or to drop.
Superfluous == glue \ {Entry(t) : t \in {x \in DOMAIN tables : Live(x) \/ Changing(x)}}

\* Nor does an interleaving alone leave one there: since it was last set right,
\* each had a failed call, a create that was rolled back, a table that went with
\* its database, or a synchronisation that registered it after the drop of its
\* table had unregistered it.
SuperfluousEntriesAccounted == Superfluous \subseteq stray

\* architecture.md 5.1: "Table schema is stored as JSON (schema_json) and
\* updated via schema evolution API"; so, once no update is open, the stored
\* schema is the one the latest version records.
LatestVersionStored ==
  (\A h \in Session : session[h] = Idle) =>
    \A t \in DOMAIN tables : Live(t) =>
      \E i \in DOMAIN tables[t].history :
        /\ tables[t].history[i].version = LatestVersion(t)
        /\ tables[t].history[i].fields = tables[t].fields

\* architecture.md 5.1: "table create/drop operations are mirrored to the AWS
\* Glue Data Catalog", "best-effort"; so without a failure Glue has an entry
\* for every table and for nothing else.
GlueMirrorsCatalog ==
  (\A h \in Session : session[h] = Idle) /\ glueFailures + aborts = 0 =>
    glue = {Entry(t) : t \in {x \in DOMAIN tables : Live(x)}}

\* update_table: "Get latest version", and the next one is numbered after it.
VersionsDistinct ==
  \A t \in DOMAIN tables : \A i, k \in DOMAIN tables[t].history :
    tables[t].history[i].version = tables[t].history[k].version => i = k

=============================================================================
