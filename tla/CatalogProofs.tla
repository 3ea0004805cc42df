--------------------------- MODULE CatalogProofs ---------------------------
(***************************************************************************)
(* For any tables, requests and sessions of metadata-service: the versions *)
(* of a table are numbered without a gap, the stored schema is one that    *)
(* its history records, and what Glue has too little or too much has one   *)
(* of a few causes.                                                        *)
(***************************************************************************)
EXTENDS Catalog, SequenceTheorems, Induction, TLAPS

-----------------------------------------------------------------------------
(* The shape of sequences, rows and sessions.  The columns have no types in  *)
(* it: what is proved with it needs none, and their types come last.         *)

IsSeq(s) == Len(s) \in Nat /\ s = [i \in 1..Len(s) |-> s[i]]

IsRow(r) ==
  /\ r \in [db: {r.db}, name: {r.name}, state: {r.state},
            fields: {r.fields}, history: {r.history}]
  /\ IsSeq(r.history)

IsWork(w) ==
  /\ w \in [pc: {w.pc}, table: {w.table}, base: {w.base},
            version: {w.version}, request: {w.request}, todo: {w.todo}]
  /\ w.version \in Nat

Shape ==
  /\ IsSeq(tables)
  /\ \A t \in DOMAIN tables : IsRow(tables[t])
  /\ session = [h \in Session |-> session[h]]
  /\ \A h \in Session : IsWork(session[h])

IInv == Shape /\ CatalogInvariant

LEMMA SeqFacts ==
  ASSUME NEW s, IsSeq(s)
  PROVE  DOMAIN s = 1..Len(s) /\ Len(s) \in Nat
BY DEF IsSeq

LEMMA SeqByDomain ==
  ASSUME NEW n \in Nat, NEW f, f = [i \in 1..n |-> f[i]]
  PROVE  IsSeq(f) /\ Len(f) = n
<1>1. f \in Seq({f[i] : i \in 1..n})
  OBVIOUS
<1>2. Len(f) = n
  BY <1>1, LenProperties
<1> QED
  BY <1>2 DEF IsSeq

LEMMA SeqLength ==
  ASSUME NEW s, IsSeq(s), NEW n \in Nat, DOMAIN s = 1..n
  PROVE  Len(s) = n
<1>1. s = [i \in 1..n |-> s[i]]
  BY DEF IsSeq
<1> QED
  BY <1>1, SeqByDomain

LEMMA AppendFacts ==
  ASSUME NEW s, IsSeq(s), NEW e
  PROVE  /\ IsSeq(Append(s, e))
         /\ DOMAIN Append(s, e) = 1..(Len(s) + 1)
         /\ \A i \in 1..Len(s) : Append(s, e)[i] = s[i]
         /\ Append(s, e)[Len(s) + 1] = e
<1> DEFINE S == {s[i] : i \in 1..Len(s)} \cup {e}
<1>1. s \in Seq(S) /\ e \in S
  BY DEF IsSeq
<1> HIDE DEF S
<1>2. /\ Append(s, e) \in Seq(S) /\ Len(Append(s, e)) = Len(s) + 1
      /\ \A i \in 1..Len(s) : Append(s, e)[i] = s[i]
      /\ Append(s, e)[Len(s) + 1] = e
  BY <1>1, AppendProperties
<1>3. Append(s, e) = [i \in 1..(Len(s) + 1) |-> Append(s, e)[i]]
  BY <1>2, LenProperties
<1> QED
  BY <1>2, <1>3 DEF IsSeq

LEMMA ExceptFacts ==
  ASSUME NEW s, IsSeq(s), NEW t \in DOMAIN s, NEW e
  PROVE  /\ IsSeq([s EXCEPT ![t] = e])
         /\ DOMAIN [s EXCEPT ![t] = e] = DOMAIN s
<1>1. DOMAIN s = 1..Len(s) /\ Len(s) \in Nat
  BY SeqFacts
<1> QED
  BY <1>1, SeqByDomain

-----------------------------------------------------------------------------
(* What a transaction makes of a row *)

\* Every row of a table's history has a number of the table.
LEMMA NumbersFacts ==
  ASSUME NEW row, IsRow(row), RowSound(row)
  PROVE  \E n \in Nat : n <= Len(row.history) /\ Numbers(row) = 1..n
BY SeqFacts DEF RowSound, IsRow

LEMMA GoneSound ==
  ASSUME NEW row, IsRow(row)
  PROVE  IsRow(Gone(row)) /\ RowSound(Gone(row)) /\ Gone(row).state = "dropped"
<1>1. ASSUME NEW s, NEW f, NEW k
      PROVE  LET r == [row EXCEPT !.state = s, !.fields = f, !.history = k]
             IN  /\ r.state = s /\ r.fields = f /\ r.history = k
                 /\ r \in [db: {r.db}, name: {r.name}, state: {r.state},
                           fields: {r.fields}, history: {r.history}]
  BY DEF IsRow
<1>2. /\ Gone(row).state = "dropped" /\ Gone(row).history = << >>
      /\ Gone(row) \in [db: {Gone(row).db}, name: {Gone(row).name},
                        state: {Gone(row).state}, fields: {Gone(row).fields},
                        history: {Gone(row).history}]
  BY <1>1 DEF Gone
<1>3. IsSeq(<< >>) /\ Len(<< >>) = 0 /\ DOMAIN << >> = {}
  BY DEF IsSeq
<1>4. Numbers(Gone(row)) = 1..0
  BY <1>2, <1>3 DEF Numbers
<1>5. IsRow(Gone(row))
  BY <1>2, <1>3 DEF IsRow
<1> QED
  BY <1>2, <1>3, <1>4, <1>5 DEF RowSound

LEMMA InsertedSound ==
  ASSUME NEW d, NEW n, NEW c,
         NEW row, row = [db |-> d, name |-> n, state |-> "inserted", fields |-> <<c>>,
                         history |-> <<[version |-> 1, fields |-> <<c>>]>>]
  PROVE  IsRow(row) /\ RowSound(row) /\ row.state = "inserted"
<1>1. /\ Len(row.history) = 1 /\ DOMAIN row.history = {1}
      /\ row.history[1].version = 1 /\ row.history[1].fields = row.fields
  OBVIOUS
<1>2. IsSeq(row.history)
  BY DEF IsSeq
<1>3. Numbers(row) = 1..1
  BY <1>1 DEF Numbers
<1>4. IsRow(row)
  BY <1>2 DEF IsRow
<1>5. row.state = "inserted" /\ 1 \in 0..Len(row.history) /\ 1 \in DOMAIN row.history
  BY <1>1
<1> QED
  BY <1>1, <1>3, <1>4, <1>5 DEF RowSound

LEMMA CommittedSound ==
  ASSUME NEW row, IsRow(row), RowSound(row), row.state # "dropped"
  PROVE  /\ IsRow([row EXCEPT !.state = "live"])
         /\ RowSound([row EXCEPT !.state = "live"])
         /\ [row EXCEPT !.state = "live"].state = "live"
<1> DEFINE new == [row EXCEPT !.state = "live"]
<1>1. new = [db |-> row.db, name |-> row.name, state |-> "live",
             fields |-> row.fields, history |-> row.history]
  BY DEF IsRow
<1>2. new.history = row.history /\ new.fields = row.fields /\ new.state = "live"
  BY <1>1
<1> HIDE DEF new
<1>3. IsRow(new) /\ Numbers(new) = Numbers(row)
  BY <1>1, <1>2 DEF IsRow, Numbers
<1>4. RowSound(new)
  BY <1>2, <1>3 DEF RowSound
<1> QED
  BY <1>2, <1>3, <1>4 DEF new

Stored(row, f, k) == [row EXCEPT !.fields = f, !.history = k]

LEMMA StoredRow ==
  ASSUME NEW row, IsRow(row), NEW f, NEW k, IsSeq(k)
  PROVE  /\ IsRow(Stored(row, f, k))
         /\ Stored(row, f, k).state = row.state
         /\ Stored(row, f, k).fields = f /\ Stored(row, f, k).history = k
         /\ Stored(row, row.fields, row.history) = row
BY DEF IsRow, Stored

\* An update that records its schema under a number that follows one of the
\* table's keeps the numbers without a gap, and the ones that were there.
LEMMA RecordedSound ==
  ASSUME NEW row, IsRow(row), RowSound(row), row.state = "live",
         NEW v \in Nat, v - 1 \in Numbers(row) \cup {0}, v > 0,
         NEW e, e.version = v,
         NEW f, f = e.fields \/ f = row.fields,
         NEW new, new = Stored(row, f, Append(row.history, e))
  PROVE  /\ IsRow(new) /\ RowSound(new) /\ new.state = "live"
         /\ Numbers(row) \subseteq Numbers(new)
<1> DEFINE more == Append(row.history, e)
           len == Len(row.history)
<1>1. /\ IsSeq(more) /\ len \in Nat /\ DOMAIN row.history = 1..len
      /\ DOMAIN more = 1..(len + 1)
      /\ \A i \in 1..len : more[i] = row.history[i]
      /\ more[len + 1] = e
  BY AppendFacts, SeqFacts DEF IsRow
<1>2. new = Stored(row, f, more)
  OBVIOUS
<1> HIDE DEF more
<1>3. Len(more) = len + 1
  BY <1>1, SeqLength
<1>4. new.history = more /\ new.state = "live" /\ new.fields = f
  BY <1>2, <1>1, StoredRow
<1>5. IsRow(new)
  BY <1>2, <1>1, StoredRow
<1> HIDE DEF len
<1>6. Numbers(new) = Numbers(row) \cup {v}
  BY <1>1, <1>4 DEF Numbers
<1>7. PICK n \in Nat : n <= len /\ Numbers(row) = 1..n
  BY NumbersFacts DEF len
<1>8. \E k \in 0..Len(new.history) : Numbers(new) = 1..k
  <2>1. v \in 1..(n + 1)
    BY <1>7
  <2>2. CASE v = n + 1
    <3>1. Numbers(new) = 1..(n + 1)
      BY <1>6, <1>7, <2>2
    <3> QED
      BY <3>1, <1>1, <1>3, <1>4, <1>7
  <2>3. CASE v \in 1..n
    <3>1. Numbers(new) = 1..n
      BY <1>6, <1>7, <2>3
    <3> QED
      BY <3>1, <1>1, <1>3, <1>4, <1>7
  <2> QED
    BY <2>1, <2>2, <2>3
<1>9. \E i \in DOMAIN new.history : new.history[i].fields = new.fields
  <2>1. PICK i \in DOMAIN row.history : row.history[i].fields = row.fields
    BY DEF RowSound
  <2>2. i \in DOMAIN more /\ more[i] = row.history[i]
    BY <1>1, <2>1
  <2>3. len + 1 \in DOMAIN more
    BY <1>1
  <2> QED
    BY <1>1, <1>4, <2>1, <2>2, <2>3
<1> QED
  BY <1>4, <1>5, <1>6, <1>8, <1>9 DEF RowSound

\* LatestVersion is the last of the numbers.
LEMMA LatestVersionFacts ==
  ASSUME NEW t \in DOMAIN tables, NEW n \in Nat, Numbers(tables[t]) = 1..n
  PROVE  LatestVersion(t) = n
<1>1. n \in Numbers(tables[t]) \cup {0} /\ \A k \in Numbers(tables[t]) : k <= n
  OBVIOUS
<1>2. \A v \in Numbers(tables[t]) \cup {0} :
        (\A k \in Numbers(tables[t]) : k <= v) => v = n
  OBVIOUS
<1>3. /\ LatestVersion(t) \in Numbers(tables[t]) \cup {0}
      /\ \A k \in Numbers(tables[t]) : k <= LatestVersion(t)
  BY <1>1 DEF LatestVersion
<1> QED
  BY <1>2, <1>3

-----------------------------------------------------------------------------
(* Steps by what they do to rows and sessions *)

LEMMA SessionUpdate ==
  ASSUME session = [h \in Session |-> session[h]], NEW h \in Session, NEW w,
         session' = [session EXCEPT ![h] = w]
  PROVE  /\ session' = [g \in Session |-> session'[g]]
         /\ session'[h] = w
         /\ \A g \in Session : g # h => session'[g] = session[g]
OBVIOUS

LEMMA IdleWork == IsWork(Idle) /\ ~Engaged(Idle) /\ ~Creates(Idle)
BY DEF IsWork, Idle, Engaged, Creates

\* What a step of a session makes of its record.
Moved(w, p) == [w EXCEPT !.pc = p]
Opened(w, p, t) == [w EXCEPT !.pc = p, !.table = t]
Loaded(w, p, t, b, u) == [w EXCEPT !.pc = p, !.table = t, !.base = b, !.request = u]
Numbered(w, p, n) == [w EXCEPT !.pc = p, !.version = n]
Listed(w, p, s) == [w EXCEPT !.pc = p, !.todo = s]
Reduced(w, s) == [w EXCEPT !.todo = s]

LEMMA MovedWork ==
  ASSUME NEW w, IsWork(w), NEW p
  PROVE  /\ IsWork(Moved(w, p))
         /\ Moved(w, p).pc = p /\ Moved(w, p).table = w.table
         /\ Moved(w, p).todo = w.todo
BY DEF IsWork, Moved

LEMMA OpenedWork ==
  ASSUME NEW w, IsWork(w), NEW p, NEW t
  PROVE  /\ IsWork(Opened(w, p, t))
         /\ Opened(w, p, t).pc = p /\ Opened(w, p, t).table = t
         /\ Opened(w, p, t).todo = w.todo
BY DEF IsWork, Opened

LEMMA LoadedWork ==
  ASSUME NEW w, IsWork(w), NEW p, NEW t, NEW b, NEW u
  PROVE  /\ IsWork(Loaded(w, p, t, b, u))
         /\ Loaded(w, p, t, b, u).pc = p /\ Loaded(w, p, t, b, u).table = t
         /\ Loaded(w, p, t, b, u).todo = w.todo
BY DEF IsWork, Loaded

LEMMA NumberedWork ==
  ASSUME NEW w, IsWork(w), NEW p, NEW n \in Nat
  PROVE  LET x == Numbered(w, p, n)
         IN  /\ IsWork(x) /\ x.pc = p /\ x.version = n /\ x.table = w.table
             /\ x.base = w.base /\ x.request = w.request /\ x.todo = w.todo
BY DEF IsWork, Numbered

LEMMA ListedWork ==
  ASSUME NEW w, IsWork(w), NEW p, NEW s
  PROVE  /\ IsWork(Listed(w, p, s)) /\ Listed(w, p, s).pc = p
         /\ Listed(w, p, s).todo = s
         /\ IsWork(Reduced(w, s)) /\ Reduced(w, s).pc = w.pc
         /\ Reduced(w, s).todo = s
BY DEF IsWork, Listed, Reduced

LEMMA RowFacts ==
  ASSUME IInv, NEW t \in DOMAIN tables
  PROVE  /\ IsRow(tables[t]) /\ RowSound(tables[t])
         /\ \E n \in Nat : Numbers(tables[t]) = 1..n /\ LatestVersion(t) = n
<1>1. IsRow(tables[t]) /\ RowSound(tables[t])
  BY DEF IInv, Shape, CatalogInvariant
<1>2. PICK n \in Nat : Numbers(tables[t]) = 1..n
  BY <1>1, NumbersFacts
<1> QED
  BY <1>1, <1>2, LatestVersionFacts

\* A step of one session that leaves the rows alone.
LEMMA SessionMoves ==
  ASSUME IInv, NEW h \in Session, NEW w, IsWork(w),
         session' = [session EXCEPT ![h] = w], tables' = tables,
         Engaged(w) => w.table \in DOMAIN tables /\ WorkSound(w, tables[w.table]),
         Creates(w) => Creates(session[h]) /\ w.table = session[h].table
  PROVE  IInv'
<1>1. /\ session' = [g \in Session |-> session'[g]]
      /\ session'[h] = w
      /\ \A g \in Session : g # h => session'[g] = session[g]
  BY SessionUpdate DEF IInv, Shape
<1>2. Shape'
  <2>1. \A g \in Session : IsWork(session'[g])
    BY <1>1 DEF IInv, Shape
  <2> QED
    BY <1>1, <2>1 DEF IInv, Shape
<1>3. \A t \in DOMAIN tables' : RowSound(tables'[t])
  BY DEF IInv, CatalogInvariant
<1>4. \A g \in Session : Engaged(session'[g]) =>
        /\ session'[g].table \in DOMAIN tables'
        /\ WorkSound(session'[g], tables'[session'[g].table])
  BY <1>1 DEF IInv, CatalogInvariant
<1>5. \A f, g \in Session :
        Creates(session'[f]) /\ Creates(session'[g]) /\ session'[f].table = session'[g].table
          => f = g
  BY <1>1 DEF IInv, CatalogInvariant
<1> QED
  BY <1>2, <1>3, <1>4, <1>5 DEF IInv, CatalogInvariant

\* A session that ends leaves what the others hold sound.
LEMMA SessionEnds ==
  ASSUME IInv, NEW h \in Session, Finish(h), tables' = tables
  PROVE  IInv'
BY IdleWork, SessionMoves DEF Finish

\* A session that ends by changing one row.
LEMMA RowMoves ==
  ASSUME IInv, NEW h \in Session, Finish(h), NEW t \in DOMAIN tables,
         NEW row, IsRow(row), RowSound(row), tables' = [tables EXCEPT ![t] = row],
         \A g \in Session : g # h /\ Engaged(session[g]) /\ session[g].table = t
           => WorkSound(session[g], row)
  PROVE  IInv'
<1>1. /\ session' = [g \in Session |-> session'[g]]
      /\ session'[h] = Idle
      /\ \A g \in Session : g # h => session'[g] = session[g]
  BY SessionUpdate DEF IInv, Shape, Finish
<1>2. IsSeq(tables)
  BY DEF IInv, Shape
<1>3. /\ IsSeq(tables') /\ DOMAIN tables' = DOMAIN tables /\ tables'[t] = row
      /\ \A s \in DOMAIN tables : s # t => tables'[s] = tables[s]
  BY <1>2, ExceptFacts
<1>4. Shape'
  <2>1. \A g \in Session : IsWork(session'[g])
    BY <1>1, IdleWork DEF IInv, Shape
  <2>2. \A s \in DOMAIN tables' : IsRow(tables'[s])
    BY <1>3 DEF IInv, Shape
  <2> QED
    BY <1>1, <1>3, <2>1, <2>2 DEF Shape
<1>5. \A s \in DOMAIN tables' : RowSound(tables'[s])
  BY <1>3 DEF IInv, CatalogInvariant
<1>6. ASSUME NEW g \in Session, Engaged(session'[g])
      PROVE  /\ session'[g].table \in DOMAIN tables'
             /\ WorkSound(session'[g], tables'[session'[g].table])
  <2>1. g # h /\ session'[g] = session[g]
    BY <1>1, <1>6, IdleWork
  <2>2. /\ session[g].table \in DOMAIN tables
        /\ WorkSound(session[g], tables[session[g].table])
    BY <1>6, <2>1 DEF IInv, CatalogInvariant
  <2> QED
    BY <1>3, <1>6, <2>1, <2>2
<1>7. \A f, g \in Session :
        Creates(session'[f]) /\ Creates(session'[g]) /\ session'[f].table = session'[g].table
          => f = g
  BY <1>1, IdleWork DEF IInv, CatalogInvariant
<1> QED
  BY <1>4, <1>5, <1>6, <1>7 DEF IInv, CatalogInvariant

-----------------------------------------------------------------------------
(* The operations *)

LEMMA InitCorrect == Init => IInv
<1> SUFFICES ASSUME Init
             PROVE  IInv
  OBVIOUS
<1>1. IsSeq(tables) /\ DOMAIN tables = {}
  BY DEF Init, IsSeq
<1>2. session = [h \in Session |-> session[h]] /\ \A h \in Session : session[h] = Idle
  BY DEF Init
<1>3. Shape
  BY <1>1, <1>2, IdleWork DEF Shape
<1>4. CatalogInvariant
  BY <1>1, <1>2, IdleWork DEF CatalogInvariant
<1> QED
  BY <1>3, <1>4 DEF IInv

LEMMA StutterCorrect ==
  ASSUME IInv, tables' = tables, session' = session
  PROVE  IInv'
<1>1. Shape'
  BY DEF IInv, Shape
<1>2. CatalogInvariant'
  BY DEF IInv, CatalogInvariant
<1> QED
  BY <1>1, <1>2 DEF IInv

\* No transaction holds on to the rows that go with the database.
LEMMA DropDatabaseCorrect ==
  ASSUME IInv, NEW d \in Database, DropDatabase(d)
  PROVE  IInv'
<1>1. /\ session' = session
      /\ \A t \in DOMAIN tables : tables[t].db = d => ~Locked(t)
      /\ tables' = [t \in DOMAIN tables |->
           IF tables[t].db = d THEN Gone(tables[t]) ELSE tables[t]]
  BY DEF DropDatabase
<1>2. DOMAIN tables = 1..Len(tables) /\ Len(tables) \in Nat
  BY SeqFacts DEF IInv, Shape
<1>3. IsSeq(tables') /\ DOMAIN tables' = DOMAIN tables
  BY <1>1, <1>2, SeqByDomain
<1>4. ASSUME NEW t \in DOMAIN tables
      PROVE  IsRow(tables'[t]) /\ RowSound(tables'[t])
  BY <1>1, RowFacts, GoneSound
<1>5. Shape'
  <2>1. \A h \in Session : IsWork(session'[h])
    BY <1>1 DEF IInv, Shape
  <2> QED
    BY <1>1, <1>3, <1>4, <2>1 DEF IInv, Shape
<1>6. ASSUME NEW h \in Session, Engaged(session[h])
      PROVE  /\ session[h].table \in DOMAIN tables
             /\ WorkSound(session[h], tables'[session[h].table])
  <2> DEFINE t == session[h].table
  <2>1. t \in DOMAIN tables /\ WorkSound(session[h], tables[t])
    BY <1>6 DEF IInv, CatalogInvariant
  <2>2. CASE tables[t].db # d
    BY <1>1, <2>1, <2>2
  <2>3. CASE tables[t].db = d
    <3>1. ~Creates(session[h])
      BY <1>1, <2>1, <2>3 DEF Locked, Changing, Creates
    <3>2. tables'[t].state = "dropped"
      BY <1>1, <2>1, <2>3, GoneSound, RowFacts
    <3> QED
      BY <2>1, <3>1, <3>2 DEF WorkSound
  <2> QED
    BY <2>2, <2>3
<1>7. CatalogInvariant'
  BY <1>1, <1>3, <1>4, <1>6 DEF IInv, CatalogInvariant
<1> QED
  BY <1>5, <1>7 DEF IInv

LEMMA InsertCorrect ==
  ASSUME IInv, NEW h \in Session, NEW d \in Database, NEW n \in Name, NEW c \in Column,
         Insert(h, d, n, c)
  PROVE  IInv'
<1> DEFINE row == [db |-> d, name |-> n, state |-> "inserted", fields |-> <<c>>,
                   history |-> <<[version |-> 1, fields |-> <<c>>]>>]
           last == Len(tables) + 1
<1>1. IsRow(row) /\ RowSound(row) /\ row.state = "inserted"
  BY InsertedSound
<1>2. /\ tables' = Append(tables, row)
      /\ session[h] = Idle
      /\ session' = [session EXCEPT ![h].pc = "register", ![h].table = last]
  BY DEF Insert
<1> HIDE DEF row
<1>3. /\ IsSeq(tables') /\ DOMAIN tables = 1..Len(tables) /\ Len(tables) \in Nat
      /\ DOMAIN tables' = 1..last
      /\ \A t \in 1..Len(tables) : tables'[t] = tables[t]
      /\ tables'[last] = row
  BY <1>2, AppendFacts, SeqFacts DEF IInv, Shape
<1> DEFINE w == Opened(session[h], "register", last)
<1>4. session = [g \in Session |-> session[g]] /\ IsWork(session[h])
  BY DEF IInv, Shape
<1>5. session' = [session EXCEPT ![h] = w]
  BY <1>2 DEF Opened
<1>6. IsWork(w) /\ w.pc = "register" /\ w.table = last
  BY <1>4, OpenedWork
<1> HIDE DEF w
<1>7. /\ session' = [g \in Session |-> session'[g]]
      /\ session'[h] = w
      /\ \A g \in Session : g # h => session'[g] = session[g]
  BY <1>4, <1>5, SessionUpdate
<1>8. /\ IsWork(session'[h]) /\ Creates(session'[h])
      /\ session'[h].pc = "register" /\ session'[h].table = last
  BY <1>7, <1>6 DEF Creates
<1>9. Shape'
  <2>1. \A g \in Session : IsWork(session'[g])
    BY <1>7, <1>8 DEF IInv, Shape
  <2>2. \A t \in DOMAIN tables' : IsRow(tables'[t])
    BY <1>1, <1>3 DEF IInv, Shape
  <2> QED
    BY <1>3, <1>7, <2>1, <2>2 DEF Shape
<1>10. \A t \in DOMAIN tables' : RowSound(tables'[t])
  BY <1>1, <1>3 DEF IInv, CatalogInvariant
<1>11. ASSUME NEW g \in Session, g # h, Engaged(session'[g])
      PROVE  /\ session'[g].table \in DOMAIN tables
             /\ WorkSound(session'[g], tables'[session'[g].table])
  <2>1. /\ session[g].table \in DOMAIN tables
        /\ WorkSound(session[g], tables[session[g].table])
    BY <1>7, <1>11 DEF IInv, CatalogInvariant
  <2> QED
    BY <1>3, <1>7, <1>11, <2>1
<1>12. WorkSound(session'[h], tables'[session'[h].table])
  BY <1>1, <1>3, <1>8 DEF WorkSound
<1>13. \A g \in Session : Engaged(session'[g]) =>
         /\ session'[g].table \in DOMAIN tables'
         /\ WorkSound(session'[g], tables'[session'[g].table])
  BY <1>3, <1>8, <1>11, <1>12
<1>14. \A f, g \in Session :
         Creates(session'[f]) /\ Creates(session'[g]) /\ session'[f].table = session'[g].table
           => f = g
  <2>1. \A g \in Session : g # h /\ Creates(session'[g]) => session'[g].table # last
    BY <1>3, <1>11 DEF Creates, Engaged
  <2> QED
    BY <1>7, <1>8, <2>1 DEF IInv, CatalogInvariant
<1> QED
  BY <1>9, <1>10, <1>13, <1>14 DEF IInv, CatalogInvariant

\* Steps of one session that touch no row.
LEMMA QuietStepCorrect ==
  ASSUME IInv, NEW h \in Session, tables' = tables,
         \/ Register(h) \/ (\E t \in DOMAIN tables : SelectForDrop(h, t))
         \/ Delete(h) \/ Unregister(h)
         \/ (\E t \in DOMAIN tables, u \in Requests : SelectForUpdate(h, t, u))
         \/ (\E d \in Database : SelectForSync(h, d)) \/ SyncNext(h)
  PROVE  IInv'
<1> DEFINE w == session[h]
<1>1. IsWork(w)
  BY DEF IInv, Shape
<1>2. Engaged(w) => w.table \in DOMAIN tables /\ WorkSound(w, tables[w.table])
  BY DEF IInv, CatalogInvariant
<1>3. CASE Register(h)
  <2>1. session' = [session EXCEPT ![h] = Moved(w, "created")] /\ w.pc = "register"
    BY <1>3 DEF Register, Goto, Moved
  <2>2. Engaged(w) /\ Creates(w) /\ Creates(Moved(w, "created"))
    BY <2>1, <1>1, MovedWork DEF Engaged, Creates
  <2>3. WorkSound(Moved(w, "created"), tables[w.table])
    BY <1>1, <1>2, <2>2, MovedWork DEF WorkSound
  <2> QED
    BY <1>1, <1>2, <2>1, <2>2, <2>3, MovedWork, SessionMoves
<1>4. ASSUME NEW t \in DOMAIN tables, SelectForDrop(h, t)
      PROVE  IInv'
  <2> DEFINE x == Opened(w, "delete", t)
  <2>1. session' = [session EXCEPT ![h] = x] /\ tables[t].state = "live"
    BY <1>4 DEF SelectForDrop, Opened, Live
  <2>2. IsWork(x) /\ x.pc = "delete" /\ x.table = t
    BY <1>1, OpenedWork
  <2> HIDE DEF x
  <2>3. ~Creates(x) /\ WorkSound(x, tables[t])
    BY <2>1, <2>2 DEF Creates, WorkSound
  <2> QED
    BY <2>1, <2>2, <2>3, SessionMoves
<1>5. CASE Delete(h) \/ Unregister(h)
  <2>1. PICK p \in {"unregister", "dropped"} :
          session' = [session EXCEPT ![h] = Moved(w, p)]
    BY <1>5 DEF Delete, Unregister, Goto, Moved
  <2>2. w.pc \in {"delete", "unregister"}
    BY <1>5 DEF Delete, Unregister
  <2>3. IsWork(Moved(w, p)) /\ Moved(w, p).pc = p /\ Moved(w, p).table = w.table
    BY <1>1, MovedWork
  <2>4. Engaged(w) /\ ~Creates(w) /\ ~Creates(Moved(w, p))
    BY <2>2, <2>3 DEF Engaged, Creates
  <2>5. WorkSound(Moved(w, p), tables[w.table])
    BY <1>2, <2>3, <2>4 DEF WorkSound
  <2> QED
    BY <1>2, <2>1, <2>3, <2>4, <2>5, SessionMoves
<1>6. ASSUME NEW t \in DOMAIN tables, NEW u \in Requests, SelectForUpdate(h, t, u)
      PROVE  IInv'
  <2> DEFINE x == Loaded(w, "version", t, tables[t].fields, u)
  <2>1. session' = [session EXCEPT ![h] = x] /\ tables[t].state = "live"
    BY <1>6 DEF SelectForUpdate, Loaded, Live
  <2>2. IsWork(x) /\ x.pc = "version" /\ x.table = t
    BY <1>1, LoadedWork
  <2> HIDE DEF x
  <2>3. ~Creates(x) /\ WorkSound(x, tables[t])
    BY <2>1, <2>2 DEF Creates, WorkSound
  <2> QED
    BY <2>1, <2>2, <2>3, SessionMoves
<1>7. ASSUME NEW d \in Database, SelectForSync(h, d)
      PROVE  IInv'
  <2>1. PICK s : session' = [session EXCEPT ![h] = Listed(w, "sync", s)]
    BY <1>7 DEF SelectForSync, Listed
  <2>2. IsWork(Listed(w, "sync", s)) /\ Listed(w, "sync", s).pc = "sync"
    BY <1>1, ListedWork
  <2>3. ~Engaged(Listed(w, "sync", s)) /\ ~Creates(Listed(w, "sync", s))
    BY <2>2 DEF Engaged, Creates
  <2> QED
    BY <2>1, <2>2, <2>3, SessionMoves
<1>8. CASE SyncNext(h)
  <2>1. w.pc = "sync"
    BY <1>8 DEF SyncNext
  <2>2. CASE Finish(h)
    BY <2>2, SessionEnds
  <2>3. ASSUME NEW s, session' = [session EXCEPT ![h] = Reduced(w, s)]
        PROVE  IInv'
    <3>1. IsWork(Reduced(w, s)) /\ Reduced(w, s).pc = "sync"
      BY <1>1, <2>1, ListedWork
    <3>2. ~Engaged(Reduced(w, s)) /\ ~Creates(Reduced(w, s))
      BY <3>1 DEF Engaged, Creates
    <3> QED
      BY <2>3, <3>1, <3>2, SessionMoves
  <2>4. Finish(h) \/ \E s : session' = [session EXCEPT ![h] = Reduced(w, s)]
    BY <1>8 DEF SyncNext, Reduced
  <2> QED
    BY <2>2, <2>3, <2>4
<1> QED
  BY <1>3, <1>4, <1>5, <1>6, <1>7, <1>8

LEMMA SelectVersionCorrect ==
  ASSUME IInv, NEW h \in Session, SelectVersion(h)
  PROVE  IInv'
<1> DEFINE w == session[h]
           flushed == Flushed(w.base, w.request)
           p == IF flushed THEN "updated" ELSE "flush"
<1>1. w.pc = "version" /\ tables' = tables
  BY DEF SelectVersion
<1>2. CASE flushed /\ ~Live(w.table)
  BY <1>1, <1>2, SessionEnds DEF SelectVersion
<1>3. CASE ~(flushed /\ ~Live(w.table))
  <2>1. Engaged(w) /\ ~Creates(w)
    BY <1>1 DEF Engaged, Creates
  <2>2. w.table \in DOMAIN tables /\ WorkSound(w, tables[w.table])
    BY <2>1 DEF IInv, CatalogInvariant
  <2>3. PICK n \in Nat : /\ Numbers(tables[w.table]) = 1..n
                         /\ LatestVersion(w.table) = n
    BY <2>2, RowFacts
  <2>4. session' = [session EXCEPT ![h] = Numbered(w, p, n + 1)]
    BY <1>3, <2>3 DEF SelectVersion, Numbered
  <2> DEFINE x == Numbered(w, p, n + 1)
  <2>5. /\ IsWork(x) /\ x.pc = p /\ x.version = n + 1 /\ x.table = w.table
        /\ x.base = w.base /\ x.request = w.request
    BY <2>3, NumberedWork DEF IInv, Shape
  <2> HIDE DEF x
  <2>6. ~Creates(x)
    BY <2>5 DEF Creates
  <2>7. n + 1 - 1 \in Numbers(tables[w.table]) \cup {0}
    BY <2>3
  <2>8. WorkSound(x, tables[w.table])
    BY <2>1, <2>2, <2>5, <2>6, <2>7 DEF WorkSound
  <2> QED
    BY <1>1, <2>2, <2>4, <2>5, <2>6, <2>8, SessionMoves DEF x
<1> QED
  BY <1>2, <1>3

LEMMA StoreUpdateCorrect ==
  ASSUME IInv, NEW h \in Session, StoreUpdate(h)
  PROVE  IInv'
<1> DEFINE w == session[h]
           t == w.table
           row == tables[t]
           e == [version |-> w.version, fields |-> Evolved(w.base, w.request)]
           f == IF w.pc = "updated" THEN e.fields ELSE row.fields
           k == IF Changes(w.base, w.request) THEN Append(row.history, e)
                ELSE row.history
           new == Stored(row, f, k)
<1>1. w.pc \in {"flush", "updated"} /\ Finish(h)
  BY DEF StoreUpdate
<1>2. CASE ~Live(t)
  BY <1>1, <1>2, SessionEnds DEF StoreUpdate
<1>3. CASE Live(t)
  <2>1. Engaged(w) /\ ~Creates(w)
    BY <1>1 DEF Engaged, Creates
  <2>2. t \in DOMAIN tables /\ WorkSound(w, row)
    BY <2>1 DEF IInv, CatalogInvariant
  <2>3. IsRow(row) /\ RowSound(row) /\ row.state = "live"
    BY <1>3, <2>2, RowFacts DEF Live
  <2>4. tables' = [tables EXCEPT ![t] = new]
    BY <1>3 DEF StoreUpdate, Stored
  <2>5. IsRow(new) /\ RowSound(new) /\ new.state = "live" /\ Numbers(row) \subseteq Numbers(new)
    <3>1. CASE Changes(w.base, w.request)
      <4>1. w.version \in Nat
        BY DEF IInv, Shape, IsWork
      <4>2. w.version - 1 \in Numbers(row) \cup {0}
        BY <1>1, <2>2, <2>3 DEF WorkSound
      <4>3. \E n \in Nat : Numbers(row) = 1..n
        BY <2>3, NumbersFacts
      <4>4. w.version > 0
        BY <4>1, <4>2, <4>3
      <4>5. e.version = w.version /\ (f = e.fields \/ f = row.fields)
            /\ new = Stored(row, f, Append(row.history, e))
        BY <3>1
      <4> QED
        BY <2>3, <4>1, <4>2, <4>4, <4>5, RecordedSound
    <3>2. CASE ~Changes(w.base, w.request)
      <4>1. ~Flushed(w.base, w.request)
        BY <3>2 DEF Flushed, Changes, Dropped
      <4>2. w.pc # "updated"
        BY <2>2, <4>1 DEF WorkSound
      <4>3. new = row
        BY <2>3, <3>2, <4>2, StoredRow DEF IsRow
      <4> QED
        BY <2>3, <4>3
    <3> QED
      BY <3>1, <3>2
  <2> HIDE DEF new
  <2>6. ASSUME NEW g \in Session, Engaged(session[g]), session[g].table = t
        PROVE  WorkSound(session[g], new)
    <3>1. WorkSound(session[g], row)
      BY <2>6 DEF IInv, CatalogInvariant
    <3> QED
      BY <2>3, <2>5, <3>1 DEF WorkSound
  <2> QED
    BY <1>1, <2>2, <2>4, <2>5, <2>6, RowMoves
<1> QED
  BY <1>2, <1>3

\* Only the session that inserted a row commits it or rolls it back.
LEMMA CreateEnds ==
  ASSUME IInv, NEW h \in Session, Creates(session[h]), Finish(h),
         NEW row, IsRow(row), RowSound(row),
         tables' = [tables EXCEPT ![session[h].table] = row]
  PROVE  IInv'
<1>1. Engaged(session[h])
  BY DEF Creates, Engaged
<1>2. /\ session[h].table \in DOMAIN tables
      /\ tables[session[h].table].state = "inserted"
  BY <1>1 DEF IInv, CatalogInvariant, WorkSound
<1>3. ASSUME NEW g \in Session, Engaged(session[g]), session[g].table = session[h].table
      PROVE  g = h
  <2>1. Creates(session[g])
    BY <1>2, <1>3 DEF IInv, CatalogInvariant, WorkSound
  <2> QED
    BY <1>3, <2>1 DEF IInv, CatalogInvariant
<1> QED
  BY <1>2, <1>3, RowMoves

LEMMA CommitCreateCorrect ==
  ASSUME IInv, NEW h \in Session, CommitCreate(h)
  PROVE  IInv'
<1> DEFINE t == session[h].table
           row == [tables[t] EXCEPT !.state = "live"]
<1>1. Creates(session[h]) /\ Engaged(session[h]) /\ Finish(h)
  BY DEF CommitCreate, Creates, Engaged
<1>2. t \in DOMAIN tables /\ tables[t].state = "inserted"
  BY <1>1 DEF IInv, CatalogInvariant, WorkSound
<1>3. IsRow(row) /\ RowSound(row)
  BY <1>2, RowFacts, CommittedSound
<1>4. tables' = [tables EXCEPT ![t] = row]
  BY DEF CommitCreate
<1> QED
  BY <1>1, <1>3, <1>4, CreateEnds

LEMMA CommitDropCorrect ==
  ASSUME IInv, NEW h \in Session, CommitDrop(h)
  PROVE  IInv'
<1> DEFINE t == session[h].table
           row == Gone(tables[t])
<1>1. /\ Engaged(session[h]) /\ ~Creates(session[h]) /\ Finish(h)
      /\ tables' = [tables EXCEPT ![t] = row]
  BY DEF CommitDrop, Creates, Engaged
<1>2. t \in DOMAIN tables /\ tables[t].state # "inserted"
  BY <1>1 DEF IInv, CatalogInvariant, WorkSound
<1>3. IsRow(row) /\ RowSound(row) /\ row.state = "dropped"
  BY <1>2, RowFacts, GoneSound
<1> HIDE DEF row
<1>4. ASSUME NEW g \in Session, Engaged(session[g]), session[g].table = t
      PROVE  WorkSound(session[g], row)
  <2>1. WorkSound(session[g], tables[t])
    BY <1>4 DEF IInv, CatalogInvariant
  <2> QED
    BY <1>2, <1>3, <2>1 DEF WorkSound
<1> QED
  BY <1>1, <1>2, <1>3, <1>4, RowMoves

LEMMA AbortCorrect ==
  ASSUME IInv, NEW h \in Session, Abort(h)
  PROVE  IInv'
<1>1. Finish(h)
  BY DEF Abort
<1>2. CASE Creates(session[h])
  <2>1. session[h].table \in DOMAIN tables
    BY <1>2 DEF IInv, CatalogInvariant, Creates, Engaged
  <2>2. tables' = [tables EXCEPT ![session[h].table] = Gone(tables[session[h].table])]
    BY <1>2 DEF Abort, Creates
  <2> QED
    BY <1>1, <1>2, <2>1, <2>2, RowFacts, GoneSound, CreateEnds
<1>3. CASE ~Creates(session[h])
  BY <1>1, <1>3, SessionEnds DEF Abort, Creates
<1> QED
  BY <1>2, <1>3

-----------------------------------------------------------------------------
(* The mirror in Glue *)

At(h, t, pc) == session[h].table = t /\ session[h].pc = pc

\* Glue has been told of table t and has not been told to forget it.
Standing(t) ==
  \/ Live(t) /\ \A h \in Session : ~At(h, t, "dropped")
  \/ \E h \in Session : At(h, t, "created")

Mirrored == {Entry(t) : t \in {x \in DOMAIN tables : Standing(x)}}

TodoKnown == \A h \in Session : session[h].todo \subseteq DOMAIN tables

\* Glue has the entries of the standing tables, but for the lost ones, and others
\* only when they are stray.
Mirror ==
  /\ glue \ stray \subseteq Mirrored
  /\ Mirrored \subseteq glue \cup lost

MInv == IInv /\ TodoKnown /\ Mirror

\* A step keeps the rows, their names, and drops them for good.
RowsKept ==
  /\ DOMAIN tables' = DOMAIN tables
  /\ \A t \in DOMAIN tables :
       /\ tables'[t].db = tables[t].db /\ tables'[t].name = tables[t].name
       /\ tables'[t].state # "dropped" => tables[t].state # "dropped"

LEMMA TodoKept ==
  ASSUME IInv, TodoKnown, NEW h \in Session, NEW w, session' = [session EXCEPT ![h] = w],
         DOMAIN tables \subseteq DOMAIN tables', w.todo \subseteq DOMAIN tables
  PROVE  TodoKnown'
<1>1. /\ session'[h] = w
      /\ \A g \in Session : g # h => session'[g] = session[g]
  BY SessionUpdate DEF IInv, Shape
<1> QED
  BY <1>1 DEF TodoKnown

\* A session that ends has nothing more to do.
LEMMA TodoEnds ==
  ASSUME IInv, TodoKnown, NEW h \in Session, Finish(h), DOMAIN tables \subseteq DOMAIN tables'
  PROVE  TodoKnown'
<1>1. Idle.todo = {}
  BY DEF Idle
<1> QED
  BY <1>1, TodoKept DEF Finish

\* One row replaced by one of the same table.
LEMMA RowReplaced ==
  ASSUME IInv, NEW t \in DOMAIN tables, NEW row, tables' = [tables EXCEPT ![t] = row],
         row.db = tables[t].db, row.name = tables[t].name,
         row.state # "dropped" => tables[t].state # "dropped"
  PROVE  /\ RowsKept
         /\ tables'[t] = row
         /\ \A s \in DOMAIN tables : s # t => tables'[s] = tables[s]
<1>1. /\ DOMAIN tables' = DOMAIN tables /\ tables'[t] = row
      /\ \A s \in DOMAIN tables : s # t => tables'[s] = tables[s]
  BY ExceptFacts DEF IInv, Shape
<1> QED
  BY <1>1 DEF RowsKept

LEMMA EntriesKept ==
  ASSUME RowsKept, NEW t \in DOMAIN tables
  PROVE  Entry(t)' = Entry(t)
BY DEF RowsKept, Entry

LEMMA RowKeys ==
  ASSUME NEW row, IsRow(row), NEW f, NEW k
  PROVE  /\ Gone(row).db = row.db /\ Gone(row).name = row.name
         /\ Stored(row, f, k).db = row.db /\ Stored(row, f, k).name = row.name
         /\ [row EXCEPT !.state = "live"].db = row.db
         /\ [row EXCEPT !.state = "live"].name = row.name
<1>1. ASSUME NEW s, NEW g, NEW l
      PROVE  LET r == [row EXCEPT !.state = s, !.fields = g, !.history = l]
             IN  r.db = row.db /\ r.name = row.name
  BY DEF IsRow
<1>2. Gone(row).db = row.db /\ Gone(row).name = row.name
  BY <1>1 DEF Gone
<1>3. Stored(row, f, k).db = row.db /\ Stored(row, f, k).name = row.name
  BY DEF IsRow, Stored
<1>4. /\ [row EXCEPT !.state = "live"].db = row.db
      /\ [row EXCEPT !.state = "live"].name = row.name
  BY DEF IsRow
<1> QED
  BY <1>2, <1>3, <1>4

\* A row that a request has created or dropped is there, and it has created it
\* when it is not committed.
LEMMA EngagedFacts ==
  ASSUME IInv, NEW h \in Session
  PROVE  /\ session[h].pc \notin {"idle", "sync"} => session[h].table \in DOMAIN tables
         /\ session[h].pc \in {"register", "created"} =>
              tables[session[h].table].state = "inserted"
         /\ session[h].pc \in {"delete", "unregister", "dropped", "version", "flush", "updated"} =>
              tables[session[h].table].state # "inserted"
BY DEF IInv, CatalogInvariant, WorkSound, Engaged, Creates

LEMMA StandingRows ==
  ASSUME IInv, NEW t, Standing(t)
  PROVE  tables[t].state \in {"inserted", "live"}
BY EngagedFacts DEF Standing, At, Live

\* A step of a session that neither registers nor unregisters a table leaves the
\* standing tables.
LEMMA MirroredKept ==
  ASSUME IInv, NEW h \in Session, NEW w, session' = [session EXCEPT ![h] = w], RowsKept,
         session[h].pc \notin {"created", "dropped"}, w.pc \notin {"created", "dropped"},
         \A t \in DOMAIN tables : tables'[t].state = "live" <=> tables[t].state = "live"
  PROVE  Mirrored' = Mirrored
<1>1. /\ session'[h] = w
      /\ \A g \in Session : g # h => session'[g] = session[g]
  BY SessionUpdate DEF IInv, Shape
<1>2. ASSUME NEW t \in DOMAIN tables, NEW g \in Session, NEW p \in {"created", "dropped"}
      PROVE  At(g, t, p)' <=> At(g, t, p)
  BY <1>1 DEF At
<1>3. \A t \in DOMAIN tables : Standing(t)' <=> Standing(t)
  BY <1>2 DEF Standing, Live
<1>4. \A t \in DOMAIN tables : Entry(t)' = Entry(t)
  BY EntriesKept
<1> QED
  BY <1>3, <1>4 DEF Mirrored, RowsKept

\* The same for the whole of Mirror when Glue is not called.
LEMMA MirrorKept ==
  ASSUME Mirror, Mirrored' = Mirrored, glue' = glue, stray' = stray, lost' = lost
  PROVE  Mirror'
BY DEF Mirror

LEMMA IdleFields == Idle.pc = "idle" /\ Idle.todo = {} /\ Idle.table = 0
BY DEF Idle

\* A step of one session that tells Glue nothing and neither commits a create nor
\* ends a drop.
LEMMA QuietMirror ==
  ASSUME MInv, NEW h \in Session, NEW w, session' = [session EXCEPT ![h] = w],
         session[h].pc \notin {"created", "dropped"}, w.pc \notin {"created", "dropped"},
         w.todo \subseteq DOMAIN tables, RowsKept,
         \A t \in DOMAIN tables : tables'[t].state = "live" <=> tables[t].state = "live",
         glue' = glue, stray' = stray, lost' = lost
  PROVE  TodoKnown' /\ Mirror'
<1>1. TodoKnown'
  BY TodoKept DEF MInv, RowsKept
<1>2. Mirrored' = Mirrored
  BY MirroredKept DEF MInv
<1> QED
  BY <1>1, <1>2, MirrorKept DEF MInv

LEMMA QuietEnds ==
  ASSUME MInv, NEW h \in Session, Finish(h), session[h].pc \notin {"created", "dropped"},
         RowsKept,
         \A t \in DOMAIN tables : tables'[t].state = "live" <=> tables[t].state = "live",
         glue' = glue, stray' = stray, lost' = lost
  PROVE  TodoKnown' /\ Mirror'
BY IdleFields, QuietMirror DEF Finish

\* Selections, the DELETE, and the lookup of the versions.
LEMMA SelectMirror ==
  ASSUME MInv, NEW h \in Session,
         \/ (\E t \in DOMAIN tables : SelectForDrop(h, t))
         \/ Delete(h)
         \/ (\E t \in DOMAIN tables, u \in Requests : SelectForUpdate(h, t, u))
         \/ (\E d \in Database : SelectForSync(h, d))
         \/ SelectVersion(h)
  PROVE  TodoKnown' /\ Mirror'
<1> DEFINE w == session[h]
<1>1. IsWork(w) /\ w.todo \subseteq DOMAIN tables
  BY DEF MInv, IInv, Shape, TodoKnown
<1>2. /\ tables' = tables /\ glue' = glue /\ stray' = stray /\ lost' = lost
      /\ w.pc \in {"idle", "delete", "version"}
  BY IdleFields
     DEF SelectForDrop, Delete, SelectForUpdate, SelectForSync, SelectVersion, historyVars
<1>3. RowsKept
  BY <1>2 DEF RowsKept
<1>4. ASSUME NEW x, session' = [session EXCEPT ![h] = x],
             x.pc \notin {"created", "dropped"}, x.todo \subseteq DOMAIN tables
      PROVE  TodoKnown' /\ Mirror'
  BY <1>2, <1>3, <1>4, QuietMirror
<1>5. ASSUME NEW t \in DOMAIN tables, SelectForDrop(h, t)
      PROVE  TodoKnown' /\ Mirror'
  <2> DEFINE x == Opened(w, "delete", t)
  <2>1. session' = [session EXCEPT ![h] = x]
    BY <1>5 DEF SelectForDrop, Opened
  <2>2. x.pc \notin {"created", "dropped"} /\ x.todo \subseteq DOMAIN tables
    BY <1>1, OpenedWork
  <2> HIDE DEF x
  <2> QED
    BY <1>4, <2>1, <2>2
<1>6. CASE Delete(h)
  <2> DEFINE x == Moved(w, "unregister")
  <2>1. session' = [session EXCEPT ![h] = x]
    BY <1>6 DEF Delete, Goto, Moved
  <2>2. x.pc \notin {"created", "dropped"} /\ x.todo \subseteq DOMAIN tables
    BY <1>1, MovedWork
  <2> HIDE DEF x
  <2> QED
    BY <1>4, <2>1, <2>2
<1>7. ASSUME NEW t \in DOMAIN tables, NEW u \in Requests, SelectForUpdate(h, t, u)
      PROVE  TodoKnown' /\ Mirror'
  <2> DEFINE x == Loaded(w, "version", t, tables[t].fields, u)
  <2>1. session' = [session EXCEPT ![h] = x]
    BY <1>7 DEF SelectForUpdate, Loaded
  <2>2. x.pc \notin {"created", "dropped"} /\ x.todo \subseteq DOMAIN tables
    BY <1>1, LoadedWork
  <2> HIDE DEF x
  <2> QED
    BY <1>4, <2>1, <2>2
<1>8. ASSUME NEW d \in Database, SelectForSync(h, d)
      PROVE  TodoKnown' /\ Mirror'
  <2> DEFINE s == {t \in DOMAIN tables : Live(t) /\ tables[t].db = d}
         x == Listed(w, "sync", s)
  <2>1. session' = [session EXCEPT ![h] = x]
    BY <1>8 DEF SelectForSync, Listed
  <2>2. s \subseteq DOMAIN tables
    OBVIOUS
  <2> HIDE DEF s
  <2>3. x.pc \notin {"created", "dropped"} /\ x.todo \subseteq DOMAIN tables
    BY <1>1, <2>2, ListedWork
  <2> HIDE DEF x
  <2> QED
    BY <1>4, <2>1, <2>3
<1>9. CASE SelectVersion(h)
  <2>1. CASE Finish(h)
    BY <1>2, <1>3, <2>1, QuietEnds
  <2>2. CASE ~Finish(h)
    <3> DEFINE n == LatestVersion(w.table) + 1
    <3>1. PICK p \in {"updated", "flush"} :
            session' = [session EXCEPT ![h] = Numbered(w, p, n)]
      BY <1>9, <2>2 DEF SelectVersion, Numbered
    <3>2. n \in Nat
      <4>1. w.table \in DOMAIN tables
        BY <1>9, EngagedFacts DEF MInv, SelectVersion
      <4>2. PICK k \in Nat : LatestVersion(w.table) = k
        BY <4>1, RowFacts DEF MInv
      <4> QED
        BY <4>2
    <3> HIDE DEF n
    <3> DEFINE x == Numbered(w, p, n)
    <3>3. x.pc \notin {"created", "dropped"} /\ x.todo \subseteq DOMAIN tables
      BY <1>1, <3>2, NumberedWork
    <3> HIDE DEF x
    <3>4. session' = [session EXCEPT ![h] = x]
      BY <3>1 DEF x
    <3> QED
      BY <1>4, <3>3, <3>4
  <2> QED
    BY <2>1, <2>2
<1> QED
  BY <1>5, <1>6, <1>7, <1>8, <1>9

LEMMA StoreUpdateMirror ==
  ASSUME MInv, NEW h \in Session, StoreUpdate(h)
  PROVE  TodoKnown' /\ Mirror'
<1> DEFINE w == session[h]
           t == w.table
           row == tables[t]
<1>1. /\ w.pc \in {"flush", "updated"} /\ Finish(h)
      /\ glue' = glue /\ stray' = stray /\ lost' = lost
  BY DEF StoreUpdate, historyVars
<1>2. t \in DOMAIN tables
  BY <1>1, EngagedFacts DEF MInv
<1>3. IsRow(row) /\ IsRow(tables[t])
  BY <1>2, RowFacts DEF MInv
<1>4. CASE ~Live(t)
  <2>1. tables' = tables
    BY <1>4 DEF StoreUpdate
  <2> QED
    BY <1>1, <2>1, QuietEnds DEF RowsKept
<1>5. CASE Live(t)
  <2>1. PICK f, k : tables' = [tables EXCEPT ![t] = Stored(row, f, k)]
    BY <1>5 DEF StoreUpdate, Stored
  <2>2. /\ Stored(row, f, k).db = row.db /\ Stored(row, f, k).name = row.name
        /\ Stored(row, f, k).state = row.state
    <3>1. Stored(row, f, k).state = row.state
      BY <1>3 DEF IsRow, Stored
    <3> QED
      BY <1>3, <3>1, RowKeys
  <2>3. /\ RowsKept /\ tables'[t] = Stored(row, f, k)
        /\ \A s \in DOMAIN tables : s # t => tables'[s] = tables[s]
    BY <1>2, <2>1, <2>2, RowReplaced DEF MInv
  <2> QED
    BY <1>1, <2>2, <2>3, QuietEnds
<1> QED
  BY <1>4, <1>5

\* Both INSERTs of create_table: the name is free, and Glue not yet told.
LEMMA InsertMirror ==
  ASSUME MInv, NEW h \in Session, NEW d \in Database, NEW n \in Name, NEW c \in Column,
         Insert(h, d, n, c)
  PROVE  TodoKnown' /\ Mirror'
<1> DEFINE row == [db |-> d, name |-> n, state |-> "inserted", fields |-> <<c>>,
                   history |-> <<[version |-> 1, fields |-> <<c>>]>>]
           last == Len(tables) + 1
           w == Opened(session[h], "register", last)
<1>1. row.state = "inserted" /\ row.db = d /\ row.name = n
  OBVIOUS
<1>2. /\ tables' = Append(tables, row) /\ session[h] = Idle
      /\ session' = [session EXCEPT ![h] = w]
      /\ glue' = glue /\ stray' = stray /\ lost' = lost
      /\ \A t \in DOMAIN tables :
           tables[t].db = d /\ tables[t].name = n => tables[t].state = "dropped"
  BY DEF Insert, Opened, historyVars
<1>3. IsWork(session[h]) /\ IsSeq(tables)
  BY DEF MInv, IInv, Shape
<1> HIDE DEF row
<1>4. /\ DOMAIN tables = 1..Len(tables) /\ Len(tables) \in Nat
      /\ DOMAIN tables' = 1..last
      /\ \A t \in 1..Len(tables) : tables'[t] = tables[t]
      /\ tables'[last] = row
  BY <1>2, <1>3, AppendFacts, SeqFacts
<1>5. /\ DOMAIN tables' = DOMAIN tables \cup {last} /\ last \notin DOMAIN tables
      /\ \A t \in DOMAIN tables : tables'[t] = tables[t]
  BY <1>4
<1>6. w.pc = "register" /\ w.table = last /\ w.todo = {}
  BY <1>2, <1>3, OpenedWork, IdleFields
<1> HIDE DEF w, last
<1>7. /\ session'[h] = w
      /\ \A g \in Session : g # h => session'[g] = session[g]
  BY <1>2, SessionUpdate DEF MInv, IInv, Shape
<1>8. TodoKnown'
  BY <1>2, <1>5, <1>6, TodoKept DEF MInv
<1>9. ASSUME NEW t \in DOMAIN tables, NEW g \in Session, NEW p \in {"created", "dropped"}
      PROVE  At(g, t, p)' <=> At(g, t, p)
  BY <1>2, <1>6, <1>7, IdleFields DEF At
<1>10. \A t \in DOMAIN tables : (Standing(t)' <=> Standing(t)) /\ Entry(t)' = Entry(t)
  BY <1>5, <1>9 DEF Standing, Live, Entry
<1>11. ASSUME NEW t, t = last
       PROVE  ~Standing(t)'
  <2>1. \A g \in Session : g # h /\ session[g].pc = "created" => session[g].table # t
    BY <1>5, <1>11, EngagedFacts DEF MInv
  <2>2. \A g \in Session : ~At(g, t, "created")'
    BY <1>6, <1>7, <2>1 DEF At
  <2>3. ~Live(t)'
    BY <1>1, <1>4, <1>11 DEF Live
  <2> QED
    BY <2>2, <2>3 DEF Standing
<1>12. Mirrored' = Mirrored
  <2>1. {t \in DOMAIN tables' : Standing(t)'} = {t \in DOMAIN tables : Standing(t)}
    BY <1>5, <1>10, <1>11
  <2> QED
    BY <1>10, <2>1 DEF Mirrored
<1> QED
  BY <1>2, <1>8, <1>12, MirrorKept DEF MInv

\* Of the entries, a step changes at most the one of table t.
OthersStand(t) ==
  /\ Mirrored' \subseteq Mirrored \cup {Entry(t)}
  /\ Mirrored \subseteq Mirrored' \cup {Entry(t)}
  /\ Standing(t)' => Entry(t) \in Mirrored'
  /\ Standing(t) => Mirrored' \subseteq Mirrored
  /\ ~Standing(t)' => Mirrored' \subseteq Mirrored
  /\ ~Standing(t) => Mirrored \subseteq Mirrored'

\* A step on one table leaves the other tables standing as they were.
LEMMA OneTable ==
  ASSUME IInv, NEW h \in Session, NEW w, session' = [session EXCEPT ![h] = w], RowsKept,
         NEW t \in DOMAIN tables, session[h].table = t,
         w.table = t \/ w.pc \notin {"created", "dropped"},
         \A s \in DOMAIN tables : s # t => tables'[s] = tables[s]
  PROVE  /\ \A s \in DOMAIN tables : s # t => (Standing(s)' <=> Standing(s))
         /\ OthersStand(t)
<1>1. /\ session'[h] = w
      /\ \A g \in Session : g # h => session'[g] = session[g]
  BY SessionUpdate DEF IInv, Shape
<1>2. ASSUME NEW s \in DOMAIN tables, s # t
      PROVE  Standing(s)' <=> Standing(s)
  <2>1. ASSUME NEW g \in Session, NEW p \in {"created", "dropped"}
        PROVE  At(g, s, p)' <=> At(g, s, p)
    BY <1>1, <1>2 DEF At
  <2>2. Live(s)' <=> Live(s)
    BY <1>2 DEF Live
  <2> QED
    BY <2>1, <2>2 DEF Standing
<1>3. \A s \in DOMAIN tables : Entry(s)' = Entry(s)
  BY EntriesKept
<1>4. /\ Mirrored' = {Entry(s) : s \in {x \in DOMAIN tables : Standing(x)'}}
      /\ Mirrored = {Entry(s) : s \in {x \in DOMAIN tables : Standing(x)}}
  BY <1>3 DEF Mirrored, RowsKept
<1>5. OthersStand(t)
  BY <1>2, <1>4 DEF OthersStand
<1> QED
  BY <1>2, <1>5

LEMMA OneTableEnds ==
  ASSUME MInv, NEW h \in Session, Finish(h), RowsKept,
         NEW t \in DOMAIN tables, session[h].table = t,
         \A s \in DOMAIN tables : s # t => tables'[s] = tables[s]
  PROVE  OthersStand(t)
<1>1. PICK w : /\ session' = [session EXCEPT ![h] = w]
               /\ w.pc \notin {"created", "dropped"}
  BY IdleFields DEF Finish
<1>2. IInv
  BY DEF MInv
<1> QED
  BY <1>1, <1>2, OneTable

LEMMA DropDatabaseMirror ==
  ASSUME MInv, NEW d \in Database, DropDatabase(d)
  PROVE  TodoKnown' /\ Mirror'
<1> DEFINE swept == {x \in DOMAIN tables : tables[x].db = d /\ Live(x)}
<1>1. /\ session' = session /\ glue' = glue /\ lost' = lost
      /\ \A t \in DOMAIN tables : tables[t].db = d => ~Locked(t)
      /\ tables' = [t \in DOMAIN tables |->
           IF tables[t].db = d THEN Gone(tables[t]) ELSE tables[t]]
      /\ stray' = stray \cup {Entry(t) : t \in swept}
  BY DEF DropDatabase
<1>2. ASSUME NEW t \in DOMAIN tables
      PROVE  /\ tables'[t].db = tables[t].db /\ tables'[t].name = tables[t].name
             /\ tables'[t].state = IF tables[t].db = d THEN "dropped" ELSE tables[t].state
  BY <1>1, RowFacts, RowKeys, GoneSound DEF MInv
<1>3. DOMAIN tables' = DOMAIN tables
  BY <1>1
<1>4. RowsKept
  BY <1>2, <1>3 DEF RowsKept
<1>5. TodoKnown'
  BY <1>1, <1>3 DEF MInv, TodoKnown
<1>6. ASSUME NEW t \in DOMAIN tables
      PROVE  /\ Standing(t)' => Standing(t)
             /\ Standing(t) => Standing(t)' \/ t \in swept
  <2>1. CASE tables[t].db # d
    <3>1. Live(t)' <=> Live(t)
      BY <1>2, <2>1 DEF Live
    <3> QED
      BY <1>1, <3>1 DEF Standing, At
  <2>2. CASE tables[t].db = d
    <3>1. ~Live(t)'
      BY <1>2, <2>2 DEF Live
    <3>2. \A h \in Session : ~At(h, t, "created")
      BY <1>1, <2>2 DEF Locked, Changing, At
    <3>3. \A h \in Session : ~At(h, t, "created")'
      BY <1>1, <3>2 DEF At
    <3> QED
      BY <2>2, <3>1, <3>2, <3>3 DEF Standing
  <2> QED
    BY <2>1, <2>2
<1>7. \A t \in DOMAIN tables : Entry(t)' = Entry(t)
  BY <1>4, EntriesKept
<1>8. /\ Mirrored' \subseteq Mirrored
      /\ Mirrored \subseteq Mirrored' \cup {Entry(t) : t \in swept}
  <2> HIDE DEF swept
  <2>1. Mirrored' = {Entry(t) : t \in {x \in DOMAIN tables : Standing(x)'}}
    BY <1>3, <1>7 DEF Mirrored
  <2> QED
    BY <1>6, <2>1 DEF Mirrored
<1>9. Mirror'
  BY <1>1, <1>8 DEF MInv, Mirror
<1> QED
  BY <1>5, <1>9

\* The entry is there from now on, or lost.
LEMMA RegisterMirror ==
  ASSUME MInv, NEW h \in Session, Register(h)
  PROVE  TodoKnown' /\ Mirror'
<1> DEFINE v == session[h]
           w == Moved(v, "created")
<1>1. PICK t \in DOMAIN tables : v.table = t
  BY EngagedFacts DEF MInv, Register
<1>2. v.pc = "register" /\ tables' = tables /\ session' = [session EXCEPT ![h] = w]
  BY DEF Register, Goto, Moved
<1>3. /\ IsWork(v) /\ v.todo \subseteq DOMAIN tables
      /\ w.pc = "created" /\ w.table = t /\ w.todo = v.todo
  BY <1>1, MovedWork DEF MInv, IInv, Shape, TodoKnown
<1> HIDE DEF w
<1>4. RowsKept
  BY <1>2 DEF RowsKept
<1>5. TodoKnown'
  BY <1>2, <1>3, <1>4, TodoKept DEF MInv
<1>6. Standing(t)'
  <2>1. session'[h] = w
    BY <1>2, SessionUpdate DEF MInv, IInv, Shape
  <2> QED
    BY <1>3, <2>1 DEF Standing, At
<1>7. Mirrored' = Mirrored \cup {Entry(t)}
  <2>1. IInv /\ \A s \in DOMAIN tables : s # t => tables'[s] = tables[s]
    BY <1>2 DEF MInv
  <2>2. OthersStand(t)
    BY <1>1, <1>2, <1>3, <1>4, <2>1, OneTable
  <2> QED
    BY <1>6, <2>2 DEF OthersStand
<1>8. \/ glue' = glue \cup {Entry(t)} /\ lost' = lost \ {Entry(t)} /\ stray' = stray \ {Entry(t)}
      \/ glue' = glue /\ lost' = lost \cup {Entry(t)} /\ stray' = stray
  BY <1>1 DEF Register, GlueHas, GlueFails
<1>9. Mirror'
  BY <1>7, <1>8 DEF MInv, Mirror
<1> QED
  BY <1>5, <1>9

LEMMA CommitCreateMirror ==
  ASSUME MInv, NEW h \in Session, CommitCreate(h)
  PROVE  TodoKnown' /\ Mirror'
<1>1. PICK t \in DOMAIN tables : session[h].table = t
  BY EngagedFacts DEF MInv, CommitCreate
<1> DEFINE row == [tables[t] EXCEPT !.state = "live"]
<1>2. /\ session[h].pc = "created" /\ Finish(h) /\ tables' = [tables EXCEPT ![t] = row]
      /\ glue' = glue /\ stray' = stray /\ lost' = lost
  BY <1>1 DEF CommitCreate, historyVars
<1>3. tables[t].state = "inserted"
  BY <1>1, <1>2, EngagedFacts DEF MInv
<1>4. row.db = tables[t].db /\ row.name = tables[t].name /\ row.state = "live"
  BY <1>3, RowFacts, RowKeys, CommittedSound DEF MInv
<1> HIDE DEF row
<1>5. /\ RowsKept /\ tables'[t] = row
      /\ \A s \in DOMAIN tables : s # t => tables'[s] = tables[s]
  BY <1>2, <1>3, <1>4, RowReplaced DEF MInv
<1>6. TodoKnown'
  BY <1>2, <1>5, TodoEnds DEF MInv, RowsKept
<1>7. Standing(t) /\ Standing(t)'
  <2>1. Standing(t)
    BY <1>1, <1>2 DEF Standing, At
  <2>2. \A g \in Session : ~At(g, t, "dropped")
    BY <1>3, EngagedFacts DEF MInv, At
  <2>3. \A g \in Session : ~At(g, t, "dropped")'
    BY <1>2, <2>2, SessionUpdate, IdleFields DEF MInv, IInv, Shape, At, Finish
  <2>4. Live(t)'
    BY <1>4, <1>5 DEF Live
  <2> QED
    BY <2>1, <2>3, <2>4 DEF Standing
<1>8. Mirrored' = Mirrored
  <2>1. OthersStand(t)
    BY <1>1, <1>2, <1>5, OneTableEnds
  <2> QED
    BY <1>7, <2>1 DEF OthersStand
<1> QED
  BY <1>2, <1>6, <1>8, MirrorKept DEF MInv

\* The entry of the table's name is taken out of Glue, or stray.  Where another
\* table stands for it, it is lost.
LEMMA UnregisterMirror ==
  ASSUME MInv, NEW h \in Session, Unregister(h)
  PROVE  TodoKnown' /\ Mirror'
<1> DEFINE v == session[h]
           w == Moved(v, "dropped")
<1>1. PICK t \in DOMAIN tables : v.table = t
  BY EngagedFacts DEF MInv, Unregister
<1>2. /\ v.pc = "unregister" /\ tables' = tables
      /\ session' = [session EXCEPT ![h] = w]
  BY DEF Unregister, Goto, Moved
<1>3. /\ IsWork(v) /\ v.todo \subseteq DOMAIN tables
      /\ w.pc = "dropped" /\ w.table = t /\ w.todo = v.todo
  BY <1>1, MovedWork DEF MInv, IInv, Shape, TodoKnown
<1> HIDE DEF w
<1>4. RowsKept
  BY <1>2 DEF RowsKept
<1>5. TodoKnown'
  BY <1>2, <1>3, <1>4, TodoKept DEF MInv
<1>6. session'[h] = w /\ \A g \in Session : g # h => session'[g] = session[g]
  BY <1>2, SessionUpdate DEF MInv, IInv, Shape
<1>7. ~Standing(t)'
  <2>1. \A g \in Session : ~At(g, t, "created")
    BY <1>1, <1>2, EngagedFacts DEF MInv, At
  <2>2. \A g \in Session : ~At(g, t, "created")'
    BY <1>3, <1>6, <2>1 DEF At
  <2>3. At(h, t, "dropped")'
    BY <1>3, <1>6 DEF At
  <2> QED
    BY <2>2, <2>3 DEF Standing
<1>8. /\ Mirrored' \subseteq Mirrored
      /\ Mirrored \subseteq Mirrored' \cup {Entry(t)}
  <2>1. IInv /\ \A s \in DOMAIN tables : s # t => tables'[s] = tables[s]
    BY <1>2 DEF MInv
  <2>2. OthersStand(t)
    BY <1>1, <1>2, <1>3, <1>4, <2>1, OneTable
  <2> QED
    BY <1>7, <2>2 DEF OthersStand
<1>9. Entry(t) \in Mirrored' => Taken(t)
  <2>1. ASSUME NEW s \in DOMAIN tables, Standing(s)', Entry(s) = Entry(t)
        PROVE  Taken(t)
    <3>1. s # t
      BY <1>7, <2>1
    <3>2. Standing(s)
      <4>1. IInv /\ \A r \in DOMAIN tables : r # t => tables'[r] = tables[r]
        BY <1>2 DEF MInv
      <4>2. Standing(s)' <=> Standing(s)
        BY <1>1, <1>2, <1>3, <1>4, <3>1, <4>1, OneTable
      <4> QED
        BY <2>1, <4>2
    <3>3. tables[s].state # "dropped"
      BY <3>2, StandingRows DEF MInv
    <3> QED
      BY <2>1, <3>1, <3>3 DEF Taken
  <2>2. Mirrored' = {Entry(s) : s \in {x \in DOMAIN tables : Standing(x)'}}
    BY <1>4, EntriesKept DEF Mirrored, RowsKept
  <2> QED
    BY <2>1, <2>2
<1>10. \/ /\ glue' = glue \ {Entry(t)} /\ stray' = stray \ {Entry(t)}
          /\ lost' = IF Taken(t) THEN lost \cup {Entry(t)} ELSE lost
       \/ glue' = glue /\ stray' = stray \cup {Entry(t)} /\ lost' = lost
  BY <1>1 DEF Unregister, GlueHas, GlueFails
<1>11. (glue \ stray)' \subseteq Mirrored'
  BY <1>8, <1>10 DEF MInv, Mirror
<1>12. Mirrored' \subseteq (glue \cup lost)'
  <2>1. Mirrored \subseteq glue \cup lost
    BY DEF MInv, Mirror
  <2> QED
    BY <1>8, <1>9, <1>10, <2>1
<1> QED
  BY <1>5, <1>11, <1>12 DEF Mirror

LEMMA CommitDropMirror ==
  ASSUME MInv, NEW h \in Session, CommitDrop(h)
  PROVE  TodoKnown' /\ Mirror'
<1>1. PICK t \in DOMAIN tables : session[h].table = t
  BY EngagedFacts DEF MInv, CommitDrop
<1> DEFINE row == Gone(tables[t])
<1>2. /\ session[h].pc = "dropped" /\ Finish(h) /\ tables' = [tables EXCEPT ![t] = row]
      /\ glue' = glue /\ stray' = stray /\ lost' = lost
  BY <1>1 DEF CommitDrop, historyVars
<1>3. row.db = tables[t].db /\ row.name = tables[t].name /\ row.state = "dropped"
  BY RowFacts, RowKeys, GoneSound DEF MInv
<1> HIDE DEF row
<1>4. /\ RowsKept /\ tables'[t] = row
      /\ \A s \in DOMAIN tables : s # t => tables'[s] = tables[s]
  BY <1>2, <1>3, RowReplaced DEF MInv
<1>5. TodoKnown'
  BY <1>2, <1>4, TodoEnds DEF MInv, RowsKept
<1>6. ~Standing(t) /\ ~Standing(t)'
  <2>1. \A g \in Session : ~At(g, t, "created")
    BY <1>1, <1>2, EngagedFacts DEF MInv, At
  <2>2. \A g \in Session : ~At(g, t, "created")'
    BY <1>2, <2>1, SessionUpdate, IdleFields DEF MInv, IInv, Shape, At, Finish
  <2>3. At(h, t, "dropped")
    BY <1>1, <1>2 DEF At
  <2>4. ~Live(t)'
    BY <1>3, <1>4 DEF Live
  <2> QED
    BY <2>1, <2>2, <2>3, <2>4 DEF Standing
<1>7. Mirrored' = Mirrored
  <2>1. OthersStand(t)
    BY <1>1, <1>2, <1>4, OneTableEnds
  <2> QED
    BY <1>6, <2>1 DEF OthersStand
<1> QED
  BY <1>2, <1>5, <1>7, MirrorKept DEF MInv

\* What a synchronisation registers stands, or is stray.
LEMMA SyncMirror ==
  ASSUME MInv, NEW h \in Session, SyncNext(h)
  PROVE  TodoKnown' /\ Mirror'
<1> DEFINE v == session[h]
<1>1. /\ v.pc = "sync" /\ tables' = tables
      /\ IsWork(v) /\ v.todo \subseteq DOMAIN tables
  BY DEF SyncNext, MInv, IInv, Shape, TodoKnown
<1>2. RowsKept
  BY <1>1 DEF RowsKept
<1>3. CASE Finish(h) /\ UNCHANGED <<glue, glueFailures, lost, stray>>
  BY <1>1, <1>2, <1>3, QuietEnds
<1>4. ASSUME NEW t \in v.todo, session' = [session EXCEPT ![h].todo = @ \ {t}],
             \/ /\ glue' = glue \cup {Entry(t)} /\ lost' = lost \ {Entry(t)}
                /\ stray' = IF Outlived(t) THEN stray \cup {Entry(t)} ELSE stray
             \/ glue' = glue /\ lost' = lost /\ stray' = stray
      PROVE  TodoKnown' /\ Mirror'
  <2> DEFINE s == v.todo \ {t}
             w == Reduced(v, s)
  <2>1. session' = [session EXCEPT ![h] = w]
    BY <1>4 DEF Reduced
  <2>2. s \subseteq DOMAIN tables
    BY <1>1
  <2> HIDE DEF s
  <2>3. w.pc = "sync" /\ w.todo \subseteq DOMAIN tables
    BY <1>1, <2>2, ListedWork
  <2> HIDE DEF w
  <2>4. TodoKnown'
    BY <1>1, <1>2, <2>1, <2>3, TodoKept DEF MInv
  <2>5. Mirrored' = Mirrored
    BY <1>1, <1>2, <2>1, <2>3, MirroredKept DEF MInv
  <2>6. ~Outlived(t) => Entry(t) \in Mirrored
    <3>1. ~Outlived(t) => Standing(t)
      BY DEF Outlived, Standing, At
    <3> QED
      BY <1>1, <3>1 DEF Mirrored
  <2>7. (glue \ stray)' \subseteq Mirrored'
    BY <1>4, <2>5, <2>6 DEF MInv, Mirror
  <2>8. Mirrored' \subseteq (glue \cup lost)'
    BY <1>4, <2>5 DEF MInv, Mirror
  <2> QED
    BY <2>4, <2>7, <2>8 DEF Mirror
<1>5. \/ Finish(h) /\ UNCHANGED <<glue, glueFailures, lost, stray>>
      \/ \E t \in v.todo :
           /\ session' = [session EXCEPT ![h].todo = @ \ {t}]
           /\ \/ /\ glue' = glue \cup {Entry(t)} /\ lost' = lost \ {Entry(t)}
                 /\ stray' = IF Outlived(t) THEN stray \cup {Entry(t)} ELSE stray
              \/ glue' = glue /\ lost' = lost /\ stray' = stray
  BY DEF SyncNext, GlueHas, GlueFails
<1> QED
  BY <1>3, <1>4, <1>5

\* A rollback: a created row goes and leaves its entry stray, a dropped one stays
\* and has its entry lost.
LEMMA AbortMirror ==
  ASSUME MInv, NEW h \in Session, Abort(h)
  PROVE  TodoKnown' /\ Mirror'
<1> DEFINE v == session[h]
<1>1. /\ Finish(h) /\ glue' = glue
      /\ stray' = IF v.pc = "created" THEN stray \cup {Entry(v.table)} ELSE stray
      /\ lost' = IF v.pc = "dropped" THEN lost \cup {Entry(v.table)} ELSE lost
      /\ tables' = IF v.pc \in {"register", "created"}
                   THEN [tables EXCEPT ![v.table] = Gone(@)] ELSE tables
  BY DEF Abort
<1>2. CASE v.pc \notin {"register", "created", "dropped"}
  <2>1. tables' = tables /\ stray' = stray /\ lost' = lost
    BY <1>1, <1>2
  <2> QED
    BY <1>1, <1>2, <2>1, QuietEnds DEF RowsKept
<1>3. CASE v.pc \in {"register", "created"}
  <2>1. PICK t \in DOMAIN tables : v.table = t
    BY <1>3, EngagedFacts DEF MInv
  <2> DEFINE row == Gone(tables[t])
  <2>2. tables' = [tables EXCEPT ![t] = row] /\ tables[t].state = "inserted"
    BY <1>1, <1>3, <2>1, EngagedFacts DEF MInv
  <2>3. row.db = tables[t].db /\ row.name = tables[t].name /\ row.state = "dropped"
    BY RowFacts, RowKeys, GoneSound DEF MInv
  <2> HIDE DEF row
  <2>4. /\ RowsKept /\ tables'[t] = row
        /\ \A s \in DOMAIN tables : s # t => tables'[s] = tables[s]
    BY <2>2, <2>3, RowReplaced DEF MInv
  <2>5. CASE v.pc = "register"
    <3>1. \A s \in DOMAIN tables : tables'[s].state = "live" <=> tables[s].state = "live"
      BY <2>2, <2>3, <2>4
    <3> QED
      BY <1>1, <2>4, <2>5, <3>1, QuietEnds
  <2>6. CASE v.pc = "created"
    <3>1. Standing(t)
      BY <2>1, <2>6 DEF Standing, At
    <3>2. OthersStand(t)
      BY <1>1, <2>1, <2>4, OneTableEnds
    <3>3. stray' = stray \cup {Entry(t)} /\ lost' = lost
      BY <1>1, <2>1, <2>6
    <3>4. Mirrored' \subseteq Mirrored /\ Mirrored \subseteq Mirrored' \cup {Entry(t)}
      BY <3>1, <3>2 DEF OthersStand
    <3>5. Mirror'
      BY <1>1, <3>3, <3>4 DEF MInv, Mirror
    <3>6. TodoKnown'
      BY <1>1, <2>4, TodoEnds DEF MInv, RowsKept
    <3> QED
      BY <3>5, <3>6
  <2> QED
    BY <1>3, <2>5, <2>6
<1>4. CASE v.pc = "dropped"
  <2>1. PICK t \in DOMAIN tables : v.table = t
    BY <1>4, EngagedFacts DEF MInv
  <2>2. tables' = tables /\ stray' = stray /\ lost' = lost \cup {Entry(t)}
    BY <1>1, <1>4, <2>1
  <2>3. RowsKept
    BY <2>2 DEF RowsKept
  <2>4. ~Standing(t)
    <3>1. \A g \in Session : ~At(g, t, "created")
      BY <1>4, <2>1, EngagedFacts DEF MInv, At
    <3> QED
      BY <1>4, <2>1, <3>1 DEF Standing, At
  <2>5. OthersStand(t)
    BY <1>1, <2>1, <2>2, <2>3, OneTableEnds
  <2>6. Mirrored' \subseteq Mirrored \cup {Entry(t)} /\ Mirrored \subseteq Mirrored'
    BY <2>4, <2>5 DEF OthersStand
  <2>7. Mirror'
    BY <1>1, <2>2, <2>6 DEF MInv, Mirror
  <2>8. TodoKnown'
    BY <1>1, <2>3, TodoEnds DEF MInv, RowsKept
  <2> QED
    BY <2>7, <2>8
<1> QED
  BY <1>2, <1>3, <1>4

-----------------------------------------------------------------------------
(* The theorems *)

LEMMA StepCorrect ==
  ASSUME IInv, [Next]_vars
  PROVE  IInv'
<1>1. CASE UNCHANGED vars
  BY <1>1, StutterCorrect DEF vars
<1>2. ASSUME NEW d \in Database, CreateDatabase(d)
      PROVE  IInv'
  BY <1>2, StutterCorrect DEF CreateDatabase
<1>3. ASSUME NEW d \in Database, DropDatabase(d)
      PROVE  IInv'
  BY <1>3, DropDatabaseCorrect
<1>4. ASSUME NEW h \in Session, TableRequest(h)
      PROVE  IInv'
  <2>1. CASE \E d \in Database, n \in Name, c \in Column : Insert(h, d, n, c)
    BY <2>1, InsertCorrect
  <2>2. CASE \E t \in DOMAIN tables : SelectForDrop(h, t)
    BY <2>2, QuietStepCorrect DEF SelectForDrop
  <2>3. CASE \E t \in DOMAIN tables, u \in Requests : SelectForUpdate(h, t, u)
    BY <2>3, QuietStepCorrect DEF SelectForUpdate
  <2>4. CASE \E d \in Database : SelectForSync(h, d)
    BY <2>4, QuietStepCorrect DEF SelectForSync
  <2> QED
    BY <1>4, <2>1, <2>2, <2>3, <2>4 DEF TableRequest
<1>5. ASSUME NEW h \in Session, SessionStep(h)
      PROVE  IInv'
  <2>1. CASE Register(h) \/ Delete(h) \/ Unregister(h) \/ SyncNext(h)
    BY <2>1, QuietStepCorrect DEF Register, Delete, Unregister, SyncNext
  <2>2. CASE CommitCreate(h)
    BY <2>2, CommitCreateCorrect
  <2>3. CASE CommitDrop(h)
    BY <2>3, CommitDropCorrect
  <2>4. CASE SelectVersion(h)
    BY <2>4, SelectVersionCorrect
  <2>5. CASE StoreUpdate(h)
    BY <2>5, StoreUpdateCorrect
  <2>6. CASE Abort(h)
    BY <2>6, AbortCorrect
  <2> QED
    BY <1>5, <2>1, <2>2, <2>3, <2>4, <2>5, <2>6 DEF SessionStep
<1> QED
  BY <1>1, <1>2, <1>3, <1>4, <1>5 DEF Next

\* The inductive invariant of the requests on tables: rows and the sessions that
\* work on them fit together, whatever the replicas interleave or roll back.
THEOREM CatalogCorrect == Spec => []CatalogInvariant
<1>1. IInv => CatalogInvariant
  BY DEF IInv
<1> QED
  BY <1>1, InitCorrect, StepCorrect, PTL DEF Spec

\* For any tables and any overlap of updates, which count the versions without a
\* lock (update_table), the numbers of a table's versions leave no gap.
THEOREM VersionsCorrect == Spec => []VersionsContiguous
<1>1. ASSUME CatalogInvariant
      PROVE  VersionsContiguous
  <2>1. ASSUME NEW t \in DOMAIN tables
        PROVE  Numbers(tables[t]) = 1..LatestVersion(t)
    <3>1. PICK n \in 0..Len(tables[t].history) : Numbers(tables[t]) = 1..n
      BY <1>1 DEF CatalogInvariant, RowSound
    <3> QED
      BY <3>1, LatestVersionFacts
  <2> QED
    BY <2>1 DEF VersionsContiguous
<1> QED
  BY <1>1, CatalogCorrect, PTL

\* For any tables and any overlap of updates, the stored schema of a table is one
\* that its schema_history records.
THEOREM SchemaCorrect == Spec => []SchemaRecorded
<1>1. CatalogInvariant => SchemaRecorded
  BY DEF CatalogInvariant, RowSound, SchemaRecorded, Live
<1> QED
  BY <1>1, CatalogCorrect, PTL

LEMMA MirrorStep ==
  ASSUME MInv, [Next]_vars
  PROVE  MInv'
<1>1. IInv'
  BY StepCorrect DEF MInv
<1>2. CASE UNCHANGED vars
  <2>1. TodoKnown' /\ Mirrored' = Mirrored
    BY <1>2 DEF vars, MInv, TodoKnown, Mirrored, Standing,
                At, Live, Entry
  <2> QED
    BY <1>1, <1>2, <2>1, MirrorKept DEF MInv, vars, historyVars
<1>3. ASSUME NEW d \in Database, CreateDatabase(d)
      PROVE  TodoKnown' /\ Mirror'
  <2>1. TodoKnown' /\ Mirrored' = Mirrored
    BY <1>3 DEF CreateDatabase, MInv, TodoKnown, Mirrored,
                Standing, At, Live, Entry
  <2> QED
    BY <1>3, <2>1, MirrorKept DEF MInv, CreateDatabase, historyVars
<1>4. ASSUME NEW d \in Database, DropDatabase(d)
      PROVE  TodoKnown' /\ Mirror'
  BY <1>4, DropDatabaseMirror
<1>5. ASSUME NEW h \in Session, TableRequest(h)
      PROVE  TodoKnown' /\ Mirror'
  <2>1. CASE \E d \in Database, n \in Name, c \in Column : Insert(h, d, n, c)
    BY <2>1, InsertMirror
  <2>2. CASE ~\E d \in Database, n \in Name, c \in Column : Insert(h, d, n, c)
    BY <1>5, <2>2, SelectMirror DEF TableRequest
  <2> QED
    BY <2>1, <2>2
<1>6. ASSUME NEW h \in Session, SessionStep(h)
      PROVE  TodoKnown' /\ Mirror'
  <2>1. CASE Register(h)
    BY <2>1, RegisterMirror
  <2>2. CASE CommitCreate(h)
    BY <2>2, CommitCreateMirror
  <2>3. CASE Delete(h) \/ SelectVersion(h)
    BY <2>3, SelectMirror
  <2>4. CASE Unregister(h)
    BY <2>4, UnregisterMirror
  <2>5. CASE CommitDrop(h)
    BY <2>5, CommitDropMirror
  <2>6. CASE StoreUpdate(h)
    BY <2>6, StoreUpdateMirror
  <2>7. CASE SyncNext(h)
    BY <2>7, SyncMirror
  <2>8. CASE Abort(h)
    BY <2>8, AbortMirror
  <2> QED
    BY <1>6, <2>1, <2>2, <2>3, <2>4, <2>5, <2>6, <2>7, <2>8 DEF SessionStep
<1> QED
  <2>1. Next => TodoKnown' /\ Mirror'
    BY <1>3, <1>4, <1>5, <1>6 DEF Next
  <2> QED
    BY <1>1, <1>2, <2>1 DEF MInv

LEMMA MirrorInit == Init => MInv
<1> SUFFICES ASSUME Init
             PROVE  MInv
  OBVIOUS
<1>1. IInv
  BY InitCorrect
<1>2. DOMAIN tables = {} /\ \A h \in Session : session[h].todo = {}
  BY IdleFields DEF Init
<1>3. TodoKnown
  BY <1>2 DEF TodoKnown
<1>4. Mirror
  BY <1>2 DEF Init, Mirror, Mirrored
<1> QED
  BY <1>1, <1>3, <1>4 DEF MInv

LEMMA MirrorInvariant == Spec => []MInv
BY MirrorInit, MirrorStep, PTL DEF Spec

\* For any tables, sessions, failures and rollbacks, and any names, tables that
\* share an entry included: each committed table that Glue lacks, with no request
\* open on it, had a failed call, a drop rolled back, or the drop of another table
\* of its entry, since the entry was last set right (create_table, drop_table and
\* sync_glue, which call Glue outside of their transactions).
THEOREM MissingCorrect == Spec => []MissingEntriesAccounted
<1>1. ASSUME MInv
      PROVE  MissingEntriesAccounted
  <2>1. ASSUME NEW t \in Unmirrored
        PROVE  Entry(t) \in lost
    <3>1. t \in DOMAIN tables /\ Live(t) /\ ~Changing(t) /\ Entry(t) \notin glue
      BY <2>1 DEF Unmirrored
    <3>2. Standing(t)
      BY <3>1 DEF Changing, Standing, At
    <3>3. Entry(t) \in Mirrored
      BY <3>1, <3>2 DEF Mirrored
    <3> QED
      BY <1>1, <3>1, <3>3 DEF MInv, Mirror
  <2> QED
    BY <2>1 DEF MissingEntriesAccounted
<1> QED
  BY <1>1, MirrorInvariant, PTL

\* Likewise each entry of Glue that stands for no table, not even for one that a
\* request is about to commit or drop, had a failed call, a create rolled back, a
\* table that went with its database, or a synchronisation that came too late.
THEOREM SuperfluousCorrect == Spec => []SuperfluousEntriesAccounted
<1>1. ASSUME MInv
      PROVE  SuperfluousEntriesAccounted
  <2>1. ASSUME NEW t \in DOMAIN tables, Standing(t)
        PROVE  Live(t) \/ Changing(t)
    BY <2>1 DEF Standing, Changing, At
  <2>2. Mirrored \subseteq {Entry(t) : t \in {x \in DOMAIN tables : Live(x) \/ Changing(x)}}
    BY <2>1 DEF Mirrored
  <2> QED
    BY <1>1, <2>2 DEF MInv, Mirror, Superfluous, SuperfluousEntriesAccounted
<1> QED
  BY <1>1, MirrorInvariant, PTL

-----------------------------------------------------------------------------
(* Types.  The columns that a request leaves are computed by a recursive       *)
(* function, so that it has values at all is the first thing to show.          *)

LEMMA WithoutType ==
  ASSUME NEW fields \in Seq(Column), NEW c
  PROVE  Without(fields, c) \in Seq(Column)
<1> DEFINE m == Len(fields)
           g == [x \in Seq(Column) \X (1..m) |->
                   IF fields[x[2]] = c THEN x[1] ELSE Append(x[1], fields[x[2]])]
           kept == CHOOSE f : f = [n \in 0..m |-> IF n = 0 THEN << >>
                                                 ELSE IF fields[n] = c THEN f[n - 1]
                                                 ELSE Append(f[n - 1], fields[n])]
<1>1. m \in Nat /\ \A n \in 1..m : fields[n] \in Column
  OBVIOUS
<1>2. << >> \in Seq(Column) /\ g \in [Seq(Column) \X (1..m) -> Seq(Column)]
  BY <1>1
<1>3. \A s \in Seq(Column), n \in 1..m :
        g[<<s, n>>] = IF fields[n] = c THEN s ELSE Append(s, fields[n])
  OBVIOUS
<1>4. Without(fields, c) = kept[m]
  BY DEF Without
<1> HIDE DEF g, m
<1>5. PICK e \in [0..m -> Seq(Column)] : Unrolls(e, << >>, g, m)
  BY <1>1, <1>2, RecursionExists
<1>6. e = [n \in 0..m |-> IF n = 0 THEN << >> ELSE IF fields[n] = c THEN e[n - 1]
                            ELSE Append(e[n - 1], fields[n])]
  <2>1. ASSUME NEW n \in 0..m
        PROVE  e[n] = IF n = 0 THEN << >> ELSE IF fields[n] = c THEN e[n - 1]
                       ELSE Append(e[n - 1], fields[n])
    <3>1. CASE n = 0
      BY <1>5, <3>1 DEF Unrolls
    <3>2. CASE n # 0
      <4>1. n \in 1..m /\ n - 1 \in 0..m /\ e[n - 1] \in Seq(Column)
        BY <1>1, <3>2
      <4>2. e[n] = g[<<e[n - 1], n>>]
        BY <1>5, <3>2 DEF Unrolls
      <4> QED
        BY <1>3, <3>2, <4>1, <4>2
    <3> QED
      BY <3>1, <3>2
  <2> QED
    BY <2>1
<1>7. kept = [n \in 0..m |-> IF n = 0 THEN << >> ELSE IF fields[n] = c THEN kept[n - 1]
                               ELSE Append(kept[n - 1], fields[n])]
  BY <1>6
<1> HIDE DEF kept
<1>8. \A n \in 0..m : kept[n] = IF n = 0 THEN << >> ELSE IF fields[n] = c THEN kept[n - 1]
                                 ELSE Append(kept[n - 1], fields[n])
  BY <1>7
<1> DEFINE T == {n \in Nat : n <= m => kept[n] \in Seq(Column)}
<1>9. 0 \in T
  BY <1>1, <1>7
<1>10. ASSUME NEW n \in Nat, n \in T
      PROVE  n + 1 \in T
  <2> SUFFICES ASSUME n + 1 <= m
               PROVE  kept[n + 1] \in Seq(Column)
    OBVIOUS
  <2>0. n + 1 \in 0..m /\ n + 1 # 0
    BY <1>1, <1>10
  <2>1. kept[n] \in Seq(Column) /\ n + 1 \in 1..m /\ (n + 1) - 1 = n
    BY <1>1, <1>10
  <2>2. kept[n + 1] = IF fields[n + 1] = c THEN kept[(n + 1) - 1]
                      ELSE Append(kept[(n + 1) - 1], fields[n + 1])
    BY <1>8, <2>1, <2>0
  <2> QED
    BY <1>1, <2>1, <2>2
<1>11. m \in T
  <2> HIDE DEF T
  <2>1. Nat \subseteq T
    BY <1>9, <1>10, SetInduction
  <2> QED
    BY <1>1, <2>1
<1> QED
  BY <1>1, <1>4, <1>11

LEMMA EvolvedType ==
  ASSUME NEW fields \in Seq(Column), NEW u \in Request
  PROVE  Evolved(fields, u) \in Seq(Column)
<1>1. Added(fields, u) \in Seq(Column)
  BY DEF Added, Request
<1>2. Dropped(Added(fields, u), u) \in Seq(Column)
  BY <1>1, WithoutType DEF Dropped
<1>3. ASSUME NEW s \in Seq(Column)
      PROVE  Renamed(s, u) \in Seq(Column)
  <2>1. u.from = NoColumn <=> u.to = NoColumn
    BY DEF Request
  <2>2. u.to \in Column \cup {NoColumn}
    BY DEF Request
  <2>3. \A i \in 1..Len(s) : Renamed(s, u)[i] \in Column
    BY <2>1, <2>2, CatalogAssumption DEF Renamed
  <2>4. DOMAIN Renamed(s, u) = 1..Len(s) /\ Len(s) \in Nat
    BY DEF Renamed
  <2>5. Renamed(s, u) = [i \in 1..Len(s) |-> Renamed(s, u)[i]]
    BY DEF Renamed
  <2> QED
    BY <2>3, <2>4, <2>5
<1> QED
  BY <1>2, <1>3 DEF Evolved

Entries == {GlueName(d, n) : d \in Database, n \in Name}

LEMMA EntryType ==
  ASSUME TypeOK, NEW t \in DOMAIN tables
  PROVE  Entry(t) \in Entries
<1>1. tables[t] \in Table
  BY DEF TypeOK
<1>2. tables[t].db \in Database /\ tables[t].name \in Name
  BY <1>1 DEF Table
<1> QED
  BY <1>2 DEF Entry, Entries

LEMMA RowPut ==
  ASSUME TypeOK, NEW t \in DOMAIN tables, NEW row \in Table
  PROVE  /\ [tables EXCEPT ![t] = row] \in Seq(Table)
         /\ Len([tables EXCEPT ![t] = row]) <= MaxTables
BY DEF TypeOK

LEMMA GoneType ==
  ASSUME NEW row \in Table
  PROVE  Gone(row) \in Table
<1>1. << >> \in Seq(Column) /\ << >> \in Seq(Version)
  OBVIOUS
<1> HIDE DEF Version
<1> QED
  BY <1>1 DEF Gone, Table

\* A step that moves one session and leaves everything else typed.
LEMMA TypeMoves ==
  ASSUME TypeOK, NEW h \in Session, NEW w \in Work, session' = [session EXCEPT ![h] = w],
         databases' = databases, tables' \in Seq(Table), Len(tables') <= MaxTables,
         glue' \subseteq Entries, lost' \subseteq Entries, stray' \subseteq Entries,
         glueFailures' \in 0..MaxGlueFailures, aborts' \in 0..MaxAborts
  PROVE  TypeOK'
<1>1. session' \in [Session -> Work]
  BY DEF TypeOK
<1> QED
  BY <1>1 DEF TypeOK, Entries

LEMMA TypedFacts ==
  ASSUME TypeOK
  PROVE  /\ databases \subseteq Database /\ tables \in Seq(Table) /\ Len(tables) <= MaxTables
         /\ glue \subseteq Entries /\ lost \subseteq Entries /\ stray \subseteq Entries
         /\ glueFailures \in 0..MaxGlueFailures /\ aborts \in 0..MaxAborts
         /\ \A h \in Session : session[h] \in Work
         /\ MaxTables \in Nat /\ MaxGlueFailures \in Nat /\ MaxAborts \in Nat
         /\ DOMAIN tables = 1..Len(tables) /\ DOMAIN tables \subseteq 0..MaxTables
         /\ \A t \in DOMAIN tables : tables[t] \in Table
BY CatalogAssumption DEF TypeOK, Entries

LEMMA IdleType == Idle \in Work
<1>1. NoRequest \in Request
  BY DEF NoRequest, Request
<1>2. << >> \in Seq(Column) /\ MaxTables \in Nat
  BY CatalogAssumption
<1> HIDE DEF Request, NoRequest
<1> QED
  BY <1>1, <1>2 DEF Idle, Work

LEMMA WorkTypes ==
  ASSUME NEW w \in Work, NEW t \in 0..MaxTables,
         NEW p \in {"idle", "register", "created", "delete", "unregister",
                    "dropped", "version", "flush", "updated", "sync"},
         NEW b \in Seq(Column), NEW u \in Request, NEW n \in Nat,
         NEW s \in SUBSET (1..MaxTables)
  PROVE  /\ Moved(w, p) \in Work /\ Opened(w, p, t) \in Work
         /\ Loaded(w, p, t, b, u) \in Work /\ Numbered(w, p, n) \in Work
         /\ Listed(w, p, s) \in Work /\ Reduced(w, s) \in Work
<1> HIDE DEF Request
<1> QED
  BY DEF Work, Moved, Opened, Loaded, Numbered, Listed, Reduced

LEMMA TableRequestType ==
  ASSUME TypeOK, IInv, TodoKnown, NEW h \in Session, TableRequest(h)
  PROVE  TypeOK'
<1> DEFINE w == session[h]
<1>1. w \in Work
  BY TypedFacts
<1>2. ASSUME NEW d \in Database, NEW n \in Name, NEW c \in Column, Insert(h, d, n, c)
      PROVE  TypeOK'
  <2> DEFINE v == [version |-> 1, fields |-> <<c>>]
             row == [db |-> d, name |-> n, state |-> "inserted", fields |-> <<c>>,
                     history |-> <<v>>]
             x == Opened(w, "register", Len(tables) + 1)
  <2>1. /\ tables' = Append(tables, row) /\ session' = [session EXCEPT ![h] = x]
        /\ Len(tables) < MaxTables
        /\ UNCHANGED <<databases, glue, historyVars>>
    BY <1>2 DEF Insert, Opened
  <2>2. v \in Version /\ <<c>> \in Seq(Column)
    BY DEF Version
  <2>3. <<v>> \in Seq(Version)
    BY <2>2
  <2>4. row \in Table
    <3> HIDE DEF v
    <3> QED
      BY <2>2, <2>3 DEF Table
  <2>5. Len(tables) + 1 \in 0..MaxTables
    BY <2>1, TypedFacts
  <2>6. x \in Work
    <3>1. << >> \in Seq(Column) /\ {} \in SUBSET (1..MaxTables) /\ w.request \in Request
      BY <1>1 DEF Work
    <3> QED
      BY <1>1, <2>5, <3>1, WorkTypes
  <2> HIDE DEF row, x
  <2>7. tables' \in Seq(Table) /\ Len(tables') <= MaxTables
    BY <2>1, <2>4, TypedFacts
  <2> QED
    BY <2>1, <2>6, <2>7, TypedFacts, TypeMoves DEF historyVars
<1>3. ASSUME NEW x \in Work, session' = [session EXCEPT ![h] = x],
             UNCHANGED <<databases, tables, glue, historyVars>>
      PROVE  TypeOK'
  BY <1>3, TypedFacts, TypeMoves DEF historyVars
<1>4. /\ w.base \in Seq(Column) /\ w.request \in Request /\ w.version \in Nat
      /\ w.todo \in SUBSET (1..MaxTables) /\ w.table \in 0..MaxTables
  BY <1>1 DEF Work
<1>5. ASSUME NEW t \in DOMAIN tables, SelectForDrop(h, t)
      PROVE  TypeOK'
  <2>1. Opened(w, "delete", t) \in Work
    BY <1>1, <1>4, TypedFacts, WorkTypes
  <2> QED
    BY <1>3, <1>5, <2>1 DEF SelectForDrop, Opened
<1>6. ASSUME NEW t \in DOMAIN tables, NEW u \in Requests, SelectForUpdate(h, t, u)
      PROVE  TypeOK'
  <2>1. tables[t].fields \in Seq(Column)
    BY TypedFacts DEF Table
  <2>2. u \in Request /\ t \in 0..MaxTables
    BY CatalogAssumption, TypedFacts
  <2>3. Loaded(w, "version", t, tables[t].fields, u) \in Work
    BY <1>1, <1>4, <2>1, <2>2, WorkTypes
  <2> QED
    BY <1>3, <1>6, <2>3 DEF SelectForUpdate, Loaded
<1>7. ASSUME NEW d \in Database, SelectForSync(h, d)
      PROVE  TypeOK'
  <2> DEFINE s == {t \in DOMAIN tables : Live(t) /\ tables[t].db = d}
  <2>1. s \in SUBSET (1..MaxTables)
    BY TypedFacts
  <2>2. Listed(w, "sync", s) \in Work
    BY <1>1, <1>4, <2>1, WorkTypes
  <2> QED
    BY <1>3, <1>7, <2>2 DEF SelectForSync, Listed
<1> QED
  BY <1>2, <1>5, <1>6, <1>7 DEF TableRequest

LEMMA SessionStepType ==
  ASSUME TypeOK, IInv, TodoKnown, NEW h \in Session, SessionStep(h)
  PROVE  TypeOK'
<1> DEFINE w == session[h]
           t == w.table
<1>1. /\ w \in Work /\ w.base \in Seq(Column) /\ w.request \in Request /\ w.version \in Nat
      /\ w.todo \in SUBSET (1..MaxTables) /\ t \in 0..MaxTables
  BY TypedFacts DEF Work
<1>2. w.pc \notin {"idle", "sync"} => t \in DOMAIN tables
  BY EngagedFacts
<1>3. ASSUME NEW p \in {"created", "unregister", "dropped"}, Goto(h, p)
      PROVE  Moved(w, p) \in Work /\ session' = [session EXCEPT ![h] = Moved(w, p)]
  BY <1>1, <1>3, WorkTypes DEF Goto, Moved
<1>4. GlueFails => glue' = glue /\ glueFailures' \in 0..MaxGlueFailures
  BY TypedFacts DEF GlueFails
<1>5. CASE Register(h)
  <2>1. Entry(t) \in Entries
    BY <1>2, <1>5, EntryType DEF Register
  <2>2. glue' \subseteq Entries /\ lost' \subseteq Entries /\ stray' \subseteq Entries
        /\ glueFailures' \in 0..MaxGlueFailures
    BY <1>4, <1>5, <2>1, TypedFacts DEF Register, GlueHas
  <2>3. Goto(h, "created") /\ UNCHANGED <<databases, tables, aborts>>
    BY <1>5 DEF Register
  <2> QED
    BY <1>3, <2>2, <2>3, TypedFacts, TypeMoves
<1>6. CASE Unregister(h)
  <2>1. Entry(t) \in Entries
    BY <1>2, <1>6, EntryType DEF Unregister
  <2>2. glue' \subseteq Entries /\ lost' \subseteq Entries /\ stray' \subseteq Entries
        /\ glueFailures' \in 0..MaxGlueFailures
    BY <1>4, <1>6, <2>1, TypedFacts DEF Unregister, GlueHas
  <2>3. Goto(h, "dropped") /\ UNCHANGED <<databases, tables, aborts>>
    BY <1>6 DEF Unregister
  <2> QED
    BY <1>3, <2>2, <2>3, TypedFacts, TypeMoves
<1>7. CASE Delete(h)
  BY <1>3, <1>7, TypedFacts, TypeMoves DEF Delete, historyVars
<1>8. ASSUME Finish(h), databases' = databases, NEW row \in Table,
             \/ tables' = tables
             \/ t \in DOMAIN tables /\ tables' = [tables EXCEPT ![t] = row],
             glue' = glue, glueFailures' = glueFailures,
             lost' \subseteq Entries, stray' \subseteq Entries, aborts' \in 0..MaxAborts
      PROVE  TypeOK'
  <2>1. tables' \in Seq(Table) /\ Len(tables') <= MaxTables
    BY <1>8, RowPut, TypedFacts
  <2> QED
    BY <1>8, <2>1, IdleType, TypedFacts, TypeMoves DEF Finish
<1>9. CASE CommitCreate(h)
  <2>1. t \in DOMAIN tables /\ tables[t] \in Table
    BY <1>2, <1>9, TypedFacts DEF CommitCreate
  <2> DEFINE row == [tables[t] EXCEPT !.state = "live"]
  <2>2. row \in Table
    BY <2>1 DEF Table
  <2>3. Finish(h) /\ tables' = [tables EXCEPT ![t] = row]
        /\ UNCHANGED <<databases, glue, historyVars>>
    BY <1>9 DEF CommitCreate
  <2> HIDE DEF row
  <2> QED
    BY <1>8, <2>1, <2>2, <2>3, TypedFacts DEF historyVars
<1>10. CASE CommitDrop(h)
  <2>1. t \in DOMAIN tables /\ Gone(tables[t]) \in Table
    BY <1>2, <1>10, TypedFacts, GoneType DEF CommitDrop
  <2>2. Finish(h) /\ tables' = [tables EXCEPT ![t] = Gone(tables[t])]
        /\ UNCHANGED <<databases, glue, historyVars>>
    BY <1>10 DEF CommitDrop
  <2> QED
    BY <1>8, <2>1, <2>2, TypedFacts DEF historyVars
<1>11. CASE SelectVersion(h)
  <2>1. UNCHANGED <<databases, tables, glue, historyVars>> /\ t \in DOMAIN tables
    BY <1>2, <1>11 DEF SelectVersion
  <2>2. LatestVersion(t) + 1 \in Nat
    BY <2>1, RowFacts
  <2>3. PICK p \in {"updated", "flush"} :
          Finish(h) \/ session' = [session EXCEPT ![h] = Numbered(w, p, LatestVersion(t) + 1)]
    BY <1>11 DEF SelectVersion, Numbered
  <2>4. Numbered(w, p, LatestVersion(t) + 1) \in Work
    <3>1. \A n \in Nat : Numbered(w, p, n) \in Work
      BY <1>1, WorkTypes
    <3> QED
      BY <2>2, <3>1
  <2>5. PICK x \in Work : session' = [session EXCEPT ![h] = x]
    BY <2>3, <2>4, IdleType DEF Finish
  <2> QED
    BY <2>1, <2>5, TypedFacts, TypeMoves DEF historyVars
<1>12. CASE StoreUpdate(h)
  <2> DEFINE e == [version |-> w.version, fields |-> Evolved(w.base, w.request)]
             f == IF w.pc = "updated" THEN e.fields ELSE tables[t].fields
             k == IF Changes(w.base, w.request) THEN Append(tables[t].history, e)
                  ELSE tables[t].history
             row == Stored(tables[t], f, k)
  <2>1. t \in DOMAIN tables /\ tables[t] \in Table
    BY <1>2, <1>12, TypedFacts DEF StoreUpdate
  <2>2. e \in Version /\ e.fields \in Seq(Column)
    BY <1>1, EvolvedType DEF Version
  <2>3. tables[t].fields \in Seq(Column) /\ tables[t].history \in Seq(Version)
    BY <2>1 DEF Table
  <2>4. f \in Seq(Column) /\ k \in Seq(Version)
    <3> HIDE DEF e
    <3> QED
      BY <2>2, <2>3
  <2>5. Finish(h) /\ (tables' = tables \/ tables' = [tables EXCEPT ![t] = row])
        /\ UNCHANGED <<databases, glue, historyVars>>
    BY <1>12 DEF StoreUpdate, Stored
  <2>6. row \in Table
    <3> HIDE DEF f, k
    <3> QED
      BY <2>1, <2>4 DEF Stored, Table
  <2> HIDE DEF row
  <2> QED
    BY <1>8, <2>1, <2>5, <2>6, TypedFacts DEF historyVars
<1>13. CASE SyncNext(h)
  <2>1. UNCHANGED <<databases, tables, aborts>>
    BY <1>13 DEF SyncNext
  <2>2. CASE Finish(h) /\ UNCHANGED <<glue, glueFailures, lost, stray>>
    BY <2>1, <2>2, IdleType, TypedFacts, TypeMoves DEF Finish
  <2>3. CASE ~(Finish(h) /\ UNCHANGED <<glue, glueFailures, lost, stray>>)
    <3>1. PICK s \in w.todo :
            /\ session' = [session EXCEPT ![h] = Reduced(w, w.todo \ {s})]
            /\ \/ /\ GlueHas(glue \cup {Entry(s)})
                  /\ lost' = lost \ {Entry(s)}
                  /\ stray' = IF Outlived(s) THEN stray \cup {Entry(s)} ELSE stray
               \/ GlueFails /\ UNCHANGED <<lost, stray>>
      BY <1>13, <2>3 DEF SyncNext, Reduced
    <3>2. Entry(s) \in Entries
      BY <3>1, EntryType DEF TodoKnown
    <3>3. glue' \subseteq Entries /\ lost' \subseteq Entries /\ stray' \subseteq Entries
          /\ glueFailures' \in 0..MaxGlueFailures
      BY <1>4, <3>1, <3>2, TypedFacts DEF GlueHas
    <3>4. Reduced(w, w.todo \ {s}) \in Work
      BY <1>1, WorkTypes
    <3> QED
      BY <2>1, <3>1, <3>3, <3>4, TypedFacts, TypeMoves
  <2> QED
    BY <2>2, <2>3
<1>14. CASE Abort(h)
  <2>1. /\ Finish(h) /\ UNCHANGED <<databases, glue, glueFailures>>
        /\ aborts' \in 0..MaxAborts
    BY <1>14, TypedFacts DEF Abort
  <2>2. w.pc \in {"created", "dropped"} => Entry(t) \in Entries
    BY <1>2, EntryType
  <2>3. lost' \subseteq Entries /\ stray' \subseteq Entries
    BY <1>14, <2>2, TypedFacts DEF Abort
  <2>4. \/ tables' = tables
        \/ t \in DOMAIN tables /\ tables' = [tables EXCEPT ![t] = Gone(tables[t])]
    BY <1>2, <1>14 DEF Abort
  <2>5. CASE t \in DOMAIN tables
    <3>1. Gone(tables[t]) \in Table
      BY <2>5, GoneType, TypedFacts
    <3> QED
      BY <1>8, <2>1, <2>3, <2>4, <3>1
  <2>6. CASE t \notin DOMAIN tables
    BY <2>1, <2>3, <2>4, <2>6, IdleType, TypedFacts, TypeMoves DEF Finish
  <2> QED
    BY <2>5, <2>6
<1> QED
  BY <1>5, <1>6, <1>7, <1>9, <1>10, <1>11, <1>12, <1>13, <1>14 DEF SessionStep

LEMMA InitType == Init => TypeOK
<1> SUFFICES ASSUME Init
             PROVE  TypeOK
  OBVIOUS
<1>1. << >> \in Seq(Table) /\ Len(<< >>) = 0
  OBVIOUS
<1> QED
  BY <1>1, IdleType, CatalogAssumption DEF Init, TypeOK

LEMMA StepType ==
  ASSUME TypeOK, IInv, TodoKnown, [Next]_vars
  PROVE  TypeOK'
<1>1. CASE UNCHANGED vars
  BY <1>1 DEF TypeOK, vars, historyVars
<1>2. ASSUME NEW d \in Database, CreateDatabase(d)
      PROVE  TypeOK'
  BY <1>2 DEF TypeOK, CreateDatabase, historyVars
<1>3. ASSUME NEW d \in Database, DropDatabase(d)
      PROVE  TypeOK'
  <2>1. /\ databases' \subseteq Database
        /\ UNCHANGED <<glue, session, glueFailures, aborts, lost>>
    BY <1>3, TypedFacts DEF DropDatabase
  <2>2. stray' \subseteq Entries
    BY <1>3, EntryType, TypedFacts DEF DropDatabase
  <2>3. \A t \in DOMAIN tables : tables[t] \in Table /\ Gone(tables[t]) \in Table
    BY TypedFacts, GoneType
  <2>4. /\ DOMAIN tables' = 1..Len(tables) /\ Len(tables) \in Nat
        /\ tables' = [t \in 1..Len(tables) |->
             IF tables[t].db = d THEN Gone(tables[t]) ELSE tables[t]]
    BY <1>3, TypedFacts DEF DropDatabase
  <2>5. \A t \in 1..Len(tables) : tables'[t] \in Table
    BY <2>3, <2>4, TypedFacts
  <2>6. tables' \in Seq(Table) /\ Len(tables') = Len(tables)
    BY <2>4, <2>5
  <2> QED
    BY <2>1, <2>2, <2>6, TypedFacts DEF TypeOK, Entries
<1> QED
  BY <1>1, <1>2, <1>3, TableRequestType, SessionStepType DEF Next

\* Columns, versions, histories, sessions and the entries of Glue keep their types
\* for any requests: no update leaves a column without a name, whatever it adds,
\* drops and renames (update_table).
THEOREM CatalogTypeCorrect == Spec => []TypeOK
<1>1. MInv => IInv /\ TodoKnown
  BY DEF MInv
<1> QED
  BY <1>1, InitType, StepType, MirrorInvariant, PTL DEF Spec

=============================================================================
