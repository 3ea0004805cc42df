-------------------------- MODULE LogStreamProofs --------------------------
(***************************************************************************)
(* For every finite set of streams, every limit and every resolution of    *)
(* the timestamps: a connection sees its lines in order and none twice.    *)
(***************************************************************************)
EXTENDS LogStream, FiniteSetTheorems, SequenceTheorems, TLAPS

\* Within a stream lines are numbered in the order of their times.
StoreOrdered ==
  \A s \in Stream :
    /\ Len(store[s]) <= MaxLines
    /\ \A i, j \in DOMAIN store[s] : i < j => store[s][i] <= store[s][j]

\* The cursor has passed every line sent.
CursorPassed == \A i \in DOMAIN shown : Timestamp(shown[i]) <= last

\* The invariant that is inductive.
IInv ==
  /\ TypeOK
  /\ StoreOrdered
  /\ CursorPassed
  /\ ShownInOrder

-----------------------------------------------------------------------------
(* Time *)

LEMMA DivMonotone ==
  ASSUME NEW a \in Nat, NEW b \in Nat, NEW k \in Nat \ {0}, a <= b
  PROVE  a \div k <= b \div k /\ a \div k \in 0..a
OBVIOUS

LEMMA TimestampType ==
  ASSUME NEW l \in Line
  PROVE  Timestamp(l) \in 0..MaxTime
<1>1. l.at \in Nat /\ l.at <= MaxTime
  BY LogStreamAssumption DEF Line
<1>2. l.at \div Resolution \in 0..l.at
  BY <1>1, LogStreamAssumption, DivMonotone
<1> QED
  BY <1>1, <1>2, LogStreamAssumption DEF Timestamp

-----------------------------------------------------------------------------
(* What Loki answers. *)

LEMMA LinesType ==
  ASSUME IInv
  PROVE  Lines \subseteq Line
<1>1. ASSUME NEW s \in Stream, NEW i \in DOMAIN store[s]
      PROVE  [stream |-> s, no |-> i, at |-> store[s][i]] \in Line
  <2>1. store[s] \in Seq(1..MaxTime) /\ Len(store[s]) <= MaxLines
    BY DEF IInv, TypeOK, StoreOrdered
  <2>2. i \in 1..Len(store[s])
    BY <2>1
  <2>3. i \in 1..MaxLines
    BY <2>1, <2>2, LogStreamAssumption
  <2>4. store[s][i] \in 1..MaxTime
    BY <2>1, <2>2, ElementOfSeq
  <2> QED
    BY <2>3, <2>4 DEF Line
<1> QED
  BY <1>1 DEF Lines

LEMMA LinesFinite ==
  ASSUME NEW S \in SUBSET Line
  PROVE  IsFiniteSet(S) /\ Cardinality(S) \in Nat
<1> DEFINE T == (Stream \X (1..MaxLines)) \X (1..MaxTime)
           f == [l \in S |-> <<<<l.stream, l.no>>, l.at>>]
<1>1. IsFiniteSet(T)
  <2>1. IsFiniteSet(1..MaxLines) /\ IsFiniteSet(1..MaxTime)
    BY LogStreamAssumption, FS_Interval
  <2>2. IsFiniteSet(Stream \X (1..MaxLines))
    BY <2>1, LogStreamAssumption, FS_Product
  <2> QED
    BY <2>1, <2>2, FS_Product
<1>2. f \in [S -> T]
  BY DEF Line
<1>3. ASSUME NEW l \in S, NEW m \in S, f[l] = f[m]
      PROVE  l = m
  <2>1. l \in Line /\ m \in Line
    OBVIOUS
  <2>2. l.stream = m.stream /\ l.no = m.no /\ l.at = m.at
    BY <1>3
  <2> QED
    BY <2>1, <2>2 DEF Line
<1>4. f \in Injection(S, T)
  BY <1>2, <1>3 DEF Injection, IsInjective
<1> QED
  BY <1>1, <1>4, FS_Injection, FS_CardinalityType

LEMMA AnswerType ==
  ASSUME IInv, NEW answer \in QueryLogs(Limit)
  PROVE  answer \in Seq(Line) /\ Len(answer) <= Limit
<1>1. CASE answer = << >>
  BY <1>1, LogStreamAssumption
<1>2. CASE answer \in Answers(Limit)
  <2>1. PICK S \in Newest(Limit) : answer \in SetToSeqs(S)
    BY <1>2 DEF Answers
  <2>2. S \subseteq Line /\ Cardinality(S) <= Limit
    BY LinesType DEF Newest, Recent
  <2>3. Cardinality(S) \in Nat
    BY <2>2, LinesFinite
  <2>4. answer \in [1..Cardinality(S) -> S]
    BY <2>1 DEF SetToSeqs
  <2>5. answer \in Seq(S) /\ Len(answer) = Cardinality(S)
    BY <2>3, <2>4
  <2>6. answer \in Seq(Line)
    BY <2>2, <2>3, <2>4
  <2> QED
    BY <2>2, <2>5, <2>6
<1> QED
  BY <1>1, <1>2 DEF QueryLogs

-----------------------------------------------------------------------------
(* One step of the generator, of Loki or of the client. *)

LEMMA WriteSound ==
  ASSUME IInv, NEW s \in Stream, Write(s)
  PROVE  IInv'
<1>1. PICK t \in 1..MaxTime :
        /\ \A i \in DOMAIN store[s] : store[s][i] <= t
        /\ store' = [store EXCEPT ![s] = Append(store[s], t)]
  <2>1. horizon + 1 .. MaxTime \subseteq 1..MaxTime
    BY LogStreamAssumption DEF IInv, TypeOK
  <2> QED
    BY <2>1, Zenon DEF Write
<1>2. store \in [Stream -> Seq(1..MaxTime)] /\ Len(store[s]) < MaxLines
  BY DEF IInv, TypeOK, Write
<1>3. store[s] \in Seq(1..MaxTime)
  BY <1>2
<1> DEFINE old == store[s]
           new == Append(store[s], t)
<1>4. /\ new \in Seq(1..MaxTime) /\ Len(new) = Len(old) + 1
      /\ \A i \in 1..Len(old) : new[i] = old[i]
      /\ new[Len(old) + 1] = t
      /\ DOMAIN new = 1..(Len(old) + 1) /\ DOMAIN old = 1..Len(old)
      /\ Len(old) \in Nat
  BY <1>3, AppendProperties
<1>5. \A i, j \in DOMAIN old : i < j => old[i] <= old[j]
  BY DEF IInv, StoreOrdered
<1>6. \A i \in DOMAIN old : old[i] <= t
  BY <1>1
<1>7. /\ store' \in [Stream -> Seq(1..MaxTime)]
      /\ store'[s] = new
      /\ \A q \in Stream \ {s} : store'[q] = store[q]
  BY <1>1, <1>2, <1>4
<1> HIDE DEF old, new
<1>8. \A i, j \in DOMAIN new : i < j => new[i] <= new[j]
  BY <1>4, <1>5, <1>6
<1>9. Len(new) <= MaxLines
  BY <1>2, <1>4, LogStreamAssumption DEF old
<1>10. StoreOrdered'
  <2>1. ASSUME NEW q \in Stream
        PROVE  /\ Len(store'[q]) <= MaxLines
               /\ \A i, j \in DOMAIN store'[q] : i < j => store'[q][i] <= store'[q][j]
    <3>1. CASE q = s
      BY <1>7, <1>8, <1>9, <3>1
    <3>2. CASE q # s
      BY <1>7, <3>2 DEF IInv, StoreOrdered
    <3> QED
      BY <3>1, <3>2
  <2> QED
    BY <2>1 DEF StoreOrdered
<1>11. UNCHANGED <<horizon, pending, last, shown, connections>>
  BY DEF Write
<1> QED
  BY <1>7, <1>10, <1>11
     DEF IInv, TypeOK, CursorPassed, ShownInOrder, Timestamp

LEMMA TimePassesSound ==
  ASSUME IInv, TimePasses
  PROVE  IInv'
BY LogStreamAssumption
   DEF IInv, TypeOK, StoreOrdered, CursorPassed, ShownInOrder, Timestamp, TimePasses

LEMMA PollSound ==
  ASSUME IInv, Poll
  PROVE  IInv'
<1>1. pending' \in Seq(Line) /\ Len(pending') <= Limit
  BY AnswerType DEF Poll
<1>2. UNCHANGED <<store, horizon, last, shown, connections>>
  BY DEF Poll
<1> QED
  BY <1>1, <1>2
     DEF IInv, TypeOK, StoreOrdered, CursorPassed, ShownInOrder, Timestamp

\* What is sent is newer than the cursor, and the cursor newer than the rest.
LEMMA LookSound ==
  ASSUME IInv, Look
  PROVE  IInv'
<1> DEFINE h == Head(pending)
<1>1. /\ pending \in Seq(Line) /\ pending # << >> /\ pending' = Tail(pending)
      /\ Len(pending) \in Nat /\ Len(pending) > 0
  BY DEF IInv, TypeOK, Look
<1>2. /\ h \in Line
      /\ pending' \in Seq(Line) /\ Len(pending') = Len(pending) - 1
  BY <1>1, HeadTailProperties
<1>3. UNCHANGED <<store, horizon, connections>>
  BY DEF Look
<1>4. shown \in Seq(Line) /\ last \in Int /\ Len(pending) <= Limit
  BY LogStreamAssumption DEF IInv, TypeOK, Never
<1>5. StoreOrdered'
  BY <1>3 DEF IInv, StoreOrdered
<1> HIDE DEF h
<1>6. CASE Timestamp(h) > last
  <2>1. shown' = Append(shown, h) /\ last' = Timestamp(h)
    BY <1>6 DEF Look, Send, h
  <2>2. Timestamp(h) \in 0..MaxTime /\ Timestamp(h) \in Int /\ MaxTime \in Int
    BY <1>2, TimestampType, LogStreamAssumption
  <2>3. /\ shown' \in Seq(Line)
        /\ DOMAIN shown' = 1..(Len(shown) + 1) /\ DOMAIN shown = 1..Len(shown)
        /\ \A i \in DOMAIN shown : shown'[i] = shown[i]
        /\ shown'[Len(shown) + 1] = h
        /\ Len(shown) \in Nat
    BY <1>2, <1>4, <2>1, AppendProperties
  <2>4. \A i \in DOMAIN shown :
          Timestamp(shown[i]) \in Int /\ Timestamp(shown[i]) <= last
    BY <1>4, TimestampType, ElementOfSeq, LogStreamAssumption
       DEF IInv, CursorPassed
  <2>5. \A i \in DOMAIN shown' :
          \/ i \in DOMAIN shown /\ shown'[i] = shown[i]
          \/ i = Len(shown) + 1 /\ shown'[i] = h
    BY <2>3
  <2>6. TypeOK'
    BY <1>1, <1>2, <1>3, <1>4, <2>1, <2>2, <2>3, LogStreamAssumption
       DEF IInv, TypeOK
  <2>7. CursorPassed'
    <3>1. \A i \in DOMAIN shown' : Timestamp(shown'[i]) <= last'
      BY <1>4, <1>6, <2>1, <2>2, <2>4, <2>5
    <3> QED
      BY <3>1 DEF CursorPassed, Timestamp
  <2>8. ShownInOrder'
    <3>1. ASSUME NEW i \in DOMAIN shown', NEW j \in DOMAIN shown', i < j
          PROVE  Timestamp(shown'[i]) < Timestamp(shown'[j])
      <4>1. i \in DOMAIN shown /\ shown'[i] = shown[i]
        BY <2>3, <3>1
      <4>2. CASE j \in DOMAIN shown /\ shown'[j] = shown[j]
        BY <3>1, <4>1, <4>2 DEF IInv, ShownInOrder
      <4>3. CASE shown'[j] = h
        BY <1>4, <1>6, <2>2, <2>4, <4>1, <4>3
      <4> QED
        BY <2>5, <4>2, <4>3
    <3> QED
      BY <3>1 DEF ShownInOrder, Timestamp
  <2> QED
    BY <1>5, <2>6, <2>7, <2>8 DEF IInv
<1>7. CASE ~(Timestamp(h) > last)
  <2>1. UNCHANGED <<shown, last>>
    BY <1>7 DEF Look, h
  <2> QED
    BY <1>1, <1>2, <1>3, <1>4, <1>5, <2>1, LogStreamAssumption
       DEF IInv, TypeOK, CursorPassed, ShownInOrder, Timestamp
<1> QED
  BY <1>6, <1>7

LEMMA ReconnectSound ==
  ASSUME IInv, Reconnect
  PROVE  IInv'
<1>1. /\ pending' = << >> /\ last' = Never /\ shown' = << >>
      /\ UNCHANGED <<store, horizon>> /\ connections' = connections + 1
      /\ connections < MaxConnections
  BY DEF Reconnect
<1>2. connections' \in 1..MaxConnections
  BY <1>1, LogStreamAssumption DEF IInv, TypeOK
<1> QED
  BY <1>1, <1>2, LogStreamAssumption
     DEF IInv, TypeOK, StoreOrdered, CursorPassed, ShownInOrder

\* The stream stays in order, whatever Loki answers and whoever reconnects.
LEMMA StreamInvariant == Spec => []IInv
<1>1. Init => IInv
  BY LogStreamAssumption
     DEF Init, IInv, TypeOK, StoreOrdered, CursorPassed, ShownInOrder
<1>2. IInv /\ [Next]_vars => IInv'
  <2> SUFFICES ASSUME IInv, [Next]_vars
               PROVE  IInv'
    OBVIOUS
  <2>1. CASE UNCHANGED vars
    BY <2>1
       DEF vars, IInv, TypeOK, StoreOrdered, CursorPassed, ShownInOrder, Timestamp
  <2>2. CASE Next
    BY <2>2, WriteSound, TimePassesSound, PollSound, LookSound, ReconnectSound DEF Next
  <2> QED
    BY <2>1, <2>2
<1> QED
  BY <1>1, <1>2, PTL DEF Spec

-----------------------------------------------------------------------------
(* The theorems. *)

\* Every variable keeps its type; no answer is longer than the limit the
\* service asks Loki for.
THEOREM StreamTypeCorrect == Spec => []TypeOK
<1>1. IInv => TypeOK
  BY DEF IInv
<1> QED
  BY <1>1, StreamInvariant, PTL

\* No connection is sent a line twice or an older one after a newer one, in
\* whatever order an answer has its streams and however answers overlap.
THEOREM ShownOrdered == Spec => []ShownInOrder
<1>1. IInv => ShownInOrder
  BY DEF IInv
<1> QED
  BY <1>1, StreamInvariant, PTL
=============================================================================
