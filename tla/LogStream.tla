----------------------------- MODULE LogStream -----------------------------
(***************************************************************************)
(* log-service: the Server-Sent Events stream of a job's log.  The service *)
(* asks Loki every two seconds for the newest Limit lines of the last 24   *)
(* hours and sends what is newer than the last line it sent.  Loki files a *)
(* line under a stream, one for each set of labels, and answers stream by  *)
(* stream.                                                                 *)
(***************************************************************************)
EXTENDS Integers, FiniteSets, SequencesExt

CONSTANTS
  Stream,            \* Loki's streams of the job that the query selects
  Limit,             \* lines asked for: 50
  Resolution,        \* ticks of Loki's clock in one tick of a timestamp
  MaxTime,           \* bound on Loki's clock
  MaxLines,          \* bound on the lines of one stream
  MaxConnections     \* bound on the connections of the client

ASSUME LogStreamAssumption ==
  /\ IsFiniteSet(Stream)
  /\ Limit \in Nat \ {0} /\ Resolution \in Nat \ {0}
  /\ MaxTime \in Nat /\ MaxLines \in Nat /\ MaxConnections \in Nat \ {0}

VARIABLES
  store,             \* Loki: the times of the lines of each stream
  horizon,           \* now minus 24 hours: the start of a query's range
  pending,           \* lines of the last answer still to be looked at
  last,              \* last_timestamp
  shown,             \* history: what this connection was sent
  connections        \* history: connections so far

vars == <<store, horizon, pending, last, shown, connections>>

Line == [stream: Stream, no: 1..MaxLines, at: 1..MaxTime]

\* last_timestamp = None: older than every line.
Never == -1

\* Nanoseconds become a float of seconds and an ISO string of microseconds.
Timestamp(line) == line.at \div Resolution

TypeOK ==
  /\ store \in [Stream -> Seq(1..MaxTime)]
  /\ horizon \in 0..MaxTime
  /\ pending \in Seq(Line) /\ Len(pending) <= Limit
  /\ last \in {Never} \cup 0..MaxTime
  /\ shown \in Seq(Line)
  /\ connections \in 1..MaxConnections

Init ==
  /\ store = [s \in Stream |-> << >>]
  /\ horizon = 0
  /\ pending = << >> /\ last = Never
  /\ shown = << >>
  /\ connections = 1

-----------------------------------------------------------------------------
(* Loki *)

Lines == UNION {{[stream |-> s, no |-> i, at |-> store[s][i]] : i \in DOMAIN store[s]} :
                s \in Stream}

\* A container writes a line.  Within a stream the times do not go back, and
\* what reaches Loki late does so within the day.
Write(s) ==
  /\ Len(store[s]) < MaxLines
  /\ \E t \in horizon + 1 .. MaxTime :
       /\ \A i \in DOMAIN store[s] : store[s][i] <= t
       /\ store' = [store EXCEPT ![s] = Append(@, t)]
  /\ UNCHANGED <<horizon, pending, last, shown, connections>>

\* Time passes, and lines grow older than a day.
TimePasses ==
  /\ horizon < MaxTime
  /\ horizon' = horizon + 1
  /\ UNCHANGED <<store, pending, last, shown, connections>>

\* "Default time range: last 24 hours"
Recent == {l \in Lines : l.at > horizon}

\* direction=backward with a limit: the newest lines over all streams.  A line
\* left out is not newer than one that is in, nor a later one of its stream.
Newest(n) ==
  {S \in SUBSET Recent :
     /\ Cardinality(S) <= n
     /\ S = Recent \/ Cardinality(S) = n
     /\ \A in \in S, out \in Recent \ S :
          /\ out.at <= in.at
          /\ out.stream = in.stream => out.no < in.no}

\* The answer holds its streams in any order, each of them newest line first.
StreamByStream(answer) ==
  \A i, j \in DOMAIN answer :
    i < j /\ answer[i].stream = answer[j].stream =>
      /\ answer[j].no < answer[i].no
      /\ \A k \in i..j : answer[k].stream = answer[i].stream

Answers(n) ==
  UNION {{a \in SetToSeqs(S) : StreamByStream(a)} : S \in Newest(n)}

\* query_logs: whatever goes wrong in it, the caller gets an empty list.
QueryLogs(n) == Answers(n) \cup {<< >>}

-----------------------------------------------------------------------------
(* event_generator *)

\* Mutant: direction=forward, the oldest lines first.
OldestAnswers(n) ==
  LET first == {S \in SUBSET Recent :
                  /\ S = Recent \/ Cardinality(S) = n
                  /\ Cardinality(S) <= n
                  /\ \A in \in S, out \in Recent \ S : in.at <= out.at}
  IN {SetToSortSeq(S, LAMBDA a, b : a.at < b.at \/ (a.at = b.at /\ a.no < b.no)) :
        S \in first}

PollForward ==
  /\ pending = << >>
  /\ \E answer \in OldestAnswers(Limit) \cup {<< >>} : pending' = answer
  /\ UNCHANGED <<store, horizon, last, shown, connections>>

\* Mutant: the limit is not passed on to Loki.
PollUnlimited ==
  /\ pending = << >>
  /\ \E answer \in QueryLogs(Cardinality(Lines)) : pending' = answer
  /\ UNCHANGED <<store, horizon, last, shown, connections>>

\* Every two seconds, once the last answer is dealt with.
Poll ==
  /\ pending = << >>
  /\ \E answer \in QueryLogs(Limit) : pending' = answer
  /\ UNCHANGED <<store, horizon, last, shown, connections>>

Send(line) ==
  /\ shown' = Append(shown, line)
  /\ last' = Timestamp(line)

\* Mutant: a line as old as the last one is sent as well.
LookNotOlder ==
  /\ pending # << >>
  /\ pending' = Tail(pending)
  /\ IF Timestamp(Head(pending)) >= last THEN Send(Head(pending))
     ELSE UNCHANGED <<shown, last>>
  /\ UNCHANGED <<store, horizon, connections>>

\* One pass of the loop over the answer, up to the next yield.
Look ==
  /\ pending # << >>
  /\ pending' = Tail(pending)
  /\ IF Timestamp(Head(pending)) > last THEN Send(Head(pending))
     ELSE UNCHANGED <<shown, last>>
  /\ UNCHANGED <<store, horizon, connections>>

\* The client goes away at a yield or during the sleep, and comes back: a new
\* generator knows nothing of what the old one sent.
Reconnect ==
  /\ connections < MaxConnections
  /\ connections' = connections + 1
  /\ pending' = << >> /\ last' = Never /\ shown' = << >>
  /\ UNCHANGED <<store, horizon>>

Next == (\E s \in Stream : Write(s)) \/ TimePasses \/ Poll \/ Look \/ Reconnect

Spec == Init /\ [][Next]_vars

\* The generator keeps running, and Loki answers now and then.  A day holds as
\* many polls as it takes: TimePasses need not happen.
Fairness ==
  /\ WF_vars(Look)
  /\ SF_vars(Poll /\ pending' # << >>)

FairSpec == Spec /\ Fairness

-----------------------------------------------------------------------------
(* Properties *)

\* A connection is never sent a line twice, nor one that is older than what it
\* has already seen, however the answers overlap and their streams are ordered.
ShownInOrder ==
  \A i, j \in DOMAIN shown : i < j => Timestamp(shown[i]) < Timestamp(shown[j])

\* A stream that stays connected does not stall: once the job falls silent, its
\* newest line, or one with the same timestamp, has been sent, or is more than a
\* day old: who connects later, or finds Loki failing for that long, is never
\* shown it.
NewestLineShown ==
  \A l \in Recent : \E i \in DOMAIN shown : Timestamp(shown[i]) >= Timestamp(l)

EventuallyCurrent == <>[]NewestLineShown

\* logs.py: "This endpoint provides real-time log tailing for active jobs."  A
\* tail leaves out no line between two lines of one stream that it sent.
\* Refuted as soon as the stream gains two lines between two polls: the answer
\* has the newer one first, and the cursor has passed the older one by then.
NoLineLeftOut ==
  pending = << >> =>
    \A i, j \in DOMAIN shown : \A l \in Lines :
      /\ shown[i].stream = l.stream /\ shown[j].stream = l.stream
      /\ Timestamp(shown[i]) < Timestamp(l) /\ Timestamp(l) < Timestamp(shown[j])
      => \E k \in DOMAIN shown : shown[k] = l
=============================================================================
