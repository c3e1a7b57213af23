-------------------------- MODULE ListSocket_proofs --------------------------
(***************************************************************************)
(* Proofs about ListSocket.                                                *)
(*                                                                         *)
(* For any assignments, socket types, filters and bounds the state keeps   *)
(* its type, which includes that a container has at most one timeout.      *)
(* The events of a type are processed once, in order by each queue and by  *)
(* the queue that was current when they came, and a queue that a filter    *)
(* dropped and stopped is left alone.  With any types but tags the list    *)
(* agrees with the server whenever nothing is on its way, if changes wait  *)
(* for the list to be loaded and for those of another type.                *)
(***************************************************************************)
EXTENDS ListSocket, SequenceTheorems, TLAPS

-----------------------------------------------------------------------------
(* The inductive invariants.                                               *)

Waiting == [body : Event, isProcessing : BOOLEAN]

\* Only the head of a queue is being processed, and it is while the timeout of
\* the container is set.
OneTimer(q) ==
  /\ timers[q] = 1 => queues[q] # << >> /\ queues[q][1].isProcessing
  /\ \A i \in DOMAIN queues[q] : i > 1 => ~queues[q][i].isProcessing

\* The queue of the moment has a timeout whenever it has an event: else nobody
\* would take the next one.  Queues to come are empty.
CurrentTimer(q) ==
  /\ q[2] = applied => queues[q] = << >> \/ timers[q] = 1
  /\ q[2] > applied => queues[q] = << >> /\ timers[q] = 0

TimerInv == \A q \in Container : OneTimer(q) /\ CurrentTimer(q)

\* The numbers p of the events that were processed, then those of the queue s
\* that were not, then those of the events x on their way: one increasing line.
Line(p, s, x) ==
  /\ \A i, j \in DOMAIN p : i < j => p[i] < p[j]
  /\ \A i, j \in DOMAIN s : i < j => s[i].body.n < s[j].body.n
  /\ \A i, j \in DOMAIN x : i < j => x[i].n < x[j].n
  /\ \A i \in DOMAIN p, j \in DOMAIN s : ~s[j].isProcessing => p[i] < s[j].body.n
  /\ \A i \in DOMAIN p, j \in DOMAIN x : p[i] < x[j].n
  /\ \A i \in DOMAIN s, j \in DOMAIN x : s[i].body.n < x[j].n

\* Its numbers are those of changes that were made.
Numbered(p, s, x, c) ==
  /\ \A i \in DOMAIN p : p[i] <= c
  /\ \A i \in DOMAIN s : s[i].body.n <= c
  /\ \A i \in DOMAIN x : x[i].n <= c

LineInv ==
  \A q \in Container :
    /\ Line(processed[q], queues[q], socket)
    /\ Numbered(processed[q], queues[q], socket, changes)

\* The numbers of the events that have come to container q and are still known.
Numbers(q) ==
  {processed[q][i] : i \in DOMAIN processed[q]} \cup
  {queues[q][i].body.n : i \in DOMAIN queues[q]}

\* What has come to a queue came before what comes to the queues of its type
\* that follow it; nothing has come to the queues to come.
Generations ==
  /\ \A q \in Container : q[2] > applied => processed[q] = << >>
  /\ \A q, r \in Container : q[1] = r[1] /\ q[2] < r[2] =>
       \A m \in Numbers(q), n \in Numbers(r) : m < n

QueueInv == LineInv /\ Generations

-----------------------------------------------------------------------------
(* Sequences.                                                              *)

\* What is left of a sequence without its head, element by element.
LEMMA TailElements ==
  ASSUME NEW S, NEW s \in Seq(S), s # << >>
  PROVE  /\ Tail(s) \in Seq(S) /\ Len(Tail(s)) = Len(s) - 1
         /\ \A i \in DOMAIN Tail(s) : i + 1 \in DOMAIN s /\ Tail(s)[i] = s[i + 1]
OBVIOUS

\* A sequence whose head is replaced.
LEMMA HeadReplaced ==
  ASSUME NEW S, NEW s \in Seq(S), s # << >>, NEW h \in S
  PROVE  LET new == <<h>> \o Tail(s)
         IN  /\ new \in Seq(S) /\ DOMAIN new = DOMAIN s /\ new # << >> /\ new[1] = h
             /\ \A i \in DOMAIN s : i > 1 => new[i] = s[i]
<1>1. /\ Tail(s) \in Seq(S) /\ Len(Tail(s)) = Len(s) - 1
      /\ \A i \in DOMAIN Tail(s) : i + 1 \in DOMAIN s /\ Tail(s)[i] = s[i + 1]
  BY TailElements
<1> DEFINE t == Tail(s)
           new == <<h>> \o t
<1>2. /\ t \in Seq(S) /\ Len(t) = Len(s) - 1
      /\ \A i \in 1..(Len(s) - 1) : t[i] = s[i + 1]
  BY <1>1
<1>3. Len(s) \in Nat /\ Len(s) > 0
  OBVIOUS
<1> HIDE DEF t
<1>4. new \in Seq(S) /\ Len(new) = Len(s) /\ new[1] = h
  BY <1>2, <1>3
<1>5. \A i \in 2..Len(s) : new[i] = t[i - 1]
  BY <1>2, <1>3
<1>6. \A i \in 2..Len(s) : new[i] = s[i]
  BY <1>2, <1>3, <1>5
<1>7. QED
  BY <1>3, <1>4, <1>6 DEF t

\* Removing an element leaves a sequence.
LEMMA RemoveAtType ==
  ASSUME NEW S, NEW s \in Seq(S), NEW i \in DOMAIN s
  PROVE  RemoveAt(s, i) \in Seq(S)
BY DEF RemoveAt

-----------------------------------------------------------------------------
(* Types.                                                                  *)

LEMMA InitTypeOK == Init => TypeOK /\ TimerInv
<1> SUFFICES ASSUME Init PROVE TypeOK /\ TimerInv
  OBVIOUS
<1>1. status \in [Ids -> Statuses] /\ list \in Answer
  BY DEF Init, Statuses, Empty, Answer
<1>2. changes \in 0..MaxChanges /\ applied \in 0..MaxFilters /\ failures \in 0..MaxFailures
  BY BoundAssumption DEF Init
<1>3. \A S : << >> \in Seq(S)
  BY EmptySeq
<1>4. queues \in [Container -> Seq([body : Event, isProcessing : BOOLEAN])]
      /\ processed \in [Container -> Seq(1..MaxChanges)] /\ socket \in Seq(Event)
  BY <1>3 DEF Init
<1>5. loads \in Seq(Load)
  <2>1. [filter |-> filter, data |-> None] \in Load
    BY DEF Init, Load
  <2>2. QED
    BY <2>1 DEF Init
<1>6. timers \in [Container -> 0..1]
  <2>1. 0 \in 0..1
    OBVIOUS
  <2>2. QED
    BY <2>1 DEF Init
<1>7. /\ timeOutNextProcess \in Container \cup {None} /\ filter \in Filters
      /\ ignoreRevoke \in BOOLEAN /\ acceptHandlerSocket \in BOOLEAN
      /\ fetches \subseteq Fetch
  BY Zenon DEF Init
<1>8. TimerInv
  BY DEF Init, TimerInv, OneTimer, CurrentTimer
<1>9. QED
  BY <1>1, <1>2, <1>4, <1>5, <1>6, <1>7, <1>8 DEF TypeOK

\* The operators of the list keep it a list.
LEMMA ListTypes ==
  ASSUME NEW l \in Answer, NEW a \in Ids, NEW s \in Statuses
  PROVE  /\ PushAssignment(l, a, s) \in Answer /\ RemoveAssignment(l, a) \in Answer
         /\ AssignSocket(l, a, s) \in Answer /\ ResolveSocket(l, a, s) \in Answer
<1>1. /\ PushAssignment(l, a, s) \in Answer /\ RemoveAssignment(l, a) \in Answer
  BY DEF PushAssignment, RemoveAssignment, Answer
<1>2. ResolveSocket(l, a, s) \in Answer
  BY <1>1 DEF ResolveSocket, Answer
<1>3. AssignSocket(l, a, s) \in Answer
  BY <1>1 DEF AssignSocket
<1>4. QED
  BY <1>1, <1>2, <1>3

LEMMA SwitchType ==
  ASSUME TypeOK, NEW e \in Event
  PROVE  Switch(e) \in Answer /\ Asked(e) \subseteq Fetch
<1>1. e.type \in Types /\ e.id \in Ids /\ e.status \in Statuses /\ e.malformed \in BOOLEAN
  BY DEF Event
<1>2. e.type \in {"new", "assign", "revoke", "resolved", "tag"}
  BY <1>1, TypeAssumption DEF SocketTypes
<1>3. list \in Answer
  BY DEF TypeOK
<1>4. /\ PushAssignment(list, e.id, e.status) \in Answer
      /\ RemoveAssignment(list, e.id) \in Answer
      /\ AssignSocket(list, e.id, e.status) \in Answer
      /\ ResolveSocket(list, e.id, e.status) \in Answer
  BY <1>1, <1>3, ListTypes
<1>5. Switch(e) \in Answer
  BY <1>1, <1>2, <1>3, <1>4 DEF Switch
<1>6. Asked(e) \subseteq Fetch
  BY <1>1 DEF Asked, Fetch, TypeOK
<1>7. QED
  BY <1>5, <1>6

\* A queue as its processing expects it: with a timeout its head is being
\* processed, without one nothing is.
Expected(s, t) ==
  /\ t = 1 => s # << >> /\ s[1].isProcessing
  /\ t = 0 => s = << >> \/ ~s[1].isProcessing
  /\ \A i \in DOMAIN s : i > 1 => ~s[i].isProcessing

\* Processing a queue keeps the types, touches one container, and leaves the
\* queue empty or with its head being processed and a timeout set.
LEMMA ProcessingType ==
  ASSUME TypeOK, NEW q \in Container, NEW s \in Seq(Waiting), NEW t \in {0, 1},
         Expected(s, t), ProcessingDataSocket(q, s, t)
  PROVE  /\ queues' \in [Container -> Seq(Waiting)] /\ timers' \in [Container -> 0..1]
         /\ timeOutNextProcess' \in Container \cup {None}
         /\ list' \in Answer /\ fetches' \subseteq Fetch
         /\ processed' \in [Container -> Seq(1..MaxChanges)]
         /\ \A p \in Container : p # q => queues'[p] = queues[p] /\ timers'[p] = timers[p]
         /\ OneTimer(q)' /\ (queues'[q] = << >> \/ timers'[q] = 1)
<1>1. /\ queues \in [Container -> Seq(Waiting)] /\ timers \in [Container -> 0..1]
      /\ timeOutNextProcess \in Container \cup {None}
      /\ list \in Answer /\ fetches \subseteq Fetch
      /\ processed \in [Container -> Seq(1..MaxChanges)]
  BY DEF TypeOK, Waiting
<1>2. CASE s = << >> \/ Head(s).isProcessing
  <2>1. /\ queues' = [queues EXCEPT ![q] = s] /\ timers' = [timers EXCEPT ![q] = t]
        /\ UNCHANGED <<timeOutNextProcess, list, fetches, processed>>
    BY <1>2 DEF ProcessingDataSocket
  <2>2. queues'[q] = s /\ timers'[q] = t
    BY <1>1, <2>1
  <2>3. s = << >> \/ t = 1
    BY <1>2 DEF Expected
  <2>4. OneTimer(q)' /\ (queues'[q] = << >> \/ timers'[q] = 1)
    BY <2>2, <2>3 DEF OneTimer, Expected
  <2>5. QED
    BY <1>1, <2>1, <2>4
<1>3. CASE s # << >> /\ ~Head(s).isProcessing
  <2> DEFINE e == Head(s).body
             h == [body |-> e, isProcessing |-> TRUE]
             new == <<h>> \o Tail(s)
  <2>1. t = 0
    BY <1>3 DEF Expected
  <2>2. Head(s) \in Waiting /\ e \in Event /\ e.type \in Types /\ e.n \in 1..MaxChanges
    <3>1. Head(s) \in Waiting
      BY <1>3
    <3>2. e \in Event
      BY <3>1 DEF Waiting
    <3>3. QED
      BY <3>1, <3>2 DEF Event
  <2>3. h \in Waiting /\ h.isProcessing
    BY <2>2 DEF Waiting
  <2>4. /\ queues' = [queues EXCEPT ![q] = new] /\ timers' = [timers EXCEPT ![q] = 1]
        /\ timeOutNextProcess' = q
        /\ list' = Switch(e) /\ fetches' = fetches \cup Asked(e)
        /\ processed' = [processed EXCEPT ![q] = Append(@, e.n)]
    <3>1. t + 1 = 1
      BY <2>1
    <3>2. /\ queues' = [queues EXCEPT ![q] = new]
          /\ timers' = [timers EXCEPT ![q] = t + 1]
          /\ timeOutNextProcess' = q
          /\ list' = Switch(e) /\ fetches' = fetches \cup Asked(e)
          /\ processed' = [processed EXCEPT ![q] = Append(@, e.n)]
      BY <1>3, Zenon DEF ProcessingDataSocket
    <3>3. QED
      BY <3>1, <3>2
  <2>5. list' \in Answer /\ fetches' \subseteq Fetch
    BY <1>1, <2>2, <2>4, SwitchType
  <2>6. processed' \in [Container -> Seq(1..MaxChanges)]
    BY <1>1, <2>2, <2>4
  <2> HIDE DEF e, h
  <2>7. /\ new \in Seq(Waiting) /\ new # << >> /\ new[1] = h /\ DOMAIN new = DOMAIN s
        /\ \A i \in DOMAIN s : i > 1 => new[i] = s[i]
    BY <1>3, <2>3, HeadReplaced
  <2> HIDE DEF new
  <2>8. queues'[q] = new /\ timers'[q] = 1
    BY <1>1, <2>4
  <2>9. OneTimer(q)'
    BY <2>3, <2>7, <2>8 DEF OneTimer, Expected
  <2>10. QED
    BY <1>1, <2>4, <2>5, <2>6, <2>7, <2>8, <2>9
<1>4. QED
  BY <1>2, <1>3

\* What an action that leaves the queues alone has to show.
LEMMA TimerFrame ==
  ASSUME TimerInv, UNCHANGED <<queues, timers, applied>>
  PROVE  TimerInv'
BY DEF TimerInv, OneTimer, CurrentTimer

LEMMA HandlerSocketTypeOK ==
  ASSUME TypeOK, TimerInv, HandlerSocket
  PROVE  TypeOK' /\ TimerInv'
<1> DEFINE e == Head(socket)
<1>1. e \in Event /\ Tail(socket) \in Seq(Event)
  BY DEF TypeOK, HandlerSocket
<1>2. PICK q \in Container : q = <<e.type, applied>>
  BY <1>1 DEF Event, Container, TypeOK
<1> DEFINE s == Append(queues[q], [body |-> e, isProcessing |-> FALSE])
<1>3. queues[q] \in Seq(Waiting) /\ timers[q] \in {0, 1}
  <2>1. queues \in [Container -> Seq(Waiting)] /\ timers \in [Container -> 0..1]
    BY DEF TypeOK, Waiting
  <2>2. QED
    BY <1>2, <2>1
<1>4. UNCHANGED <<status, changes, filter, applied, failures, ignoreRevoke,
                  acceptHandlerSocket, loads>> /\ socket' = Tail(socket)
  BY DEF HandlerSocket, server
<1>5. CASE acceptHandlerSocket
  <2>1. ProcessingDataSocket(q, s, timers[q])
    BY <1>2, <1>5 DEF HandlerSocket
  <2>2. [body |-> e, isProcessing |-> FALSE] \in Waiting
    BY <1>1 DEF Waiting
  <2>3. OneTimer(q) /\ CurrentTimer(q)
    BY <1>2 DEF TimerInv
  <2>4. s \in Seq(Waiting) /\ s # << >> /\ s[Len(s)].isProcessing = FALSE
        /\ Len(s) = Len(queues[q]) + 1
        /\ \A i \in DOMAIN queues[q] : s[i] = queues[q][i]
    <3> HIDE DEF e
    <3>1. QED
      BY <1>3, <2>2
  <2>5. queues[q] = << >> \/ timers[q] = 1
    BY <1>2, <2>3 DEF CurrentTimer
  <2> HIDE DEF s, e
  <2>6. Expected(s, timers[q])
    BY <1>3, <2>3, <2>4, <2>5 DEF OneTimer, Expected
  <2>7. /\ queues' \in [Container -> Seq(Waiting)] /\ timers' \in [Container -> 0..1]
        /\ timeOutNextProcess' \in Container \cup {None}
        /\ list' \in Answer /\ fetches' \subseteq Fetch
        /\ processed' \in [Container -> Seq(1..MaxChanges)]
        /\ \A p \in Container : p # q => queues'[p] = queues[p] /\ timers'[p] = timers[p]
        /\ OneTimer(q)' /\ (queues'[q] = << >> \/ timers'[q] = 1)
    BY <1>2, <1>3, <2>1, <2>4, <2>6, ProcessingType
  <2>8. TypeOK'
    BY <1>1, <1>4, <2>7 DEF TypeOK, Waiting
  <2>9. TimerInv'
    <3> SUFFICES ASSUME NEW p \in Container PROVE (OneTimer(p) /\ CurrentTimer(p))'
      BY DEF TimerInv
    <3>1. CASE p = q
      <4>1. applied' = applied /\ applied \in Nat
        BY <1>4 DEF TypeOK
      <4>2. QED
        BY <1>2, <2>7, <3>1, <4>1 DEF CurrentTimer
    <3>2. CASE p # q
      BY <1>4, <2>7, <3>2 DEF TimerInv, OneTimer, CurrentTimer
    <3>3. QED
      BY <3>1, <3>2
  <2>10. QED
    BY <2>8, <2>9
<1>6. CASE ~acceptHandlerSocket
  <2>1. UNCHANGED <<queues, timers, timeOutNextProcess, processed, list, fetches>>
    BY <1>6 DEF HandlerSocket, queue
  <2>2. QED
    BY <1>1, <1>4, <2>1, TimerFrame DEF TypeOK
<1>7. QED
  BY <1>5, <1>6

LEMMA NextProcessTypeOK ==
  ASSUME TypeOK, TimerInv, NEW q \in Container, NextProcess(q)
  PROVE  TypeOK' /\ TimerInv'
<1> DEFINE s == IF queues[q] = << >> THEN << >> ELSE Tail(queues[q])
<1>1. queues[q] \in Seq(Waiting) /\ timers[q] = 1
  <2>1. queues \in [Container -> Seq(Waiting)] /\ timers \in [Container -> 0..1]
    BY DEF TypeOK, Waiting
  <2>2. QED
    BY <2>1 DEF NextProcess
<1>2. UNCHANGED <<status, changes, socket, filter, applied, failures, ignoreRevoke,
                  acceptHandlerSocket, loads>>
  BY DEF NextProcess, server
<1>3. OneTimer(q) /\ CurrentTimer(q)
  BY DEF TimerInv
<1>4. ProcessingDataSocket(q, s, 0)
  <2>1. timers[q] - 1 = 0
    BY <1>1
  <2>2. ProcessingDataSocket(q, s, timers[q] - 1)
    BY DEF NextProcess
  <2>3. QED
    BY <2>1, <2>2
<1>5. s = Tail(queues[q]) /\ queues[q] # << >>
  BY <1>1, <1>3 DEF OneTimer
<1>6. /\ s \in Seq(Waiting) /\ Len(s) = Len(queues[q]) - 1
      /\ \A i \in DOMAIN s : i + 1 \in DOMAIN queues[q] /\ s[i] = queues[q][i + 1]
  BY <1>1, <1>5, TailElements
<1> HIDE DEF s
<1>7. Expected(s, 0)
  <2>1. \A i \in DOMAIN s : ~s[i].isProcessing
    BY <1>1, <1>3, <1>6 DEF OneTimer
  <2>2. s = << >> \/ 1 \in DOMAIN s
    BY <1>6
  <2>3. QED
    BY <2>1, <2>2 DEF Expected
<1>8. /\ queues' \in [Container -> Seq(Waiting)] /\ timers' \in [Container -> 0..1]
      /\ timeOutNextProcess' \in Container \cup {None}
      /\ list' \in Answer /\ fetches' \subseteq Fetch
      /\ processed' \in [Container -> Seq(1..MaxChanges)]
      /\ \A p \in Container : p # q => queues'[p] = queues[p] /\ timers'[p] = timers[p]
      /\ OneTimer(q)' /\ (queues'[q] = << >> \/ timers'[q] = 1)
  BY <1>4, <1>6, <1>7, ProcessingType
<1>9. TypeOK'
  BY <1>2, <1>8 DEF TypeOK, Waiting
<1>10. TimerInv'
  <2> SUFFICES ASSUME NEW p \in Container PROVE (OneTimer(p) /\ CurrentTimer(p))'
    BY DEF TimerInv
  <2>1. CASE p = q
    BY <1>1, <1>2, <1>3, <1>5, <1>8, <2>1 DEF CurrentTimer
  <2>2. CASE p # q
    BY <1>2, <1>8, <2>2 DEF TimerInv, OneTimer, CurrentTimer
  <2>3. QED
    BY <2>1, <2>2
<1>11. QED
  BY <1>9, <1>10

\* What the server returns to a request is an answer.
LEMMA MatchingType == TypeOK => \A x : Matching(x) \in Answer
BY DEF TypeOK, Matching, Answer

LEMMA LoadTypeOK ==
  ASSUME TypeOK, TimerInv, NEW i \in DOMAIN loads,
         AnswerLoad(i) \/ LoadData(i) \/ LoadFailed(i)
  PROVE  TypeOK' /\ TimerInv'
<1>1. loads \in Seq(Load) /\ loads[i] \in Load
  BY DEF TypeOK
<1>2. RemoveAt(loads, i) \in Seq(Load)
  BY <1>1, RemoveAtType
<1>3. UNCHANGED <<queues, timers, applied, timeOutNextProcess, processed>>
  BY DEF AnswerLoad, LoadData, LoadFailed, queue
<1>4. TimerInv'
  BY <1>3, TimerFrame
<1>5. CASE AnswerLoad(i)
  <2>1. Matching(loads[i].filter) \in Answer
    BY MatchingType
  <2>2. [loads[i] EXCEPT !.data = Matching(loads[i].filter)] \in Load
    BY <1>1, <2>1 DEF Load
  <2>3. loads' \in Seq(Load)
    BY <1>1, <1>5, <2>2 DEF AnswerLoad
  <2>4. QED
    BY <1>3, <1>4, <1>5, <2>3 DEF TypeOK, AnswerLoad, server
<1>6. CASE LoadData(i)
  <2>1. loads[i].data \in Answer
    BY <1>1, <1>6 DEF Load, LoadData
  <2>2. Empty \in Answer
    BY DEF Empty, Answer
  <2>3. list' \in Answer
    <3>1. \A a \in Ids : loads[i].data[a] # None =>
            PushAssignment(Empty, a, loads[i].data[a])[a] \in Statuses \cup {None}
      BY <2>1, <2>2, ListTypes DEF Answer
    <3>2. QED
      BY <1>6, <3>1 DEF LoadData, Answer
  <2>4. QED
    BY <1>2, <1>3, <1>4, <1>6, <2>3 DEF TypeOK, LoadData, server
<1>7. CASE LoadFailed(i)
  <2>1. Empty \in Answer
    BY DEF Empty, Answer
  <2>2. failures' \in 0..MaxFailures
    BY <1>7, BoundAssumption DEF TypeOK, LoadFailed
  <2>3. QED
    BY <1>2, <1>3, <1>4, <1>7, <2>1, <2>2 DEF TypeOK, LoadFailed, server
<1>8. QED
  BY <1>5, <1>6, <1>7

LEMMA FetchTypeOK ==
  ASSUME TypeOK, TimerInv, NEW r \in fetches,
         AnswerFetch(r) \/ UpdateUserAssigns(r) \/ FetchFailed(r)
  PROVE  TypeOK' /\ TimerInv'
<1>1. r \in Fetch /\ fetches \subseteq Fetch /\ list \in Answer /\ r.id \in Ids
  BY DEF TypeOK, Fetch
<1>2. UNCHANGED <<queues, timers, applied, timeOutNextProcess, processed>>
  BY DEF AnswerFetch, UpdateUserAssigns, FetchFailed, queue
<1>3. TimerInv'
  BY <1>2, TimerFrame
<1>4. RemoveAssignment(list, r.id) \in Answer
  BY <1>1 DEF RemoveAssignment, Answer
<1>5. CASE AnswerFetch(r)
  <2>1. Matching(r.filter)[r.id] \in Statuses \cup {None}
    BY <1>1, MatchingType DEF Answer
  <2>2. [r EXCEPT !.data = Matching(r.filter)[r.id]] \in Fetch
    BY <1>1, <2>1 DEF Fetch
  <2>3. fetches' \subseteq Fetch
    BY <1>1, <1>5, <2>2 DEF AnswerFetch
  <2>4. QED
    BY <1>2, <1>3, <1>5, <2>3 DEF TypeOK, AnswerFetch, server
<1>6. CASE UpdateUserAssigns(r)
  <2>1. r.data # None => r.data \in Statuses
    BY <1>1, <1>6 DEF Fetch, UpdateUserAssigns
  <2>2. list' \in Answer
    BY <1>1, <1>4, <1>6, <2>1, ListTypes DEF UpdateUserAssigns
  <2>3. QED
    BY <1>1, <1>2, <1>3, <1>6, <2>2 DEF TypeOK, UpdateUserAssigns, server
<1>7. CASE FetchFailed(r)
  <2>1. failures' \in 0..MaxFailures
    BY <1>7, BoundAssumption DEF TypeOK, FetchFailed
  <2>2. list' \in Answer
    BY <1>1, <1>4, <1>7 DEF FetchFailed
  <2>3. QED
    BY <1>1, <1>2, <1>3, <1>7, <2>1, <2>2 DEF TypeOK, FetchFailed, server
<1>8. QED
  BY <1>5, <1>6, <1>7

LEMMA AgentTypeOK ==
  ASSUME TypeOK, TimerInv, Agent \/ AutoRevoke
  PROVE  TypeOK' /\ TimerInv'
<1>1. CASE OpenFilter
  <2>1. UNCHANGED <<queues, timers, applied>>
    BY <1>1 DEF OpenFilter, queue
  <2>2. QED
    BY <1>1, <2>1, TimerFrame DEF OpenFilter, TypeOK, server, queue
<1>2. ASSUME NEW x \in Filters, NEW b \in BOOLEAN, HanderFilter(x, b)
      PROVE  TypeOK' /\ TimerInv'
  <2>1. [filter |-> x, data |-> None] \in Load
    BY DEF Load
  <2>2. loads' \in Seq(Load)
    BY <1>2, <2>1 DEF TypeOK, HanderFilter
  <2>3. applied' \in 0..MaxFilters /\ applied' = applied + 1 /\ applied \in Nat
    BY <1>2, BoundAssumption DEF TypeOK, HanderFilter
  <2>4. \A q \in Container : timers'[q] \in 0..1 /\ timers'[q] <= timers[q]
    BY <1>2 DEF TypeOK, HanderFilter
  <2>5. timers' \in [Container -> 0..1]
    BY <1>2, <2>4 DEF HanderFilter
  <2>6. TypeOK'
    BY <1>2, <2>2, <2>3, <2>5 DEF TypeOK, HanderFilter, server
  <2>7. TimerInv'
    <3>1. SUFFICES ASSUME NEW q \in Container PROVE (OneTimer(q) /\ CurrentTimer(q))'
      BY DEF TimerInv
    <3>2. queues' = queues /\ timers[q] \in 0..1 /\ q[2] \in Nat
      BY <1>2 DEF HanderFilter, TypeOK, Container
    <3>3. OneTimer(q)'
      BY <2>4, <3>2 DEF TimerInv, OneTimer
    <3>4. CurrentTimer(q)'
      BY <2>3, <2>4, <3>2 DEF TimerInv, CurrentTimer
    <3>5. QED
      BY <3>3, <3>4
  <2>8. QED
    BY <2>6, <2>7
<1>3. CASE AutoRevoke
  <2>1. UNCHANGED <<queues, timers, applied>>
    BY <1>3 DEF AutoRevoke, queue
  <2>2. list' \in Answer
    BY <1>3 DEF AutoRevoke, TypeOK, Answer
  <2>3. QED
    BY <1>3, <2>1, <2>2, TimerFrame DEF AutoRevoke, TypeOK, server, queue
<1>4. QED
  BY <1>1, <1>2, <1>3 DEF Agent

\* A change is announced by an event, which carries its number.
LEMMA ChangeEvent ==
  ASSUME TypeOK, NEW a \in Ids, NEW t \in Types, Change(a, t)
  PROVE  /\ status' \in [Ids -> Statuses]
         /\ \E e \in Event : socket' = Append(socket, e) /\ e.n = changes + 1
<1>1. changes + 1 \in 1..MaxChanges
  BY BoundAssumption DEF Change, TypeOK
<1>2. PICK s \in Announces(t, a), m \in Malformed :
        /\ status' = [status EXCEPT ![a] = s]
        /\ socket' = Append(socket, [type |-> t, id |-> a, status |-> s,
                                     n |-> changes + 1, malformed |-> m])
  BY DEF Change
<1>3. s \in Statuses
  <2>1. t \in {"new", "assign", "revoke", "resolved", "tag"}
    BY TypeAssumption DEF SocketTypes
  <2>2. status[a] \in Statuses /\ Assignees \subseteq Statuses
    BY AssigneeAssumption DEF TypeOK, Statuses
  <2>3. QED
    BY <2>1, <2>2 DEF Announces, Statuses
<1>4. [type |-> t, id |-> a, status |-> s, n |-> changes + 1, malformed |-> m] \in Event
  BY <1>1, <1>3, BooleanAssumption DEF Event
<1>5. status' \in [Ids -> Statuses]
  BY <1>2, <1>3 DEF TypeOK
<1>6. QED
  BY <1>2, <1>4, <1>5

LEMMA ServerTypeOK ==
  ASSUME TypeOK, TimerInv, NEW a \in Ids,
         Expire(a) \/ \E t \in Types : Change(a, t)
  PROVE  TypeOK' /\ TimerInv'
<1>1. CASE Expire(a)
  <2>1. UNCHANGED <<queues, timers, applied>>
    BY <1>1 DEF Expire, queue
  <2>2. changes' \in 0..MaxChanges
    BY <1>1, BoundAssumption DEF Expire, TypeOK
  <2>3. status' \in [Ids -> Statuses] /\ list' \in Answer
    BY <1>1 DEF Expire, TypeOK, Statuses, Answer
  <2>4. QED
    BY <1>1, <2>1, <2>2, <2>3, TimerFrame DEF Expire, TypeOK, queue
<1>2. ASSUME NEW t \in Types, Change(a, t) PROVE TypeOK' /\ TimerInv'
  <2>1. UNCHANGED <<queues, timers, applied>>
    BY <1>2 DEF Change, queue
  <2>2. changes' \in 0..MaxChanges
    BY <1>2, BoundAssumption DEF Change, TypeOK
  <2>3. PICK e \in Event : socket' = Append(socket, e)
    BY <1>2, ChangeEvent
  <2>4. status' \in [Ids -> Statuses] /\ socket' \in Seq(Event)
    <3>1. status' \in [Ids -> Statuses]
      BY <1>2, ChangeEvent
    <3>2. socket \in Seq(Event)
      BY DEF TypeOK
    <3>3. QED
      BY <2>3, <3>1, <3>2
  <2>5. QED
    BY <1>2, <2>1, <2>2, <2>4, TimerFrame DEF Change, TypeOK, queue
<1>3. QED
  BY <1>1, <1>2

LEMMA TypeInductive == TypeOK /\ TimerInv /\ [Next]_vars => TypeOK' /\ TimerInv'
<1> SUFFICES ASSUME TypeOK, TimerInv, [Next]_vars PROVE TypeOK' /\ TimerInv'
  OBVIOUS
<1>1. CASE UNCHANGED vars
  BY <1>1, TimerFrame DEF TypeOK, vars, server, queue
<1>2. CASE Next
  BY <1>2, HandlerSocketTypeOK, NextProcessTypeOK, LoadTypeOK, FetchTypeOK,
     AgentTypeOK, ServerTypeOK
  DEF Next, Loading, Fetching
<1>3. QED
  BY <1>1, <1>2

\* The state keeps its type, whatever the assignments, socket types, filters
\* and bounds.  It says of the timeouts of nextProcess (List/index.tsx 369-534,
\* 633-638) that a queue never has two.
THEOREM TypeCorrect == Spec => []TypeOK
<1>1. QED
  BY InitTypeOK, TypeInductive, PTL DEF Spec

-----------------------------------------------------------------------------
(* The line of events of a socket type.                                    *)

\* The first event on its way joins the queue.
LEMMA EventQueued ==
  ASSUME NEW p \in Seq(1..MaxChanges), NEW s \in Seq(Waiting), NEW x \in Seq(Event),
         NEW c, x # << >>, Line(p, s, x), Numbered(p, s, x, c)
  PROVE  LET w == [body |-> Head(x), isProcessing |-> FALSE]
         IN  /\ Line(p, Append(s, w), Tail(x))
             /\ Numbered(p, Append(s, w), Tail(x), c)
<1> DEFINE w == [body |-> Head(x), isProcessing |-> FALSE]
           new == Append(s, w)
           y == Tail(x)
<1>1. x[1] \in Event /\ Head(x) = x[1] /\ 1 \in DOMAIN x
  OBVIOUS
<1>2. w \in Waiting /\ w.body = x[1]
  BY <1>1 DEF Waiting
<1>3. /\ y \in Seq(Event) /\ Len(y) = Len(x) - 1
      /\ \A i \in DOMAIN y : i + 1 \in DOMAIN x /\ y[i] = x[i + 1]
  BY TailElements
<1> HIDE DEF w, y
<1>4. /\ DOMAIN new = 1..(Len(s) + 1) /\ new[Len(s) + 1] = w
      /\ \A i \in DOMAIN s : new[i] = s[i]
      /\ DOMAIN s = 1..Len(s) /\ Len(s) \in Nat
  BY <1>2
<1>5. \A i \in DOMAIN new : \/ i \in DOMAIN s /\ new[i] = s[i]
                            \/ i = Len(s) + 1 /\ new[i] = w
  BY <1>4
<1> HIDE DEF new
<1>6. DOMAIN x = 1..Len(x) /\ DOMAIN y = 1..Len(y) /\ Len(x) \in Nat
  BY <1>3
<1>7. \A i, j \in DOMAIN new : i < j => new[i].body.n < new[j].body.n
  BY <1>1, <1>2, <1>4, <1>5 DEF Line
<1>8. \A i, j \in DOMAIN y : i < j => y[i].n < y[j].n
  BY <1>3, <1>6 DEF Line
<1>9. \A i \in DOMAIN p, j \in DOMAIN new : ~new[j].isProcessing => p[i] < new[j].body.n
  BY <1>1, <1>2, <1>5 DEF Line
<1>10. \A i \in DOMAIN p, j \in DOMAIN y : p[i] < y[j].n
  BY <1>3 DEF Line
<1>11. \A i \in DOMAIN new, j \in DOMAIN y : new[i].body.n < y[j].n
  <2>1. \A j \in DOMAIN y : x[1].n < y[j].n
    BY <1>1, <1>3, <1>6 DEF Line
  <2>2. QED
    BY <1>2, <1>3, <1>5, <2>1 DEF Line
<1>12. Line(p, new, y)
  BY <1>7, <1>8, <1>9, <1>10, <1>11 DEF Line
<1>13. Numbered(p, new, y, c)
  BY <1>1, <1>2, <1>3, <1>5 DEF Numbered
<1>14. QED
  BY <1>12, <1>13 DEF new, w, y

\* The event that was processed leaves the queue.
LEMMA EventLeaves ==
  ASSUME NEW p \in Seq(1..MaxChanges), NEW s \in Seq(Waiting), NEW x \in Seq(Event),
         NEW c, s # << >>, Line(p, s, x), Numbered(p, s, x, c)
  PROVE  Line(p, Tail(s), x) /\ Numbered(p, Tail(s), x, c)
<1> DEFINE y == Tail(s)
<1>1. /\ y \in Seq(Waiting) /\ Len(y) = Len(s) - 1
      /\ \A i \in DOMAIN y : i + 1 \in DOMAIN s /\ y[i] = s[i + 1]
  BY TailElements
<1> HIDE DEF y
<1>2. DOMAIN y = 1..Len(y) /\ Len(y) \in Nat
  BY <1>1
<1>3. \A i, j \in DOMAIN y : i < j => y[i].body.n < y[j].body.n
  BY <1>1, <1>2 DEF Line
<1>4. /\ \A i \in DOMAIN p, j \in DOMAIN y : ~y[j].isProcessing => p[i] < y[j].body.n
      /\ \A i \in DOMAIN y, j \in DOMAIN x : y[i].body.n < x[j].n
  BY <1>1 DEF Line
<1>5. Line(p, y, x)
  BY <1>3, <1>4 DEF Line
<1>6. Numbered(p, y, x, c)
  BY <1>1 DEF Numbered
<1>7. QED
  BY <1>5, <1>6 DEF y

\* The head of the queue is processed.
LEMMA EventProcessed ==
  ASSUME NEW p \in Seq(1..MaxChanges), NEW s \in Seq(Waiting), NEW x \in Seq(Event),
         NEW c, s # << >>, ~s[1].isProcessing,
         Line(p, s, x), Numbered(p, s, x, c),
         NEW r \in Seq(Waiting), DOMAIN r = DOMAIN s,
         r[1] = [body |-> s[1].body, isProcessing |-> TRUE],
         \A i \in DOMAIN s : i > 1 => r[i] = s[i]
  PROVE  LET q == Append(p, s[1].body.n)
         IN  Line(q, r, x) /\ Numbered(q, r, x, c)
<1> DEFINE n == s[1].body.n
           q == Append(p, n)
<1>1. 1 \in DOMAIN s /\ s[1] \in Waiting /\ DOMAIN s = 1..Len(s) /\ Len(s) \in Nat
  OBVIOUS
<1>2. n \in 1..MaxChanges
  BY <1>1 DEF Waiting, Event
<1> HIDE DEF n
<1>3. \A i \in DOMAIN q : \/ i \in DOMAIN p /\ q[i] = p[i]
                          \/ i = Len(p) + 1 /\ q[i] = n
  BY <1>2
<1>4. DOMAIN p = 1..Len(p) /\ Len(p) \in Nat /\ DOMAIN q = 1..(Len(p) + 1)
  BY <1>2
<1> HIDE DEF q
<1>5. \A i \in DOMAIN s : r[i].body = s[i].body
  BY <1>1
<1>6. r[1].isProcessing /\ \A i \in DOMAIN s : i > 1 => r[i].isProcessing = s[i].isProcessing
  BY <1>1
<1>7. \A i \in DOMAIN p : p[i] < n
  BY <1>1 DEF Line, n
<1>8. \A i, j \in DOMAIN q : i < j => q[i] < q[j]
  BY <1>3, <1>4, <1>7 DEF Line
<1>9. \A j \in DOMAIN s : j > 1 => n < s[j].body.n
  BY <1>1 DEF Line, n
<1>10. \A i \in DOMAIN q, j \in DOMAIN r : ~r[j].isProcessing => q[i] < r[j].body.n
  BY <1>1, <1>3, <1>5, <1>6, <1>9 DEF Line
<1>11. \A i \in DOMAIN q, j \in DOMAIN x : q[i] < x[j].n
  BY <1>1, <1>3 DEF Line, n
<1>12. Line(q, r, x)
  BY <1>5, <1>8, <1>10, <1>11 DEF Line
<1>13. Numbered(q, r, x, c)
  BY <1>1, <1>3, <1>5 DEF Numbered, n
<1>14. QED
  BY <1>12, <1>13 DEF q, n

\* Processing a queue, given as its caller has changed it, keeps its line, brings
\* no new number and leaves its length and all other containers alone.
LEMMA ProcessingLine ==
  ASSUME TypeOK, NEW q \in Container, NEW s \in Seq(Waiting), NEW t \in {0, 1},
         NEW x \in Seq(Event), NEW c,
         Line(processed[q], s, x), Numbered(processed[q], s, x, c),
         ProcessingDataSocket(q, s, t)
  PROVE  /\ Line(processed'[q], queues'[q], x) /\ Numbered(processed'[q], queues'[q], x, c)
         /\ Numbers(q)' \subseteq {processed[q][i] : i \in DOMAIN processed[q]} \cup
                                  {s[i].body.n : i \in DOMAIN s}
         /\ Len(queues'[q]) = Len(s)
         /\ \A p \in Container : p # q =>
              /\ queues'[p] = queues[p] /\ timers'[p] = timers[p]
              /\ processed'[p] = processed[p]
<1>1. /\ queues \in [Container -> Seq(Waiting)] /\ timers \in [Container -> 0..1]
      /\ processed \in [Container -> Seq(1..MaxChanges)]
  BY DEF TypeOK, Waiting
<1>2. CASE s = << >> \/ Head(s).isProcessing
  <2>1. /\ queues' = [queues EXCEPT ![q] = s] /\ timers' = [timers EXCEPT ![q] = t]
        /\ processed' = processed
    BY <1>2 DEF ProcessingDataSocket
  <2>2. queues'[q] = s /\ processed'[q] = processed[q]
    BY <1>1, <2>1
  <2>3. QED
    BY <1>1, <2>1, <2>2 DEF Numbers
<1>3. CASE s # << >> /\ ~Head(s).isProcessing
  <2> DEFINE e == Head(s).body
             h == [body |-> e, isProcessing |-> TRUE]
             new == <<h>> \o Tail(s)
  <2>1. Head(s) = s[1] /\ s[1] \in Waiting /\ e = s[1].body /\ e \in Event /\ h \in Waiting
    <3>1. Head(s) = s[1] /\ s[1] \in Waiting
      BY <1>3
    <3>2. QED
      BY <3>1 DEF Waiting
  <2>2. /\ queues' = [queues EXCEPT ![q] = new]
        /\ timers' = [timers EXCEPT ![q] = t + 1]
        /\ processed' = [processed EXCEPT ![q] = Append(@, e.n)]
    BY <1>3, Zenon DEF ProcessingDataSocket
  <2>3. processed'[q] = Append(processed[q], s[1].body.n)
    BY <1>1, <2>1, <2>2
  <2>4. h = [body |-> s[1].body, isProcessing |-> TRUE]
    BY <2>1
  <2>5. s[1].body.n \in 1..MaxChanges
    BY <2>1 DEF Event
  <2> HIDE DEF e, h
  <2>6. /\ new \in Seq(Waiting) /\ new[1] = h /\ DOMAIN new = DOMAIN s
        /\ \A i \in DOMAIN s : i > 1 => new[i] = s[i]
    BY <1>3, <2>1, HeadReplaced
  <2> HIDE DEF new
  <2>7. queues'[q] = new
    BY <1>1, <2>2
  <2>8. processed[q] \in Seq(1..MaxChanges) /\ ~s[1].isProcessing
    BY <1>1, <1>3, <2>1
  <2>9. Line(processed'[q], new, x) /\ Numbered(processed'[q], new, x, c)
    <3>1. LET p == Append(processed[q], s[1].body.n)
          IN  Line(p, new, x) /\ Numbered(p, new, x, c)
      BY <1>3, <2>4, <2>6, <2>8, EventProcessed
    <3>2. QED
      BY <2>3, <3>1
  <2>10. /\ Len(new) = Len(s) /\ 1 \in DOMAIN s
         /\ \A i \in DOMAIN s : new[i].body = s[i].body
    <3>1. DOMAIN s = 1..Len(s) /\ DOMAIN new = 1..Len(new) /\ Len(s) > 0 /\ Len(s) \in Nat
      BY <1>3, <2>6
    <3>2. new[1].body = s[1].body
      BY <2>4, <2>6
    <3>3. Len(new) = Len(s)
      <4>1. Len(new) \in Nat
        BY <2>6
      <4>2. QED
        BY <2>6, <3>1, <4>1
    <3>4. QED
      BY <2>6, <3>1, <3>2, <3>3
  <2>11. \A i \in DOMAIN processed'[q] :
           \/ i \in DOMAIN processed[q] /\ processed'[q][i] = processed[q][i]
           \/ processed'[q][i] = s[1].body.n
    BY <2>3, <2>5, <2>8
  <2>12. Numbers(q)' = {processed'[q][i] : i \in DOMAIN processed'[q]} \cup
                       {new[i].body.n : i \in DOMAIN new}
    BY <2>7 DEF Numbers
  <2>13. Numbers(q)' \subseteq {processed[q][i] : i \in DOMAIN processed[q]} \cup
                               {s[i].body.n : i \in DOMAIN s}
    BY <2>6, <2>10, <2>11, <2>12
  <2>14. QED
    BY <1>1, <2>2, <2>7, <2>9, <2>10, <2>13
<1>4. QED
  BY <1>2, <1>3

LEMMA InitLine == Init => QueueInv
<1> SUFFICES ASSUME Init PROVE QueueInv
  OBVIOUS
<1>1. \A q \in Container : processed[q] = << >> /\ queues[q] = << >>
  BY DEF Init
<1>2. socket = << >>
  BY DEF Init
<1>3. \A q \in Container : Numbers(q) = {}
  BY <1>1 DEF Numbers
<1>4. QED
  BY <1>1, <1>2, <1>3 DEF QueueInv, LineInv, Generations, Line, Numbered

\* What an action that leaves the queues and the socket alone has to show.
LEMMA LineFrame ==
  ASSUME QueueInv, UNCHANGED <<queues, processed, applied, socket, changes>>
  PROVE  QueueInv'
BY DEF QueueInv, LineInv, Generations, Numbers

\* One queue changes, which is the queue of the moment or gets no new number.
LEMMA GenerationsKept ==
  ASSUME TypeOK, TimerInv, QueueInv, applied' = applied,
         NEW q \in Container, NEW n \in Nat,
         \A p \in Container : p # q =>
           queues'[p] = queues[p] /\ processed'[p] = processed[p],
         \A p \in Container : \A m \in Numbers(p) : m < n,
         \/ Numbers(q)' \subseteq Numbers(q) /\ q[2] <= applied
         \/ Numbers(q)' \subseteq Numbers(q) \cup {n} /\ q[2] = applied
  PROVE  Generations'
<1>1. applied \in Nat /\ \A p \in Container : p[2] \in Nat
  BY DEF TypeOK, Container
<1>2. \A p \in Container : p # q => Numbers(p)' = Numbers(p)
  BY DEF Numbers
<1>3. \A p \in Container : p[2] > applied => Numbers(p) = {}
  <2> SUFFICES ASSUME NEW p \in Container, p[2] > applied PROVE Numbers(p) = {}
    OBVIOUS
  <2>1. queues[p] = << >> /\ processed[p] = << >>
    BY DEF TimerInv, CurrentTimer, QueueInv, Generations
  <2>2. QED
    BY <2>1 DEF Numbers
<1>4. \A p \in Container : p[2] > applied => (processed[p])' = << >>
  BY <1>1 DEF QueueInv, Generations
<1>5. ASSUME NEW p \in Container, NEW r \in Container, p[1] = r[1], p[2] < r[2],
             NEW k \in Numbers(p)', NEW m \in Numbers(r)'
      PROVE  k < m
  <2>1. CASE p # q /\ r # q
    BY <1>2, <1>5, <2>1 DEF QueueInv, Generations
  <2>2. CASE p = q
    <3>1. r # q /\ m \in Numbers(r)
      BY <1>1, <1>2, <1>5, <2>2
    <3>2. r[2] <= applied
      BY <1>1, <1>3, <3>1
    <3>3. k \in Numbers(q)
      BY <1>1, <1>5, <2>2, <3>2
    <3>4. QED
      BY <1>5, <2>2, <3>1, <3>3 DEF QueueInv, Generations
  <2>3. CASE r = q
    <3>1. p # q /\ k \in Numbers(p)
      BY <1>1, <1>2, <1>5, <2>3
    <3>2. m \in Numbers(q) \/ m = n
      BY <1>5, <2>3
    <3>3. QED
      BY <1>5, <2>3, <3>1, <3>2 DEF QueueInv, Generations
  <2>4. QED
    BY <2>1, <2>2, <2>3
<1>6. QED
  BY <1>4, <1>5 DEF Generations

LEMMA HandlerSocketLine ==
  ASSUME TypeOK, TimerInv, QueueInv, HandlerSocket
  PROVE  QueueInv'
<1> DEFINE e == Head(socket)
<1>1. /\ e \in Event /\ Tail(socket) \in Seq(Event) /\ socket \in Seq(Event)
      /\ socket # << >> /\ e = socket[1] /\ e.n \in Nat
  <2>1. socket \in Seq(Event) /\ socket # << >>
    BY DEF TypeOK, HandlerSocket
  <2>2. e \in Event /\ Tail(socket) \in Seq(Event) /\ e = socket[1]
    BY <2>1
  <2>3. e.n \in Nat
    BY <2>2 DEF Event
  <2>4. QED
    BY <2>1, <2>2, <2>3
<1>2. PICK q \in Container : q = <<e.type, applied>>
  BY <1>1 DEF Container, TypeOK, Event
<1> DEFINE w == [body |-> e, isProcessing |-> FALSE]
           s == Append(queues[q], w)
<1>3. /\ queues \in [Container -> Seq(Waiting)] /\ timers \in [Container -> 0..1]
      /\ processed \in [Container -> Seq(1..MaxChanges)]
  BY DEF TypeOK, Waiting
<1>4. UNCHANGED <<applied, changes>> /\ socket' = Tail(socket)
  BY DEF HandlerSocket, server
<1>5. \A p \in Container : /\ Line(processed[p], queues[p], socket)
                           /\ Numbered(processed[p], queues[p], socket, changes)
  BY DEF QueueInv, LineInv
<1>6. \A p \in Container : /\ Line(processed[p], queues[p], Tail(socket))
                           /\ Numbered(processed[p], queues[p], Tail(socket), changes)
  <2>1. \A i \in DOMAIN Tail(socket) :
          i \in Nat /\ i + 1 \in DOMAIN socket /\ Tail(socket)[i] = socket[i + 1]
    BY <1>1, TailElements
  <2>2. QED
    BY <1>5, <2>1 DEF Line, Numbered
<1>7. CASE acceptHandlerSocket
  <2>1. ProcessingDataSocket(q, s, timers[q])
    BY <1>2, <1>7 DEF HandlerSocket
  <2>2. /\ w \in Waiting /\ w.body = e
        /\ queues[q] \in Seq(Waiting) /\ timers[q] \in {0, 1}
        /\ processed[q] \in Seq(1..MaxChanges)
    <3>1. queues[q] \in Seq(Waiting) /\ timers[q] \in {0, 1}
          /\ processed[q] \in Seq(1..MaxChanges)
      BY <1>3
    <3> HIDE DEF e
    <3>2. w \in Waiting /\ w.body = e
      BY <1>1 DEF Waiting
    <3>3. QED
      BY <3>1, <3>2
  <2> HIDE DEF e
  <2>3. /\ Line(processed[q], s, Tail(socket))
        /\ Numbered(processed[q], s, Tail(socket), changes)
    BY <1>1, <1>5, <2>2, EventQueued DEF e
  <2> HIDE DEF w
  <2>4. /\ s \in Seq(Waiting)
        /\ \A i \in DOMAIN s : \/ i \in DOMAIN queues[q] /\ s[i] = queues[q][i]
                               \/ s[i] = w
    BY <2>2
  <2> HIDE DEF s
  <2>5. /\ Line(processed'[q], queues'[q], Tail(socket))
        /\ Numbered(processed'[q], queues'[q], Tail(socket), changes)
        /\ Numbers(q)' \subseteq {processed[q][i] : i \in DOMAIN processed[q]} \cup
                                 {s[i].body.n : i \in DOMAIN s}
        /\ \A p \in Container : p # q =>
             queues'[p] = queues[p] /\ processed'[p] = processed[p]
    BY <1>1, <2>1, <2>2, <2>3, <2>4, ProcessingLine
  <2>6. LineInv'
    BY <1>4, <1>6, <2>5 DEF LineInv
  <2>7. Numbers(q)' \subseteq Numbers(q) \cup {e.n}
    <3>1. \A i \in DOMAIN s :
            \/ \E j \in DOMAIN queues[q] : s[i].body.n = queues[q][j].body.n
            \/ s[i].body.n = e.n
      BY <2>2, <2>4
    <3> DEFINE N == Numbers(q)'
    <3>2. N \subseteq {processed[q][i] : i \in DOMAIN processed[q]} \cup
                      {s[i].body.n : i \in DOMAIN s}
      BY <2>5
    <3> HIDE DEF N
    <3>3. N \subseteq Numbers(q) \cup {e.n}
      BY <3>1, <3>2 DEF Numbers
    <3>4. QED
      BY <3>3 DEF N
  <2>8. \A p \in Container : \A m \in Numbers(p) : m < e.n
    <3>1. 1 \in DOMAIN socket
      BY <1>1
    <3>2. QED
      BY <1>1, <1>5, <3>1 DEF Line, Numbers
  <2>9. applied' = applied /\ q[2] = applied /\ e.n \in Nat
    BY <1>1, <1>2, <1>4
  <2>10. Generations'
    BY <2>5, <2>7, <2>8, <2>9, GenerationsKept
  <2>11. QED
    BY <2>6, <2>10 DEF QueueInv
<1>8. CASE ~acceptHandlerSocket
  <2>1. UNCHANGED <<queues, processed>>
    BY <1>8 DEF HandlerSocket, queue
  <2>2. LineInv'
    BY <1>4, <1>6, <2>1 DEF LineInv
  <2>3. Generations'
    <3>1. UNCHANGED <<queues, processed, applied>> /\ Generations
      BY <1>4, <2>1 DEF QueueInv
    <3>2. QED
      BY <3>1 DEF Generations, Numbers
  <2>4. QED
    BY <2>2, <2>3 DEF QueueInv
<1>9. QED
  BY <1>7, <1>8

\* A timeout: the event that was processed goes, the next one is processed.
LEMMA NextProcessLine ==
  ASSUME TypeOK, TimerInv, QueueInv, NEW q \in Container, NextProcess(q)
  PROVE  /\ QueueInv' /\ timers[q] = 1 /\ Len(queues'[q]) <= Len(queues[q])
         /\ \A p \in Container : p # q =>
              /\ queues'[p] = queues[p] /\ timers'[p] = timers[p]
              /\ processed'[p] = processed[p]
<1>1. /\ queues \in [Container -> Seq(Waiting)] /\ timers \in [Container -> 0..1]
      /\ processed \in [Container -> Seq(1..MaxChanges)] /\ socket \in Seq(Event)
      /\ applied \in Nat /\ changes \in Nat /\ q[2] \in Nat
  <2>1. queues \in [Container -> Seq(Waiting)]
    BY DEF TypeOK, Waiting
  <2>2. applied \in Nat /\ changes \in Nat /\ q[2] \in Nat
    BY BoundAssumption DEF TypeOK, Container
  <2>3. QED
    BY <2>1, <2>2 DEF TypeOK
<1>2. timers[q] = 1 /\ queues[q] # << >> /\ q[2] <= applied
  BY <1>1 DEF NextProcess, TimerInv, OneTimer, CurrentTimer
<1>3. UNCHANGED <<applied, changes, socket>>
  BY DEF NextProcess, server
<1> DEFINE s == Tail(queues[q])
<1>4. ProcessingDataSocket(q, s, 0)
  <2>1. timers[q] - 1 = 0
    BY <1>2
  <2>2. ProcessingDataSocket(q, s, timers[q] - 1)
    BY <1>2 DEF NextProcess
  <2>3. QED
    BY <2>1, <2>2
<1>5. queues[q] \in Seq(Waiting) /\ processed[q] \in Seq(1..MaxChanges)
  BY <1>1
<1>6. /\ s \in Seq(Waiting) /\ Len(s) = Len(queues[q]) - 1
      /\ \A i \in DOMAIN s : i + 1 \in DOMAIN queues[q] /\ s[i] = queues[q][i + 1]
  BY <1>2, <1>5, TailElements
<1>7. Line(processed[q], queues[q], socket)
      /\ Numbered(processed[q], queues[q], socket, changes)
  BY DEF QueueInv, LineInv
<1>8. Line(processed[q], s, socket) /\ Numbered(processed[q], s, socket, changes)
  BY <1>1, <1>2, <1>5, <1>7, EventLeaves
<1> HIDE DEF s
<1>9. /\ Line(processed'[q], queues'[q], socket)
      /\ Numbered(processed'[q], queues'[q], socket, changes)
      /\ Numbers(q)' \subseteq {processed[q][i] : i \in DOMAIN processed[q]} \cup
                               {s[i].body.n : i \in DOMAIN s}
      /\ Len(queues'[q]) = Len(s)
      /\ \A p \in Container : p # q =>
           /\ queues'[p] = queues[p] /\ timers'[p] = timers[p]
           /\ processed'[p] = processed[p]
  BY <1>1, <1>4, <1>6, <1>8, ProcessingLine
<1>10. LineInv'
  BY <1>3, <1>9 DEF QueueInv, LineInv
<1>11. Numbers(q)' \subseteq Numbers(q)
  <2>1. \A i \in DOMAIN s : \E j \in DOMAIN queues[q] : s[i].body.n = queues[q][j].body.n
    BY <1>6
  <2> DEFINE N == Numbers(q)'
  <2>2. N \subseteq {processed[q][i] : i \in DOMAIN processed[q]} \cup
                    {s[i].body.n : i \in DOMAIN s}
    BY <1>9
  <2> HIDE DEF N
  <2>3. N \subseteq Numbers(q)
    BY <2>1, <2>2 DEF Numbers
  <2>4. QED
    BY <2>3 DEF N
<1>12. \A p \in Container : \A m \in Numbers(p) : m < changes + 1
  <2>1. \A p \in Container : /\ processed[p] \in Seq(1..MaxChanges)
                             /\ queues[p] \in Seq(Waiting)
                             /\ Numbered(processed[p], queues[p], socket, changes)
    BY <1>1 DEF QueueInv, LineInv
  <2>2. \A p \in Container : \A i \in DOMAIN queues[p] : queues[p][i].body.n \in Nat
    <3> SUFFICES ASSUME NEW p \in Container, NEW i \in DOMAIN queues[p]
                 PROVE  queues[p][i].body.n \in Nat
      OBVIOUS
    <3>1. queues[p][i] \in Waiting
      <4>1. DOMAIN queues[p] = 1..Len(queues[p])
        BY <2>1
      <4>2. QED
        BY <2>1, <4>1, ElementOfSeq
    <3>2. queues[p][i].body \in Event
      BY <3>1 DEF Waiting
    <3>3. QED
      BY <3>2 DEF Event
  <2>3. \A p \in Container : \A i \in DOMAIN processed[p] : processed[p][i] \in Nat
    <3> SUFFICES ASSUME NEW p \in Container, NEW i \in DOMAIN processed[p]
                 PROVE  processed[p][i] \in Nat
      OBVIOUS
    <3>1. DOMAIN processed[p] = 1..Len(processed[p])
      BY <2>1
    <3>2. processed[p][i] \in 1..MaxChanges
      BY <2>1, <3>1, ElementOfSeq
    <3>3. QED
      BY <3>2
  <2>4. QED
    BY <1>1, <2>1, <2>2, <2>3 DEF Numbers, Numbered
<1>13. Generations'
  <2>1. applied' = applied /\ changes + 1 \in Nat
    BY <1>1, <1>3
  <2>2. QED
    BY <1>2, <1>9, <1>11, <1>12, <2>1, GenerationsKept
<1>14. Len(queues'[q]) <= Len(queues[q])
  <2>1. Len(queues[q]) \in Nat
    BY <1>5
  <2>2. QED
    BY <1>6, <1>9, <2>1
<1>15. QED
  BY <1>2, <1>9, <1>10, <1>13, <1>14 DEF QueueInv

\* A new filter drops the queues and leaves what they hold.
LEMMA HanderFilterLine ==
  ASSUME TypeOK, QueueInv, NEW x \in Filters, NEW b \in BOOLEAN, HanderFilter(x, b)
  PROVE  QueueInv'
<1>1. /\ applied' = applied + 1 /\ applied \in Nat
      /\ UNCHANGED <<queues, processed, socket, changes>>
  BY DEF HanderFilter, TypeOK, server
<1>2. \A q \in Container : q[2] \in Nat
  BY DEF Container
<1>3. QED
  BY <1>1, <1>2 DEF QueueInv, LineInv, Generations, Numbers

\* A change is announced behind all events.
LEMMA ChangeLine ==
  ASSUME TypeOK, QueueInv, NEW a \in Ids, NEW t \in Types, Change(a, t)
  PROVE  QueueInv'
<1>1. UNCHANGED <<queues, processed, applied>>
      /\ changes' = changes + 1 /\ changes \in Nat
  BY BoundAssumption DEF Change, queue, TypeOK
<1>2. PICK e \in Event : socket' = Append(socket, e) /\ e.n = changes + 1
  BY ChangeEvent
<1>3. socket \in Seq(Event)
  BY DEF TypeOK
<1>4. \A i \in DOMAIN socket' : \/ i \in DOMAIN socket /\ socket'[i] = socket[i]
                                \/ i = Len(socket) + 1 /\ socket'[i] = e
  BY <1>2, <1>3
<1>5. \A i \in DOMAIN socket : i < Len(socket) + 1
  BY <1>3
<1>6. LineInv'
  <2> SUFFICES ASSUME NEW q \in Container
               PROVE  (/\ Line(processed[q], queues[q], socket)
                       /\ Numbered(processed[q], queues[q], socket, changes))'
    BY DEF LineInv
  <2> DEFINE s == queues[q]
             p == processed[q]
  <2>1. Line(p, s, socket) /\ Numbered(p, s, socket, changes)
    BY DEF QueueInv, LineInv
  <2>2. /\ (queues[q])' = s /\ (processed[q])' = p
    BY <1>1
  <2>3. /\ s \in Seq(Waiting) /\ p \in Seq(1..MaxChanges)
    <3>1. queues \in [Container -> Seq(Waiting)]
      BY DEF TypeOK, Waiting
    <3>2. QED
      BY <3>1 DEF TypeOK
  <2> HIDE DEF s, p
  <2>4. /\ \A i \in DOMAIN p : p[i] \in Nat
        /\ \A i \in DOMAIN s : s[i].body.n \in Nat
        /\ \A i \in DOMAIN socket : socket[i].n \in Nat
    <3>1. \A i \in DOMAIN s : s[i] \in Waiting
      BY <2>3
    <3>2. \A i \in DOMAIN socket : socket[i] \in Event
      BY <1>3
    <3>3. \A i \in DOMAIN p : p[i] \in 1..MaxChanges
      <4>1. DOMAIN p = 1..Len(p)
        BY <2>3
      <4>2. QED
        BY <2>3, <4>1, ElementOfSeq
    <3>4. QED
      BY <3>1, <3>2, <3>3 DEF Waiting, Event
  <2>5. /\ \A i \in DOMAIN p : p[i] < changes + 1
        /\ \A i \in DOMAIN s : s[i].body.n < changes + 1
        /\ \A i \in DOMAIN socket : socket[i].n < changes + 1
    BY <1>1, <2>1, <2>4 DEF Numbered
  <2>6. \A i, j \in DOMAIN socket' : i < j => socket'[i].n < socket'[j].n
    <3> TAKE i, j \in DOMAIN socket'
    <3> HAVE i < j
    <3>1. i \in DOMAIN socket /\ socket'[i] = socket[i]
      BY <1>3, <1>4, <1>5
    <3>2. CASE j \in DOMAIN socket /\ socket'[j] = socket[j]
      BY <2>1, <3>1, <3>2 DEF Line
    <3>3. CASE socket'[j] = e
      BY <1>2, <2>5, <3>1, <3>3
    <3>4. QED
      BY <1>4, <3>2, <3>3
  <2>7. Line(p, s, socket')
    <3>1. \A i \in DOMAIN p, j \in DOMAIN socket' : p[i] < socket'[j].n
      BY <1>2, <1>4, <2>1, <2>5 DEF Line
    <3>2. \A i \in DOMAIN s, j \in DOMAIN socket' : s[i].body.n < socket'[j].n
      BY <1>2, <1>4, <2>1, <2>5 DEF Line
    <3>3. QED
      BY <2>1, <2>6, <3>1, <3>2 DEF Line
  <2>8. Numbered(p, s, socket', changes + 1)
    <3>1. \A i \in DOMAIN socket' : socket'[i].n <= changes + 1
      BY <1>1, <1>2, <1>4, <2>4, <2>5
    <3>2. QED
      BY <1>1, <2>4, <2>5, <3>1 DEF Numbered
  <2>9. QED
    BY <1>1, <2>2, <2>7, <2>8
<1>7. Generations'
  BY <1>1 DEF QueueInv, Generations, Numbers
<1>8. QED
  BY <1>6, <1>7 DEF QueueInv

LEMMA ExpireLine ==
  ASSUME TypeOK, QueueInv, NEW a \in Ids, Expire(a)
  PROVE  QueueInv'
<1>1. UNCHANGED <<queues, processed, applied, socket>>
      /\ changes' = changes + 1 /\ changes \in Nat
  BY BoundAssumption DEF Expire, queue, TypeOK
<1>2. LineInv'
  <2> SUFFICES ASSUME NEW q \in Container
               PROVE  (/\ Line(processed[q], queues[q], socket)
                       /\ Numbered(processed[q], queues[q], socket, changes))'
    BY DEF LineInv
  <2> DEFINE s == queues[q]
             p == processed[q]
  <2>1. Line(p, s, socket) /\ Numbered(p, s, socket, changes)
    BY DEF QueueInv, LineInv
  <2>2. (queues[q])' = s /\ (processed[q])' = p
    BY <1>1
  <2>3. /\ s \in Seq(Waiting) /\ p \in Seq(1..MaxChanges) /\ socket \in Seq(Event)
    <3>1. queues \in [Container -> Seq(Waiting)]
      BY DEF TypeOK, Waiting
    <3>2. QED
      BY <3>1 DEF TypeOK
  <2> HIDE DEF s, p
  <2>4. /\ \A i \in DOMAIN p : p[i] \in Nat
        /\ \A i \in DOMAIN s : s[i].body.n \in Nat
        /\ \A i \in DOMAIN socket : socket[i].n \in Nat
    <3>1. \A i \in DOMAIN s : s[i] \in Waiting
      BY <2>3
    <3>2. \A i \in DOMAIN socket : socket[i] \in Event
      BY <2>3
    <3>3. \A i \in DOMAIN p : p[i] \in 1..MaxChanges
      <4>1. DOMAIN p = 1..Len(p)
        BY <2>3
      <4>2. QED
        BY <2>3, <4>1, ElementOfSeq
    <3>4. QED
      BY <3>1, <3>2, <3>3 DEF Waiting, Event
  <2>5. Numbered(p, s, socket, changes + 1)
    BY <1>1, <2>1, <2>4 DEF Numbered
  <2>6. QED
    BY <1>1, <2>1, <2>2, <2>5
<1>3. Generations'
  BY <1>1 DEF QueueInv, Generations, Numbers
<1>4. QED
  BY <1>2, <1>3 DEF QueueInv

LEMMA LineInductive == TypeOK /\ TimerInv /\ QueueInv /\ [Next]_vars => QueueInv'
<1> SUFFICES ASSUME TypeOK, TimerInv, QueueInv, [Next]_vars PROVE QueueInv'
  OBVIOUS
<1>1. CASE UNCHANGED vars
  BY <1>1, LineFrame DEF vars, server, queue
<1>2. CASE HandlerSocket
  BY <1>2, HandlerSocketLine
<1>3. ASSUME NEW q \in Container, NextProcess(q) PROVE QueueInv'
  BY <1>3, NextProcessLine
<1>4. CASE OpenFilter \/ AutoRevoke
  BY <1>4, LineFrame DEF OpenFilter, AutoRevoke, server, queue
<1>5. ASSUME NEW x \in Filters, NEW b \in BOOLEAN, HanderFilter(x, b)
      PROVE  QueueInv'
  BY <1>5, HanderFilterLine
<1>6. ASSUME NEW i \in DOMAIN loads, AnswerLoad(i) \/ LoadData(i) \/ LoadFailed(i)
      PROVE  QueueInv'
  BY <1>6, LineFrame DEF AnswerLoad, LoadData, LoadFailed, server, queue
<1>7. ASSUME NEW r \in fetches, AnswerFetch(r) \/ UpdateUserAssigns(r) \/ FetchFailed(r)
      PROVE  QueueInv'
  BY <1>7, LineFrame DEF AnswerFetch, UpdateUserAssigns, FetchFailed, server, queue
<1>8. ASSUME NEW a \in Ids, Expire(a) PROVE QueueInv'
  BY <1>8, ExpireLine
<1>9. ASSUME NEW a \in Ids, NEW t \in Types, Change(a, t) PROVE QueueInv'
  BY <1>9, ChangeLine
<1>10. QED
  BY <1>1, <1>2, <1>3, <1>4, <1>5, <1>6, <1>7, <1>8, <1>9
  DEF Next, Agent, Loading, Fetching

\* Every event is processed at most once, by the queue of its type that was
\* current when it came, and a queue processes its events in the order the server
\* sent them, whatever filters are applied and whatever the handlers do, and
\* although a dropped queue may go on beside the one that follows it
\* (List/index.tsx 122-134, 349-367, 633-638).
THEOREM EventsInOrder == Spec => []ProcessedInOrder
<1>1. QueueInv => ProcessedInOrder
  <2> SUFFICES ASSUME QueueInv, NEW q \in Container, NEW r \in Container,
                      NEW i \in DOMAIN processed[q], NEW j \in DOMAIN processed[r],
                      q[1] = r[1], q[2] < r[2] \/ (q = r /\ i < j)
               PROVE  processed[q][i] < processed[r][j]
    BY DEF ProcessedInOrder
  <2>1. CASE q = r /\ i < j
    <3>1. Line(processed[q], queues[q], socket)
      BY DEF QueueInv, LineInv
    <3>2. QED
      BY <2>1, <3>1 DEF Line
  <2>2. CASE q[2] < r[2]
    <3>1. processed[q][i] \in Numbers(q) /\ processed[r][j] \in Numbers(r)
      BY DEF Numbers
    <3>2. QED
      BY <2>2, <3>1 DEF QueueInv, Generations
  <2>3. QED
    BY <2>1, <2>2
<1>2. Init => TypeOK /\ TimerInv /\ QueueInv
  BY InitTypeOK, InitLine
<1>3. TypeOK /\ TimerInv /\ QueueInv /\ [Next]_vars => (TypeOK /\ TimerInv /\ QueueInv)'
  BY TypeInductive, LineInductive
<1>4. QED
  BY <1>1, <1>2, <1>3, PTL DEF Spec

\* An event joins the queue of the moment; a new filter only takes a timeout away;
\* a timeout processes the one queue it belongs to.
LEMMA DroppedStep ==
  ASSUME TypeOK, TimerInv, QueueInv, [Next]_vars, NEW q \in Container, q[2] < applied
  PROVE  /\ Len(queues'[q]) <= Len(queues[q])
         /\ timers[q] = 0 => UNCHANGED <<queues[q], timers[q], processed[q]>>
<1>1. /\ queues \in [Container -> Seq(Waiting)] /\ timers \in [Container -> 0..1]
      /\ processed \in [Container -> Seq(1..MaxChanges)]
      /\ applied \in Nat /\ q[2] \in Nat /\ Len(queues[q]) \in Nat
  <2>1. queues \in [Container -> Seq(Waiting)]
    BY DEF TypeOK, Waiting
  <2>2. QED
    BY <2>1 DEF TypeOK, Container
<1>2. CASE HandlerSocket
  <2> DEFINE e == Head(socket)
             p == <<e.type, applied>>
  <2>1. p \in Container /\ p # q
    <3>1. e \in Event
      BY <1>2 DEF TypeOK, HandlerSocket
    <3>2. QED
      BY <1>1, <3>1 DEF Event, Container, TypeOK
  <2>2. UNCHANGED <<queues[q], timers[q], processed[q]>>
    <3>1. \/ UNCHANGED <<queues, timers, processed>>
          \/ \E s, t : ProcessingDataSocket(p, s, t)
      BY <1>2, Zenon DEF HandlerSocket, queue
    <3>2. ASSUME NEW s, NEW t, ProcessingDataSocket(p, s, t)
          PROVE  UNCHANGED <<queues[q], timers[q], processed[q]>>
      <4> HIDE DEF p
      <4>1. \E f, g, h : /\ queues' = [queues EXCEPT ![p] = f]
                         /\ timers' = [timers EXCEPT ![p] = g]
                         /\ \/ processed' = processed
                            \/ processed' = [processed EXCEPT ![p] = h]
        BY <3>2, Zenon DEF ProcessingDataSocket
      <4>2. QED
        BY <1>1, <2>1, <4>1
    <3>3. QED
      BY <3>1, <3>2
  <2>3. QED
    BY <1>1, <2>2
<1>3. ASSUME NEW r \in Container, NextProcess(r)
      PROVE  /\ Len(queues'[q]) <= Len(queues[q])
             /\ timers[q] = 0 => UNCHANGED <<queues[q], timers[q], processed[q]>>
  <2>1. CASE r = q
    BY <1>3, <2>1, NextProcessLine
  <2>2. CASE r # q
    BY <1>1, <1>3, <2>2, NextProcessLine
  <2>3. QED
    BY <2>1, <2>2
<1>4. ASSUME NEW x \in Filters, NEW b \in BOOLEAN, HanderFilter(x, b)
      PROVE  /\ Len(queues'[q]) <= Len(queues[q])
             /\ timers[q] = 0 => UNCHANGED <<queues[q], timers[q], processed[q]>>
  BY <1>1, <1>4 DEF HanderFilter
<1>5. CASE UNCHANGED <<queues, timers, processed>>
  BY <1>1, <1>5
<1>6. ASSUME ~HandlerSocket, ~\E r \in Container : NextProcess(r),
             ~\E x \in Filters, b \in BOOLEAN : HanderFilter(x, b)
      PROVE  UNCHANGED <<queues, timers, processed>>
  BY <1>6 DEF Next, vars, Agent, Loading, Fetching, OpenFilter, AnswerLoad, LoadData,
     LoadFailed, AnswerFetch, UpdateUserAssigns, FetchFailed, AutoRevoke, Expire, Change,
     queue
<1>7. QED
  BY <1>2, <1>3, <1>4, <1>5, <1>6

\* A queue that a new filter has dropped gets no further event, and one that has
\* stopped, as the one whose timeout handerFilter clears, is never processed again
\* (List/index.tsx 122-134).
THEOREM DroppedStaysDropped == Spec => DroppedIsDropped
<1>1. Init => TypeOK /\ TimerInv /\ QueueInv
  BY InitTypeOK, InitLine
<1>2. TypeOK /\ TimerInv /\ QueueInv /\ [Next]_vars => (TypeOK /\ TimerInv /\ QueueInv)'
  BY TypeInductive, LineInductive
<1>3. TypeOK /\ TimerInv /\ QueueInv /\ [Next]_vars =>
        [\A q \in Container : q[2] < applied =>
           /\ Len(queues'[q]) <= Len(queues[q])
           /\ timers[q] = 0 => UNCHANGED <<queues[q], timers[q], processed[q]>>]_vars
  BY DroppedStep
<1>4. QED
  BY <1>1, <1>2, <1>3, PTL DEF Spec, DroppedIsDropped


-----------------------------------------------------------------------------
(* The list and the server agree.                                          *)

\* When the list can be held to the server: an assignment changes once the list
\* is loaded, no request fails, no handler throws, and the filter of a page is
\* the agent's own assignments or none that events bring.
Paced ==
  /\ Pace = "typed" /\ Ordered /\ MaxFailures = 0
  /\ Malformed \subseteq {FALSE} /\ "tag" \notin Types
  /\ Filters \subseteq {{"mine"}, {}}

\* The numbers of the events that wait in a queue of the moment, then those of
\* the events on their way, increase.
OrderInv ==
  \A t \in Types :
    /\ Line(<< >>, queues[<<t, applied>>], socket)
    /\ Numbered(<< >>, queues[<<t, applied>>], socket, changes)

\* A container has the events of its type.
KindInv == \A q \in Container : \A i \in DOMAIN queues[q] : queues[q][i].body.type = q[1]

\* The events that will be processed, or dropped by a new filter: those of the
\* socket, and those that wait in a queue that has a timeout.
Waits(e, q) == \E i \in DOMAIN queues[q] : queues[q][i].body = e /\ ~queues[q][i].isProcessing
Due == {e \in Event : \/ \E i \in DOMAIN socket : socket[i] = e
                      \/ \E q \in Container : timers[q] = 1 /\ Waits(e, q)}
About(a) == {e \in Due : e.id = a}

Announced(e) ==
  /\ ~e.malformed /\ e.type # "tag"
  /\ e.type = "new" => e.status = "mine"
  /\ e.type = "revoke" => e.status = "other"
  /\ e.type = "resolved" => e.status = "done"

AnnouncedInv == \A e \in Due : Announced(e)

\* What the list may have of an assignment with which it is in step.
Right(a) ==
  \/ status[a] = "ours"
  \/ list[a] = Matching(filter)[a]
  \/ list[a] = "expired" /\ status[a] # "mine"

\* While the list is being loaded it may have anything.
Settled(a) == loads = << >> => Right(a)

\* Only one type is on its way, and only the last timeout is set ...
Alone(t) ==
  /\ \A i \in DOMAIN socket : socket[i].type = t
  /\ \A q \in Container : timers[q] = 1 => q = <<t, applied>> /\ timeOutNextProcess = q

\* ... so that the newest event about an assignment has the last word, and tells
\* the server's status; unless what is left is of the time of overlapping types.
Late(a) ==
  \/ status[a] = "ours"
  \/ \E f \in About(a) : f.status = status[a] /\ \A g \in About(a) : g.n <= f.n
  \/ /\ About(a) # {} /\ status[a] = "mine"
     /\ \A g \in About(a) : g.status = "mine"
  \/ /\ Settled(a) /\ \A g \in About(a) : g.status = "ours"
     /\ About(a) # {} => status[a] = "mine"

\* Or pushes and assignments to the team are on their way, in any order: a push
\* that comes makes the list right, and an assignment to the team changes nothing.
ToTheTeam(e) == \/ e.type = "new"
                \/ e.type = "assign" /\ e.status = "ours"
Shared(a) ==
  /\ About(a) # {} => status[a] \in {"mine", "ours"}
  /\ (\A g \in About(a) : g.type # "new") => Settled(a)

AloneInv  == \E t \in Types : Alone(t) /\ \A a \in Ids : Late(a)
SharedInv == (\A e \in Due : ToTheTeam(e)) /\ \A a \in Ids : Shared(a)
PaceInv   == AloneInv \/ SharedInv

\* The last load has the filter of the feature, its answer is the server's, and
\* until a load is answered the queues of the moment are empty.
LoadsInv ==
  /\ \A i \in DOMAIN loads :
       loads[i].data # None => loads[i].data = Matching(loads[i].filter)
  /\ loads # << >> => loads[Len(loads)].filter = filter
  /\ ~acceptHandlerSocket =>
       loads # << >> /\ \A t \in Types : queues[<<t, applied>>] = << >>
  /\ loads = << >> /\ "mine" \notin filter => list = Empty
  /\ fetches = {}

SyncInv == TypeOK /\ TimerInv /\ OrderInv /\ KindInv /\ AnnouncedInv /\ LoadsInv /\ PaceInv

LEMMA InitSync ==
  ASSUME Paced
  PROVE  Init => SyncInv
<1> SUFFICES ASSUME Init PROVE SyncInv
  OBVIOUS
<1>1. TypeOK /\ TimerInv
  BY InitTypeOK
<1>2. \A q \in Container : queues[q] = << >> /\ timers[q] = 0
  BY DEF Init
<1>3. \A t \in Types : <<t, applied>> \in Container
  BY <1>1 DEF TypeOK, Container
<1>4. OrderInv /\ KindInv
  BY <1>2, <1>3 DEF Init, OrderInv, KindInv, Line, Numbered
<1>5. Due = {}
  BY <1>2 DEF Init, Due
<1>6. AnnouncedInv
  BY <1>5 DEF AnnouncedInv
<1>7. loads = << [filter |-> filter, data |-> None] >>
  BY DEF Init
<1>8. Len(loads) = 1 /\ DOMAIN loads = {1} /\ loads[1].filter = filter /\ loads[1].data = None
      /\ loads # << >>
  BY <1>7
<1>9. LoadsInv
  BY <1>2, <1>3, <1>8 DEF Init, LoadsInv
<1>10. SharedInv
  BY <1>5, <1>8 DEF SharedInv, Shared, Settled, About
<1>11. QED
  BY <1>1, <1>4, <1>6, <1>9, <1>10 DEF SyncInv, PaceInv

\* Once nothing is on its way, what the invariant says of the list is the claim.
LEMMA SyncImplies == SyncInv => InSync
<1> SUFFICES ASSUME SyncInv, Quiet, NEW a \in Ids, status[a] # "ours"
             PROVE  list[a] = Matching(filter)[a]
  BY DEF InSync
<1>1. Due = {}
  BY DEF Quiet, Due
<1>2. About(a) = {}
  BY <1>1 DEF About
<1>3. Settled(a)
  <2>1. CASE AloneInv
    BY <1>2, <2>1 DEF AloneInv, Late
  <2>2. CASE SharedInv
    BY <1>2, <2>2 DEF SharedInv, Shared
  <2>3. QED
    BY <2>1, <2>2 DEF SyncInv, PaceInv
<1>4. QED
  BY <1>3 DEF Quiet, Settled, Right

\* What processing a queue does: it leaves the head to its timeout, or processes
\* it and sets one.
LEMMA ProcessingEffect ==
  ASSUME TypeOK, NEW q \in Container, NEW s \in Seq(Waiting), NEW t \in {0, 1},
         Expected(s, t), ProcessingDataSocket(q, s, t)
  PROVE  /\ \A p \in Container : p # q => queues'[p] = queues[p] /\ timers'[p] = timers[p]
         /\ \/ /\ s = << >> \/ s[1].isProcessing
               /\ queues'[q] = s /\ timers'[q] = t
               /\ UNCHANGED <<timeOutNextProcess, list, fetches>>
            \/ /\ s # << >> /\ ~s[1].isProcessing
               /\ DOMAIN queues'[q] = DOMAIN s /\ queues'[q][1].isProcessing
               /\ queues'[q][1].body = s[1].body
               /\ \A i \in DOMAIN s : i > 1 => queues'[q][i] = s[i]
               /\ timers'[q] = 1 /\ timeOutNextProcess' = q
               /\ list' = Switch(s[1].body) /\ fetches' = fetches \cup Asked(s[1].body)
<1>1. queues \in [Container -> Seq(Waiting)] /\ timers \in [Container -> 0..1]
  BY DEF TypeOK, Waiting
<1>2. CASE s = << >> \/ Head(s).isProcessing
  <2>1. s = << >> \/ s[1].isProcessing
    BY <1>2
  <2>2. /\ queues' = [queues EXCEPT ![q] = s] /\ timers' = [timers EXCEPT ![q] = t]
        /\ UNCHANGED <<timeOutNextProcess, list, fetches, processed>>
    BY <1>2 DEF ProcessingDataSocket
  <2>3. QED
    BY <1>1, <2>1, <2>2
<1>3. CASE s # << >> /\ ~Head(s).isProcessing
  <2> DEFINE e == Head(s).body
             h == [body |-> e, isProcessing |-> TRUE]
             new == <<h>> \o Tail(s)
  <2>1. Head(s) = s[1] /\ s[1] \in Waiting /\ h \in Waiting /\ h.isProcessing /\ h.body = e
    <3>1. Head(s) = s[1] /\ s[1] \in Waiting
      BY <1>3
    <3>2. QED
      BY <3>1 DEF Waiting
  <2>2. t = 0
    BY <1>3, <2>1 DEF Expected
  <2>3. /\ queues' = [queues EXCEPT ![q] = new]
        /\ timers' = [timers EXCEPT ![q] = t + 1]
        /\ timeOutNextProcess' = q
        /\ list' = Switch(e) /\ fetches' = fetches \cup Asked(e)
    BY <1>3, Zenon DEF ProcessingDataSocket
  <2>4. e = s[1].body
    BY <2>1
  <2> HIDE DEF e, h
  <2>5. /\ new[1] = h /\ DOMAIN new = DOMAIN s
        /\ \A i \in DOMAIN s : i > 1 => new[i] = s[i]
    BY <1>3, <2>1, HeadReplaced
  <2> HIDE DEF new
  <2>6. queues'[q] = new /\ timers'[q] = 1
    BY <1>1, <2>2, <2>3
  <2>7. \A p \in Container : p # q => queues'[p] = queues[p] /\ timers'[p] = timers[p]
    BY <1>1, <2>3
  <2>8. s # << >> /\ ~s[1].isProcessing
    BY <1>3, <2>1
  <2>9. QED
    BY <2>1, <2>3, <2>4, <2>5, <2>6, <2>7, <2>8
<1>4. QED
  BY <1>2, <1>3

\* So it keeps the bodies of the queue, and with them the order of its numbers
\* and the type of its events.
LEMMA ProcessingBodies ==
  ASSUME TypeOK, NEW q \in Container, NEW s \in Seq(Waiting), NEW t \in {0, 1},
         Expected(s, t), ProcessingDataSocket(q, s, t)
  PROVE  /\ DOMAIN queues'[q] = DOMAIN s
         /\ \A i \in DOMAIN s : queues'[q][i].body = s[i].body
<1>1. DOMAIN s \subseteq Nat \ {0}
  OBVIOUS
<1>2. \A i \in DOMAIN s : i = 1 \/ i > 1
  BY <1>1
<1>3. QED
  BY <1>2, ProcessingEffect

\* A queue that has the bodies of another has its place in the line.
LEMMA SameBodies ==
  ASSUME NEW s, NEW r, DOMAIN r = DOMAIN s, \A i \in DOMAIN s : r[i].body = s[i].body,
         NEW x, NEW c, Line(<< >>, s, x), Numbered(<< >>, s, x, c)
  PROVE  Line(<< >>, r, x) /\ Numbered(<< >>, r, x, c)
BY DEF Line, Numbered

\* A sequence with a new last element.
LEMMA AppendElements ==
  ASSUME NEW S, NEW s \in Seq(S), NEW w \in S
  PROVE  LET new == Append(s, w)
         IN  /\ new \in Seq(S) /\ new # << >> /\ new[Len(s) + 1] = w
             /\ DOMAIN new = 1..(Len(s) + 1) /\ DOMAIN s = 1..Len(s) /\ Len(s) \in Nat
             /\ \A i \in DOMAIN s : new[i] = s[i]
OBVIOUS

\* The queue, the head of the socket and the timeout, as handlerSocket passes
\* them on.
LEMMA QueuedExpected ==
  ASSUME TypeOK, TimerInv, HandlerSocket, NEW q \in Container,
         q = <<Head(socket).type, applied>>
  PROVE  LET w == [body |-> Head(socket), isProcessing |-> FALSE]
             s == Append(queues[q], w)
         IN  /\ Head(socket) = socket[1] /\ Head(socket) \in Event /\ 1 \in DOMAIN socket
             /\ queues[q] \in Seq(Waiting) /\ timers[q] \in {0, 1}
             /\ s \in Seq(Waiting) /\ Expected(s, timers[q])
             /\ DOMAIN s = DOMAIN queues[q] \cup {Len(queues[q]) + 1}
             /\ s[Len(queues[q]) + 1] = w
             /\ \A i \in DOMAIN queues[q] : s[i] = queues[q][i]
             /\ timers[q] = 0 => queues[q] = << >>
             /\ timers[q] = 1 => queues[q] # << >> /\ queues[q][1].isProcessing
<1> DEFINE e == Head(socket)
           w == [body |-> e, isProcessing |-> FALSE]
           s == Append(queues[q], w)
<1>1. e \in Event /\ e = socket[1] /\ 1 \in DOMAIN socket
  BY DEF TypeOK, HandlerSocket
<1>2. queues[q] \in Seq(Waiting) /\ timers[q] \in {0, 1}
  <2>1. queues \in [Container -> Seq(Waiting)] /\ timers \in [Container -> 0..1]
    BY DEF TypeOK, Waiting
  <2>2. QED
    BY <2>1
<1>3. w \in Waiting /\ w.isProcessing = FALSE
  BY <1>1 DEF Waiting
<1>4. OneTimer(q) /\ CurrentTimer(q) /\ q[2] = applied
  BY DEF TimerInv
<1> HIDE DEF w, e
<1>5. /\ s \in Seq(Waiting) /\ s # << >> /\ s[Len(queues[q]) + 1] = w
      /\ DOMAIN s = 1..(Len(queues[q]) + 1) /\ DOMAIN queues[q] = 1..Len(queues[q])
      /\ Len(queues[q]) \in Nat
      /\ \A i \in DOMAIN queues[q] : s[i] = queues[q][i]
  BY <1>2, <1>3, AppendElements
<1> HIDE DEF s
<1>6. DOMAIN s = DOMAIN queues[q] \cup {Len(queues[q]) + 1}
  BY <1>5
<1>7. /\ timers[q] = 0 => queues[q] = << >>
      /\ timers[q] = 1 => queues[q] # << >> /\ queues[q][1].isProcessing
  BY <1>4 DEF OneTimer, CurrentTimer
<1>8. Expected(s, timers[q])
  <2>1. \A i \in DOMAIN s : i > 1 => ~s[i].isProcessing
    BY <1>3, <1>4, <1>5, <1>6 DEF OneTimer
  <2>2. timers[q] = 1 => s[1].isProcessing
    <3>1. queues[q] # << >> => 1 \in DOMAIN queues[q]
      BY <1>5
    <3>2. QED
      BY <1>5, <1>7, <3>1
  <2>3. timers[q] = 0 => ~s[1].isProcessing
    <3>1. queues[q] = << >> => Len(queues[q]) + 1 = 1
      OBVIOUS
    <3>2. QED
      BY <1>3, <1>5, <1>7, <3>1
  <2>4. QED
    BY <1>5, <2>1, <2>2, <2>3 DEF Expected
<1>9. QED
  BY <1>1, <1>2, <1>5, <1>6, <1>7, <1>8 DEF s, w, e

\* The queue as nextProcess passes it on.
LEMMA TakenExpected ==
  ASSUME TypeOK, TimerInv, NEW q \in Container, NextProcess(q)
  PROVE  LET s == Tail(queues[q])
         IN  /\ timers[q] = 1 /\ queues[q] \in Seq(Waiting) /\ queues[q] # << >>
             /\ queues[q][1].isProcessing
             /\ s \in Seq(Waiting) /\ Expected(s, 0) /\ ProcessingDataSocket(q, s, 0)
             /\ \A i \in DOMAIN s : ~s[i].isProcessing
             /\ \A i \in DOMAIN s : i + 1 \in DOMAIN queues[q] /\ s[i] = queues[q][i + 1]
             /\ \A i \in DOMAIN queues[q] : i = 1 \/ i - 1 \in DOMAIN s
<1> DEFINE s == Tail(queues[q])
<1>1. queues[q] \in Seq(Waiting) /\ timers[q] = 1
  <2>1. queues \in [Container -> Seq(Waiting)] /\ timers \in [Container -> 0..1]
    BY DEF TypeOK, Waiting
  <2>2. QED
    BY <2>1 DEF NextProcess
<1>2. OneTimer(q)
  BY DEF TimerInv
<1>3. queues[q] # << >> /\ queues[q][1].isProcessing
  BY <1>1, <1>2 DEF OneTimer
<1>4. ProcessingDataSocket(q, s, 0)
  <2>1. timers[q] - 1 = 0
    BY <1>1
  <2>2. ProcessingDataSocket(q, s, timers[q] - 1)
    BY <1>3 DEF NextProcess
  <2>3. QED
    BY <2>1, <2>2
<1>5. /\ s \in Seq(Waiting) /\ Len(s) = Len(queues[q]) - 1
      /\ \A i \in DOMAIN s : i + 1 \in DOMAIN queues[q] /\ s[i] = queues[q][i + 1]
  BY <1>1, <1>3, TailElements
<1> HIDE DEF s
<1>6. DOMAIN s = 1..Len(s) /\ Len(s) \in Nat /\ DOMAIN queues[q] = 1..Len(queues[q])
  BY <1>1, <1>5
<1>7. \A i \in DOMAIN queues[q] : i = 1 \/ i - 1 \in DOMAIN s
  BY <1>5, <1>6
<1>8. \A i \in DOMAIN s : ~s[i].isProcessing
  BY <1>2, <1>5, <1>6 DEF OneTimer
<1>9. Expected(s, 0)
  <2>1. s = << >> \/ 1 \in DOMAIN s
    BY <1>5
  <2>2. QED
    BY <1>8, <2>1 DEF Expected
<1>10. QED
  BY <1>1, <1>3, <1>4, <1>5, <1>7, <1>8, <1>9 DEF s

-----------------------------------------------------------------------------
(* The order and the types of the events.                                  *)

LEMMA QueuesOf ==
  TypeOK => /\ \A q \in Container : queues[q] \in Seq(Waiting)
            /\ \A t \in Types : <<t, applied>> \in Container
            /\ socket \in Seq(Event)
<1> SUFFICES ASSUME TypeOK PROVE /\ \A q \in Container : queues[q] \in Seq(Waiting)
                                 /\ \A t \in Types : <<t, applied>> \in Container
                                 /\ socket \in Seq(Event)
  OBVIOUS
<1>1. queues \in [Container -> Seq(Waiting)]
  BY DEF TypeOK, Waiting
<1>2. QED
  BY <1>1 DEF TypeOK, Container

\* The line without the first event on its way.
LEMMA LineTail ==
  ASSUME NEW s, NEW x \in Seq(Event), NEW c, x # << >>,
         Line(<< >>, s, x), Numbered(<< >>, s, x, c)
  PROVE  Line(<< >>, s, Tail(x)) /\ Numbered(<< >>, s, Tail(x), c)
<1> DEFINE y == Tail(x)
<1>1. /\ y \in Seq(Event)
      /\ \A i \in DOMAIN y : i + 1 \in DOMAIN x /\ y[i] = x[i + 1]
  BY TailElements
<1>2. DOMAIN y \subseteq Nat
  BY <1>1
<1> HIDE DEF y
<1>3. \A i, j \in DOMAIN y : i < j => y[i].n < y[j].n
  BY <1>1, <1>2 DEF Line
<1>4. Line(<< >>, s, y) /\ Numbered(<< >>, s, y, c)
  BY <1>1, <1>3 DEF Line, Numbered
<1>5. QED
  BY <1>4 DEF y

\* The line with one more event, whose number is the next.
LEMMA LineAppend ==
  ASSUME NEW s \in Seq(Waiting), NEW x \in Seq(Event), NEW c \in Nat, NEW e \in Event,
         e.n = c + 1, Line(<< >>, s, x), Numbered(<< >>, s, x, c)
  PROVE  Line(<< >>, s, Append(x, e)) /\ Numbered(<< >>, s, Append(x, e), c + 1)
<1> DEFINE y == Append(x, e)
<1>1. /\ y[Len(x) + 1] = e /\ DOMAIN y = 1..(Len(x) + 1) /\ DOMAIN x = 1..Len(x)
      /\ Len(x) \in Nat /\ \A i \in DOMAIN x : y[i] = x[i]
  BY AppendElements
<1> HIDE DEF y
<1>2. /\ \A i \in DOMAIN s : s[i].body.n \in Nat
      /\ \A i \in DOMAIN x : x[i].n \in Nat
  <2>1. /\ \A i \in DOMAIN s : s[i] \in Waiting
        /\ \A i \in DOMAIN x : x[i] \in Event
    OBVIOUS
  <2>2. QED
    BY <2>1 DEF Waiting, Event
<1>3. /\ \A i \in DOMAIN s : s[i].body.n < c + 1
      /\ \A i \in DOMAIN x : x[i].n < c + 1
  BY <1>2 DEF Numbered
<1>4. \A j \in DOMAIN y : \/ j \in DOMAIN x /\ y[j] = x[j]
                          \/ j = Len(x) + 1 /\ y[j] = e
  BY <1>1
<1>5. \A i, j \in DOMAIN y : i < j => y[i].n < y[j].n
  BY <1>1, <1>3, <1>4 DEF Line
<1>6. \A i \in DOMAIN s, j \in DOMAIN y : s[i].body.n < y[j].n
  BY <1>3, <1>4 DEF Line
<1>7. Line(<< >>, s, y)
  BY <1>5, <1>6 DEF Line
<1>8. Numbered(<< >>, s, y, c + 1)
  BY <1>2, <1>3, <1>4 DEF Numbered
<1>9. QED
  BY <1>7, <1>8 DEF y

LEMMA HandlerSocketOrder ==
  ASSUME TypeOK, TimerInv, OrderInv, KindInv, HandlerSocket
  PROVE  OrderInv' /\ KindInv'
<1>1. socket # << >> /\ socket' = Tail(socket) /\ UNCHANGED <<applied, changes>>
  BY DEF HandlerSocket, server
<1>2. PICK x \in Seq(Event) : x = socket /\ x # << >>
  BY <1>1, QueuesOf
<1>3. PICK e \in Event : e = Head(socket)
  BY <1>2
<1>4. PICK q \in Container : q = <<e.type, applied>>
  BY <1>3, QueuesOf DEF Event
<1> DEFINE w == [body |-> e, isProcessing |-> FALSE]
           s == Append(queues[q], w)
<1>5. /\ s \in Seq(Waiting) /\ Expected(s, timers[q])
      /\ DOMAIN s = DOMAIN queues[q] \cup {Len(queues[q]) + 1}
      /\ s[Len(queues[q]) + 1] = w /\ w.body = e
      /\ \A i \in DOMAIN queues[q] : s[i] = queues[q][i]
      /\ timers[q] \in {0, 1}
  BY <1>3, <1>4, QueuedExpected
<1>6. PICK t \in {0, 1} : t = timers[q]
  BY <1>5
<1>7. CASE acceptHandlerSocket
  <2>1. ProcessingDataSocket(q, s, t)
    BY <1>3, <1>4, <1>6, <1>7 DEF HandlerSocket
  <2> HIDE DEF s, w
  <2>2. /\ \A p \in Container : p # q => queues'[p] = queues[p]
        /\ DOMAIN queues'[q] = DOMAIN s
        /\ \A i \in DOMAIN s : queues'[q][i].body = s[i].body
    <3>1. Expected(s, t) /\ s \in Seq(Waiting)
      BY <1>5, <1>6
    <3>2. \A p \in Container : p # q => queues'[p] = queues[p]
      BY <2>1, <3>1, ProcessingEffect
    <3>3. QED
      BY <2>1, <3>1, <3>2, ProcessingBodies
  <2>3. OrderInv'
    <3> SUFFICES ASSUME NEW u \in Types
                 PROVE  /\ Line(<< >>, queues'[<<u, applied>>], Tail(x))
                        /\ Numbered(<< >>, queues'[<<u, applied>>], Tail(x), changes)
      BY <1>1, <1>2 DEF OrderInv
    <3>1. PICK p \in Container : p = <<u, applied>>
      BY QueuesOf
    <3>2. PICK r \in Seq(Waiting) : r = queues[p]
      BY QueuesOf
    <3>3. Line(<< >>, r, x) /\ Numbered(<< >>, r, x, changes)
      BY <1>2, <3>1, <3>2 DEF OrderInv
    <3>4. CASE p = q
      <4>1. << >> \in Seq(1..MaxChanges)
        BY EmptySeq
      <4>2. Line(<< >>, s, Tail(x)) /\ Numbered(<< >>, s, Tail(x), changes)
        BY <1>2, <1>3, <3>2, <3>3, <3>4, <4>1, EventQueued DEF s, w
      <4>3. Line(<< >>, queues'[q], Tail(x)) /\ Numbered(<< >>, queues'[q], Tail(x), changes)
        BY <2>2, <4>2, SameBodies
      <4>4. QED
        BY <3>1, <3>4, <4>3
    <3>5. CASE p # q
      BY <1>2, <2>2, <3>1, <3>2, <3>3, <3>5, LineTail
    <3>6. QED
      BY <3>4, <3>5
  <2>4. KindInv'
    <3> SUFFICES ASSUME NEW p \in Container, NEW i \in DOMAIN queues'[p]
                 PROVE  queues'[p][i].body.type = p[1]
      BY DEF KindInv
    <3>1. CASE p = q
      <4>1. i \in DOMAIN s /\ queues'[q][i].body = s[i].body
        BY <2>2, <3>1
      <4>2. s[i].body.type = q[1]
        <5>1. CASE i \in DOMAIN queues[q]
          BY <1>5, <5>1 DEF KindInv
        <5>2. CASE i = Len(queues[q]) + 1
          BY <1>4, <1>5, <5>2
        <5>3. QED
          BY <1>5, <4>1, <5>1, <5>2
      <4>3. QED
        BY <3>1, <4>1, <4>2
    <3>2. CASE p # q
      BY <2>2, <3>2 DEF KindInv
    <3>3. QED
      BY <3>1, <3>2
  <2>5. QED
    BY <2>3, <2>4
<1>8. CASE ~acceptHandlerSocket
  <2>1. queues' = queues
    BY <1>8 DEF HandlerSocket, queue
  <2>2. OrderInv'
    <3> SUFFICES ASSUME NEW u \in Types
                 PROVE  /\ Line(<< >>, queues[<<u, applied>>], Tail(x))
                        /\ Numbered(<< >>, queues[<<u, applied>>], Tail(x), changes)
      BY <1>1, <1>2, <2>1 DEF OrderInv
    <3>1. QED
      BY <1>2, LineTail DEF OrderInv
  <2>3. QED
    BY <2>1, <2>2 DEF KindInv
<1>9. QED
  BY <1>7, <1>8

LEMMA NextProcessOrder ==
  ASSUME TypeOK, TimerInv, OrderInv, KindInv, NEW q \in Container, NextProcess(q)
  PROVE  OrderInv' /\ KindInv'
<1>1. UNCHANGED <<applied, changes, socket>>
  BY DEF NextProcess, server
<1> DEFINE s == Tail(queues[q])
<1>2. /\ s \in Seq(Waiting) /\ queues[q] # << >>
      /\ Expected(s, 0) /\ ProcessingDataSocket(q, s, 0)
      /\ \A i \in DOMAIN s : i + 1 \in DOMAIN queues[q] /\ s[i] = queues[q][i + 1]
  BY TakenExpected
<1> HIDE DEF s
<1>3. \A p \in Container : p # q => queues'[p] = queues[p]
  BY <1>2, ProcessingEffect
<1>4. /\ DOMAIN queues'[q] = DOMAIN s
      /\ \A i \in DOMAIN s : queues'[q][i].body = s[i].body
  BY <1>2, ProcessingBodies
<1>5. OrderInv'
  <2> SUFFICES ASSUME NEW u \in Types
               PROVE  /\ Line(<< >>, queues'[<<u, applied>>], socket)
                      /\ Numbered(<< >>, queues'[<<u, applied>>], socket, changes)
    BY <1>1 DEF OrderInv
  <2>1. PICK p \in Container : p = <<u, applied>>
    BY QueuesOf
  <2>2. PICK r \in Seq(Waiting) : r = queues[p]
    BY QueuesOf
  <2>3. Line(<< >>, r, socket) /\ Numbered(<< >>, r, socket, changes)
    BY <2>1, <2>2 DEF OrderInv
  <2>4. CASE p = q
    <3>1. << >> \in Seq(1..MaxChanges) /\ socket \in Seq(Event)
      BY EmptySeq, QueuesOf
    <3>2. Line(<< >>, s, socket) /\ Numbered(<< >>, s, socket, changes)
      BY <1>2, <2>2, <2>3, <2>4, <3>1, EventLeaves DEF s
    <3>3. Line(<< >>, queues'[q], socket) /\ Numbered(<< >>, queues'[q], socket, changes)
      BY <1>4, <3>2, SameBodies
    <3>4. QED
      BY <2>1, <2>4, <3>3
  <2>5. CASE p # q
    BY <1>3, <2>1, <2>2, <2>3, <2>5
  <2>6. QED
    BY <2>4, <2>5
<1>6. KindInv'
  <2> SUFFICES ASSUME NEW p \in Container, NEW i \in DOMAIN queues'[p]
               PROVE  queues'[p][i].body.type = p[1]
    BY DEF KindInv
  <2>1. CASE p = q
    <3>1. i \in DOMAIN s /\ queues'[q][i].body = s[i].body
      BY <1>4, <2>1
    <3>2. s[i].body.type = q[1]
      BY <1>2, <3>1 DEF KindInv
    <3>3. QED
      BY <2>1, <3>1, <3>2
  <2>2. CASE p # q
    BY <1>3, <2>2 DEF KindInv
  <2>3. QED
    BY <2>1, <2>2
<1>7. QED
  BY <1>5, <1>6

LEMMA OrderFrame ==
  ASSUME OrderInv, KindInv, UNCHANGED <<queues, applied, socket, changes>>
  PROVE  OrderInv' /\ KindInv'
BY DEF OrderInv, KindInv

LEMMA HanderFilterOrder ==
  ASSUME TypeOK, TimerInv, OrderInv, KindInv, NEW x \in Filters, NEW b \in BOOLEAN,
         HanderFilter(x, b)
  PROVE  /\ OrderInv' /\ KindInv'
         /\ \A t \in Types : queues[<<t, applied'>>] = << >> /\ <<t, applied'>> \in Container
<1>1. /\ applied' = applied + 1 /\ applied \in Nat /\ applied' \in 0..MaxFilters
      /\ UNCHANGED <<queues, socket, changes>>
  BY BoundAssumption DEF HanderFilter, TypeOK, server
<1>2. ASSUME NEW t \in Types
      PROVE  queues[<<t, applied'>>] = << >> /\ <<t, applied'>> \in Container
  <2>1. <<t, applied'>> \in Container /\ applied' > applied
    BY <1>1 DEF Container
  <2>2. QED
    BY <2>1 DEF TimerInv, CurrentTimer
<1>3. OrderInv'
  <2> SUFFICES ASSUME NEW t \in Types
               PROVE  /\ Line(<< >>, << >>, socket)
                      /\ Numbered(<< >>, << >>, socket, changes)
    BY <1>1, <1>2 DEF OrderInv
  <2>1. /\ Line(<< >>, queues[<<t, applied>>], socket)
        /\ Numbered(<< >>, queues[<<t, applied>>], socket, changes)
    BY DEF OrderInv
  <2>2. QED
    BY <2>1 DEF Line, Numbered
<1>4. QED
  BY <1>1, <1>2, <1>3 DEF KindInv

LEMMA ServerOrder ==
  ASSUME TypeOK, OrderInv, KindInv, NEW a \in Ids,
         Expire(a) \/ \E t \in Types : Change(a, t)
  PROVE  OrderInv' /\ KindInv'
<1>1. UNCHANGED <<queues, applied>> /\ changes' = changes + 1 /\ changes \in Nat
  BY BoundAssumption DEF Expire, Change, queue, TypeOK
<1>2. KindInv'
  BY <1>1 DEF KindInv
<1>3. ASSUME NEW t \in Types
      PROVE  /\ Line(<< >>, queues[<<t, applied>>], socket')
             /\ Numbered(<< >>, queues[<<t, applied>>], socket', changes + 1)
  <2>1. PICK s \in Seq(Waiting) : s = queues[<<t, applied>>]
    BY QueuesOf
  <2>2. Line(<< >>, s, socket) /\ Numbered(<< >>, s, socket, changes)
    BY <2>1 DEF OrderInv
  <2>3. socket \in Seq(Event)
    BY QueuesOf
  <2>4. CASE Expire(a)
    <3>1. socket' = socket
      BY <2>4 DEF Expire
    <3>2. /\ \A i \in DOMAIN s : s[i].body.n \in Nat
          /\ \A i \in DOMAIN socket : socket[i].n \in Nat
      <4>1. /\ \A i \in DOMAIN s : s[i] \in Waiting
            /\ \A i \in DOMAIN socket : socket[i] \in Event
        BY <2>3
      <4>2. QED
        BY <4>1 DEF Waiting, Event
    <3>3. Numbered(<< >>, s, socket, changes + 1)
      BY <1>1, <2>2, <3>2 DEF Numbered
    <3>4. QED
      BY <2>1, <2>2, <3>1, <3>3
  <2>5. ASSUME NEW u \in Types, Change(a, u)
        PROVE  Line(<< >>, s, socket') /\ Numbered(<< >>, s, socket', changes + 1)
    <3>1. PICK e \in Event : socket' = Append(socket, e) /\ e.n = changes + 1
      BY <2>5, ChangeEvent
    <3>2. QED
      BY <1>1, <2>2, <2>3, <3>1, LineAppend
  <2>6. QED
    BY <2>1, <2>4, <2>5
<1>4. OrderInv'
  BY <1>1, <1>3 DEF OrderInv
<1>5. QED
  BY <1>2, <1>4

-----------------------------------------------------------------------------
(* The events on their way.                                                *)

\* The socket without its first event, element by element.
LEMMA SocketTail ==
  ASSUME TypeOK, HandlerSocket
  PROVE  /\ \A i \in DOMAIN socket' : i + 1 \in DOMAIN socket /\ socket'[i] = socket[i + 1]
         /\ \A i \in DOMAIN socket :
              i = 1 \/ (i - 1 \in DOMAIN socket' /\ socket'[i - 1] = socket[i])
<1>1. socket \in Seq(Event) /\ socket # << >> /\ socket' = Tail(socket)
  BY DEF TypeOK, HandlerSocket
<1>2. /\ socket' \in Seq(Event) /\ Len(socket') = Len(socket) - 1
      /\ \A i \in DOMAIN socket' : i + 1 \in DOMAIN socket /\ socket'[i] = socket[i + 1]
  BY <1>1, TailElements
<1>3. /\ DOMAIN socket = 1..Len(socket) /\ DOMAIN socket' = 1..Len(socket')
      /\ Len(socket) \in Nat
  BY <1>1, <1>2
<1>4. \A i \in DOMAIN socket : i = 1 \/ i - 1 \in DOMAIN socket'
  BY <1>2, <1>3
<1>5. \A i \in DOMAIN socket : i \in Nat /\ (i - 1) + 1 = i
  BY <1>3
<1>6. \A i \in DOMAIN socket : i = 1 \/ socket'[i - 1] = socket[i]
  BY <1>2, <1>4, <1>5
<1>7. QED
  BY <1>2, <1>4, <1>6

\* handlerSocket drops the first event, makes it wait, or has it processed.
LEMMA HandlerSocketDue ==
  ASSUME TypeOK, TimerInv, HandlerSocket, NEW e, e = Head(socket),
         NEW q \in Container, q = <<e.type, applied>>
  PROVE  /\ e \in Due /\ Due' \subseteq Due /\ Due \subseteq Due' \cup {e}
         /\ \A p \in Container : p # q => timers'[p] = timers[p] /\ queues'[p] = queues[p]
         /\ \/ /\ ~acceptHandlerSocket
               /\ UNCHANGED <<queues, timers, timeOutNextProcess, list, fetches>>
            \/ /\ acceptHandlerSocket /\ timers[q] = 1 /\ Due \subseteq Due'
               /\ UNCHANGED <<timeOutNextProcess, list, fetches>>
            \/ /\ acceptHandlerSocket /\ timers[q] = 0
               /\ timers'[q] = 1 /\ timeOutNextProcess' = q
               /\ list' = Switch(e) /\ fetches' = fetches \cup Asked(e)
<1> DEFINE w == [body |-> e, isProcessing |-> FALSE]
           s == Append(queues[q], w)
<1>1. /\ e = socket[1] /\ e \in Event /\ 1 \in DOMAIN socket
      /\ queues[q] \in Seq(Waiting) /\ timers[q] \in {0, 1}
      /\ s \in Seq(Waiting) /\ Expected(s, timers[q])
      /\ DOMAIN s = DOMAIN queues[q] \cup {Len(queues[q]) + 1}
      /\ s[Len(queues[q]) + 1] = w /\ w.body = e /\ ~w.isProcessing
      /\ \A i \in DOMAIN queues[q] : s[i] = queues[q][i]
      /\ timers[q] = 0 => queues[q] = << >>
      /\ timers[q] = 1 => queues[q] # << >> /\ queues[q][1].isProcessing
  BY QueuedExpected
<1>2. /\ \A i \in DOMAIN socket' : i + 1 \in DOMAIN socket /\ socket'[i] = socket[i + 1]
      /\ \A i \in DOMAIN socket :
              i = 1 \/ (i - 1 \in DOMAIN socket' /\ socket'[i - 1] = socket[i])
  BY SocketTail
<1>3. e \in Due
  BY <1>1 DEF Due
<1>4. \A g \in Event : (\E i \in DOMAIN socket' : socket'[i] = g) => g \in Due
  BY <1>2 DEF Due
<1>5. \A g \in Event : (\E i \in DOMAIN socket : socket[i] = g) => g \in Due' \cup {e}
  BY <1>1, <1>2 DEF Due
<1>6. CASE ~acceptHandlerSocket
  <2>1. UNCHANGED <<queues, timers, timeOutNextProcess, list, fetches>>
    BY <1>6 DEF HandlerSocket, queue
  <2>2. Due' \subseteq Due /\ Due \subseteq Due' \cup {e}
    BY <1>4, <1>5, <2>1 DEF Due, Waits
  <2>3. QED
    BY <1>3, <1>6, <2>1, <2>2
<1>7. CASE acceptHandlerSocket
  <2>1. PICK t \in {0, 1} : t = timers[q]
    BY <1>1
  <2>2. ProcessingDataSocket(q, s, t)
    BY <1>7, <2>1 DEF HandlerSocket
  <2> HIDE DEF s, w
  <2>3. Expected(s, t) /\ s \in Seq(Waiting)
    BY <1>1, <2>1
  <2>4. \A p \in Container : p # q => queues'[p] = queues[p] /\ timers'[p] = timers[p]
    BY <2>2, <2>3, ProcessingEffect
  <2>5. \A g \in Event, p \in Container : p # q =>
          ((timers'[p] = 1 /\ Waits(g, p)') <=> (timers[p] = 1 /\ Waits(g, p)))
    BY <2>4 DEF Waits
  <2>6. \/ /\ s = << >> \/ s[1].isProcessing
           /\ queues'[q] = s /\ timers'[q] = t
           /\ UNCHANGED <<timeOutNextProcess, list, fetches>>
        \/ /\ s # << >> /\ ~s[1].isProcessing
           /\ DOMAIN queues'[q] = DOMAIN s /\ queues'[q][1].isProcessing
           /\ \A i \in DOMAIN s : i > 1 => queues'[q][i] = s[i]
           /\ timers'[q] = 1 /\ timeOutNextProcess' = q
           /\ list' = Switch(s[1].body) /\ fetches' = fetches \cup Asked(s[1].body)
    BY <2>2, <2>3, ProcessingEffect
  <2>7. CASE timers[q] = 1
    <3>1. queues[q] # << >> /\ queues[q][1].isProcessing /\ 1 \in DOMAIN queues[q]
      BY <1>1, <2>7
    <3>2. s[1].isProcessing
      BY <1>1, <3>1
    <3>3. queues'[q] = s /\ timers'[q] = 1 /\ UNCHANGED <<timeOutNextProcess, list, fetches>>
      BY <2>1, <2>6, <2>7, <3>2
    <3>4. Waits(e, q)'
      BY <1>1, <3>3 DEF Waits
    <3>5. \A g \in Event : Waits(g, q) => Waits(g, q)'
      BY <1>1, <3>3 DEF Waits
    <3>6. \A g \in Event : Waits(g, q)' => Waits(g, q) \/ g = e
      <4> SUFFICES ASSUME NEW g \in Event, NEW i \in DOMAIN s,
                          s[i].body = g, ~s[i].isProcessing, g # e
                   PROVE  Waits(g, q)
        BY <3>3 DEF Waits
      <4>1. i # Len(queues[q]) + 1
        BY <1>1
      <4>2. i \in DOMAIN queues[q] /\ queues[q][i] = s[i]
        BY <1>1, <4>1
      <4>3. QED
        BY <4>2 DEF Waits
    <3>7. e \in Due'
      BY <1>1, <3>3, <3>4 DEF Due
    <3>8. Due \subseteq Due'
      BY <1>5, <2>5, <2>7, <3>3, <3>5, <3>7 DEF Due
    <3>9. Due' \subseteq Due
      <4> SUFFICES ASSUME NEW g \in Due' PROVE g \in Due
        OBVIOUS
      <4>1. CASE \E i \in DOMAIN socket' : socket'[i] = g
        BY <1>4, <4>1 DEF Due
      <4>2. ASSUME NEW p \in Container, timers'[p] = 1, Waits(g, p)' PROVE g \in Due
        <5>1. g \in Event
          BY DEF Due
        <5>2. CASE p = q
          BY <1>3, <2>7, <3>6, <4>2, <5>1, <5>2 DEF Due
        <5>3. CASE p # q
          BY <2>5, <4>2, <5>1, <5>3 DEF Due
        <5>4. QED
          BY <5>2, <5>3
      <4>3. QED
        BY <4>1, <4>2 DEF Due
    <3>10. QED
      BY <1>3, <1>7, <2>4, <2>7, <3>3, <3>8, <3>9
  <2>8. CASE timers[q] = 0
    <3>1. queues[q] = << >> /\ Len(queues[q]) = 0
      BY <1>1, <2>8
    <3>2. DOMAIN s = {1} /\ s[1] = w
      BY <1>1, <3>1
    <3>3. s[1].body = e /\ ~s[1].isProcessing /\ s # << >>
      <4>1. w.body = e /\ ~w.isProcessing
        BY <1>1
      <4>2. s # << >>
        BY <3>2
      <4>3. QED
        BY <3>2, <4>1, <4>2
    <3>4. /\ DOMAIN queues'[q] = {1} /\ queues'[q][1].isProcessing
          /\ timers'[q] = 1 /\ timeOutNextProcess' = q
          /\ list' = Switch(e) /\ fetches' = fetches \cup Asked(e)
      BY <2>6, <3>2, <3>3
    <3>5. \A g \in Event : ~Waits(g, q)'
      BY <3>4 DEF Waits
    <3>6. Due \subseteq Due' \cup {e}
      BY <1>5, <2>5, <2>8 DEF Due
    <3>7. Due' \subseteq Due
      BY <1>4, <2>5, <3>5 DEF Due
    <3>8. QED
      BY <1>3, <1>7, <2>4, <2>8, <3>4, <3>6, <3>7
  <2>9. QED
    BY <1>1, <2>7, <2>8
<1>8. QED
  BY <1>6, <1>7

\* nextProcess lets the event that was processed go, and has the next one
\* processed if there is one.
LEMMA NextProcessDue ==
  ASSUME TypeOK, TimerInv, NEW q \in Container, NextProcess(q)
  PROVE  /\ Due' \subseteq Due
         /\ \A p \in Container : p # q => timers'[p] = timers[p] /\ queues'[p] = queues[p]
         /\ \/ /\ timers'[q] = 0 /\ Due \subseteq Due'
               /\ UNCHANGED <<timeOutNextProcess, list, fetches>>
            \/ \E e \in Due :
                 /\ Due \subseteq Due' \cup {e}
                 /\ 2 \in DOMAIN queues[q] /\ queues[q][2].body = e
                 /\ timeOutNextProcess' = q
                 /\ list' = Switch(e) /\ fetches' = fetches \cup Asked(e)
<1> DEFINE s == Tail(queues[q])
<1>1. /\ timers[q] = 1 /\ queues[q] \in Seq(Waiting) /\ queues[q] # << >>
      /\ queues[q][1].isProcessing
      /\ s \in Seq(Waiting) /\ Expected(s, 0) /\ ProcessingDataSocket(q, s, 0)
      /\ \A i \in DOMAIN s : ~s[i].isProcessing
      /\ \A i \in DOMAIN s : i + 1 \in DOMAIN queues[q] /\ s[i] = queues[q][i + 1]
      /\ \A i \in DOMAIN queues[q] : i = 1 \/ i - 1 \in DOMAIN s
  BY TakenExpected
<1> HIDE DEF s
<1>2. socket' = socket
  BY DEF NextProcess
<1>3. \A p \in Container : p # q => queues'[p] = queues[p] /\ timers'[p] = timers[p]
  BY <1>1, ProcessingEffect
<1>4. \A g \in Event, p \in Container : p # q =>
        ((timers'[p] = 1 /\ Waits(g, p)') <=> (timers[p] = 1 /\ Waits(g, p)))
  BY <1>3 DEF Waits
<1>5. \/ /\ s = << >> \/ s[1].isProcessing
         /\ queues'[q] = s /\ timers'[q] = 0
         /\ UNCHANGED <<timeOutNextProcess, list, fetches>>
      \/ /\ s # << >> /\ ~s[1].isProcessing
         /\ DOMAIN queues'[q] = DOMAIN s /\ queues'[q][1].isProcessing
         /\ \A i \in DOMAIN s : i > 1 => queues'[q][i] = s[i]
         /\ timers'[q] = 1 /\ timeOutNextProcess' = q
         /\ list' = Switch(s[1].body) /\ fetches' = fetches \cup Asked(s[1].body)
  BY <1>1, ProcessingEffect
<1>6. /\ DOMAIN s = 1..Len(s) /\ Len(s) \in Nat
      /\ DOMAIN queues[q] = 1..Len(queues[q])
  BY <1>1
<1>7. \A g \in Event : Waits(g, q) => \E i \in DOMAIN s : s[i].body = g
  <2> SUFFICES ASSUME NEW g \in Event, NEW i \in DOMAIN queues[q],
                      queues[q][i].body = g, ~queues[q][i].isProcessing
               PROVE  \E j \in DOMAIN s : s[j].body = g
    BY DEF Waits
  <2>1. i - 1 \in DOMAIN s /\ (i - 1) + 1 = i
    BY <1>1, <1>6
  <2>2. s[i - 1] = queues[q][i]
    BY <1>1, <2>1
  <2>3. QED
    BY <2>1, <2>2
<1>8. CASE s = << >>
  <2>1. timers'[q] = 0 /\ UNCHANGED <<timeOutNextProcess, list, fetches>>
    BY <1>5, <1>8
  <2>2. \A g \in Event : ~Waits(g, q)
    BY <1>7, <1>8
  <2>3. Due' \subseteq Due /\ Due \subseteq Due'
    BY <1>2, <1>4, <2>1, <2>2 DEF Due
  <2>4. QED
    BY <1>3, <2>1, <2>3
<1>9. CASE s # << >>
  <2>1. 1 \in DOMAIN s /\ ~s[1].isProcessing
    BY <1>1, <1>6, <1>9
  <2>2. PICK e : e = s[1].body
    OBVIOUS
  <2>3. /\ DOMAIN queues'[q] = DOMAIN s /\ queues'[q][1].isProcessing
        /\ \A i \in DOMAIN s : i > 1 => queues'[q][i] = s[i]
        /\ timers'[q] = 1 /\ timeOutNextProcess' = q
        /\ list' = Switch(e) /\ fetches' = fetches \cup Asked(e)
    BY <1>5, <1>9, <2>1, <2>2
  <2>4. 2 \in DOMAIN queues[q] /\ s[1] = queues[q][2]
    <3>1. 1 + 1 \in DOMAIN queues[q] /\ s[1] = queues[q][1 + 1]
      BY <1>1, <2>1
    <3>2. 1 + 1 = 2
      OBVIOUS
    <3>3. QED
      BY <3>1, <3>2
  <2>5. e \in Event
    <3>1. s[1] \in Waiting
      BY <1>1, <2>1
    <3>2. QED
      BY <2>2, <3>1 DEF Waiting
  <2>6. queues[q][2].body = e /\ ~queues[q][2].isProcessing
    BY <2>1, <2>2, <2>4
  <2>7. e \in Due
    BY <1>1, <2>4, <2>5, <2>6 DEF Due, Waits
  <2>8. \A i \in DOMAIN s : i = 1 \/ i > 1
    BY <1>6
  <2>9. \A g \in Event : Waits(g, q)' => Waits(g, q)
    <3> SUFFICES ASSUME NEW g \in Event, NEW i \in DOMAIN queues'[q],
                        queues'[q][i].body = g, ~queues'[q][i].isProcessing
                 PROVE  Waits(g, q)
      BY DEF Waits
    <3>1. i \in DOMAIN s /\ queues'[q][i] = s[i]
      BY <2>3, <2>8
    <3>2. i + 1 \in DOMAIN queues[q] /\ s[i] = queues[q][i + 1]
      BY <1>1, <3>1
    <3>3. QED
      BY <3>1, <3>2 DEF Waits
  <2>10. \A g \in Event : Waits(g, q) => g = e \/ Waits(g, q)'
    <3> SUFFICES ASSUME NEW g \in Event, NEW i \in DOMAIN s, s[i].body = g, g # e
                 PROVE  Waits(g, q)'
      BY <1>7
    <3>1. i > 1
      BY <2>2, <2>8
    <3>2. queues'[q][i] = s[i] /\ ~s[i].isProcessing
      BY <1>1, <2>3, <3>1
    <3>3. QED
      BY <2>3, <3>2 DEF Waits
  <2>11. Due' \subseteq Due
    BY <1>1, <1>2, <1>4, <2>9 DEF Due
  <2>12. Due \subseteq Due' \cup {e}
    BY <1>2, <1>4, <2>3, <2>10 DEF Due
  <2>13. QED
    BY <1>3, <2>3, <2>4, <2>6, <2>7, <2>11, <2>12
<1>10. QED
  BY <1>8, <1>9

-----------------------------------------------------------------------------
(* What the events do to the list.                                         *)

\* The filter of a page accepts the agent's assignments or nothing.
LEMMA MatchingValue ==
  ASSUME Paced, TypeOK
  PROVE  \A a \in Ids : Matching(filter)[a] =
                          IF status[a] = "mine" /\ "mine" \in filter THEN "mine" ELSE None
<1>1. filter \in {{"mine"}, {}}
  BY DEF Paced, TypeOK
<1>2. QED
  BY <1>1 DEF Matching

\* The switch touches one assignment.  An event that tells the server's status
\* makes the list right about it, one that assigns to the team changes nothing,
\* and a list that holds nothing stays empty.
LEMMA SwitchRight ==
  ASSUME Paced, TypeOK, TypeOK', NEW e \in Event, Announced(e), list' = Switch(e),
         UNCHANGED <<status, filter>>, "mine" \notin filter => list = Empty
  PROVE  /\ \A b \in Ids : b # e.id => list'[b] = list[b]
         /\ e.status = status[e.id] => Right(e.id)'
         /\ e.status = "ours" => list' = list
         /\ "mine" \notin filter => list' = Empty
<1>1. /\ e.type \in Types /\ e.id \in Ids /\ e.status \in Statuses
      /\ e.type \in {"new", "assign", "revoke", "resolved"} /\ ~e.malformed
  BY TypeAssumption DEF Event, Announced, SocketTypes
<1>2. filter \in {{"mine"}, {}} /\ list \in Answer /\ None \notin Statuses
  BY NoneAssumption DEF Paced, TypeOK
<1> DEFINE a == e.id
           m == IF status[a] = "mine" /\ "mine" \in filter THEN "mine" ELSE None
<1>3. Right(a)' <=> \/ status[a] = "ours"
                    \/ list'[a] = m
                    \/ list'[a] = "expired" /\ status[a] # "mine"
  <2>1. (Matching(filter)[a])' = m
    BY <1>1, <1>2 DEF Matching
  <2>2. QED
    BY <2>1 DEF Right
<1>4. /\ DOMAIN list = Ids
      /\ "mine" \notin filter => \A b \in Ids : list[b] = None
  BY <1>2 DEF Answer, Empty
<1> HIDE DEF m
<1>5. list[a] = None => [list EXCEPT ![a] = None] = list
  BY <1>1, <1>2 DEF Answer
<1>6. CASE e.type = "new"
  <2>1. list' = PushAssignment(list, a, "mine") /\ e.status = "mine"
    BY <1>1, <1>6 DEF Switch, Announced
  <2>2. list' = IF list[a] # None \/ "mine" \in filter THEN [list EXCEPT ![a] = "mine"] ELSE list
    BY <2>1 DEF PushAssignment, Valid
  <2>3. \A b \in Ids : b # a => list'[b] = list[b]
    BY <1>4, <2>2
  <2>4. status[a] = "mine" => list'[a] = m
    BY <1>1, <1>4, <2>2 DEF m
  <2>5. "mine" \notin filter => list' = list
    BY <1>1, <1>4, <2>2
  <2>6. QED
    BY <1>3, <2>1, <2>3, <2>4, <2>5
<1>7. CASE e.type = "assign"
  <2>1. list' = AssignSocket(list, a, e.status)
    BY <1>1, <1>7 DEF Switch
  <2>2. CASE e.status \in filter
    <3>1. e.status = "mine" /\ "mine" \in filter
      BY <1>2, <2>2
    <3>2. list' = [list EXCEPT ![a] = "mine"]
      BY <2>1, <2>2, <3>1 DEF AssignSocket, Valid, PushAssignment
    <3>3. QED
      BY <1>1, <1>3, <1>4, <3>1, <3>2 DEF m
  <2>3. CASE e.status \notin filter /\ e.status = "ours"
    <3>1. list' = list
      BY <2>1, <2>3 DEF AssignSocket, Valid
    <3>2. QED
      BY <1>3, <2>3, <3>1
  <2>4. CASE e.status \notin filter /\ e.status # "ours"
    <3>1. list' = [list EXCEPT ![a] = None]
      BY <2>1, <2>4 DEF AssignSocket, Valid, RemoveAssignment
    <3>2. "mine" \notin filter => list' = list
      BY <1>1, <1>4, <1>5, <3>1
    <3>3. e.status = status[a] => list'[a] = m
      BY <1>1, <1>4, <2>4, <3>1 DEF m
    <3>4. QED
      BY <1>1, <1>3, <1>4, <2>4, <3>1, <3>2, <3>3
  <2>5. QED
    BY <2>2, <2>3, <2>4
<1>8. CASE e.type \in {"revoke", "resolved"}
  <2>1. e.status \in {"other", "done"} /\ e.status \notin filter
    BY <1>2, <1>8 DEF Announced
  <2>2. list' = [list EXCEPT ![a] = None] \/ (list' = list /\ list[a] = None)
    BY <1>1, <1>8, <2>1 DEF Switch, RemoveAssignment, ResolveSocket, Valid
  <2>3. list'[a] = None /\ \A b \in Ids : b # a => list'[b] = list[b]
    BY <1>1, <1>4, <2>2
  <2>4. "mine" \notin filter => list' = list
    BY <1>1, <1>4, <1>5, <2>2
  <2>5. e.status = status[a] => list'[a] = m
    BY <2>1, <2>3 DEF m
  <2>6. QED
    BY <1>3, <2>1, <2>3, <2>4, <2>5
<1>9. QED
  BY <1>1, <1>6, <1>7, <1>8

\* The list is as right as it was about an assignment it has kept.
LEMMA SettledKept ==
  ASSUME NEW a \in Ids, UNCHANGED <<status, filter, loads>>,
         loads = << >> => list'[a] = list[a], Settled(a)
  PROVE  Settled(a)'
BY DEF Settled, Right, Matching

\* The oldest event about its assignment is processed, or dropped while the list
\* is loaded: the newest still has the last word, and was it the only one then
\* the list is right.
LEMMA LateProcessed ==
  ASSUME Paced, TypeOK, TypeOK', NEW e \in Due, Announced(e),
         Due' \subseteq Due, Due \subseteq Due' \cup {e},
         \A g \in Due : g.id = e.id => g = e \/ e.n < g.n,
         UNCHANGED <<status, filter, loads>>,
         loads = << >> => list' = Switch(e),
         loads = << >> /\ "mine" \notin filter => list = Empty,
         NEW a \in Ids, Late(a)
  PROVE  Late(a)'
<1>1. e \in Event /\ e.id \in Ids /\ e.n \in Nat /\ e.type \in SocketTypes
  BY TypeAssumption DEF Due, Event
<1>2. About(a)' \subseteq About(a) /\ About(a) \subseteq About(a)' \cup {e}
  BY DEF About
<1>3. loads = << >> =>
        /\ \A b \in Ids : b # e.id => list'[b] = list[b]
        /\ e.status = status[e.id] => Right(e.id)'
        /\ e.status = "ours" => list' = list
  BY <1>1, SwitchRight
<1>4. CASE a # e.id
  <2>1. e \notin About(a)
    BY <1>4 DEF About
  <2>2. About(a)' = About(a)
    BY <1>2, <2>1
  <2>3. Settled(a) => Settled(a)'
    BY <1>3, <1>4, SettledKept
  <2>4. QED
    BY <2>2, <2>3 DEF Late
<1>5. CASE a = e.id
  <2>1. e \in About(a)
    BY <1>5 DEF About
  <2>2. e.status = status[a] => Settled(a)'
    BY <1>3, <1>5 DEF Settled
  <2>3. CASE status[a] = "ours"
    BY <2>3 DEF Late
  <2>4. ASSUME NEW f \in About(a), f.status = status[a], \A g \in About(a) : g.n <= f.n
        PROVE  Late(a)'
    <3>1. CASE f \in About(a)'
      BY <1>2, <2>4, <3>1 DEF Late
    <3>2. CASE f \notin About(a)'
      <4>1. f = e
        BY <1>2, <3>2
      <4>2. ASSUME NEW g \in About(a)' PROVE FALSE
        <5>1. g \in About(a) /\ g # e /\ g.id = e.id /\ g \in Due
          BY <1>2, <1>5, <3>2, <4>1 DEF About
        <5>2. e.n < g.n /\ g.n <= e.n /\ g.n \in Nat
          BY <2>4, <4>1, <5>1 DEF Due, Event
        <5>3. QED
          BY <1>1, <5>2
      <4>3. Settled(a)'
        BY <2>2, <2>4, <4>1
      <4>4. QED
        BY <4>2, <4>3 DEF Late
    <3>3. QED
      BY <3>1, <3>2
  <2>5. CASE status[a] = "mine" /\ \A g \in About(a) : g.status = "mine"
    <3>1. Settled(a)'
      BY <2>1, <2>2, <2>5
    <3>2. QED
      BY <1>2, <2>5, <3>1 DEF Late
  <2>6. CASE Settled(a) /\ (\A g \in About(a) : g.status = "ours") /\ status[a] = "mine"
    <3>1. e.status = "ours"
      BY <2>1, <2>6
    <3>2. Settled(a)'
      BY <1>3, <2>6, <3>1, SettledKept
    <3>3. QED
      BY <1>2, <2>6, <3>2 DEF Late
  <2>7. QED
    BY <2>1, <2>3, <2>4, <2>5, <2>6 DEF Late
<1>6. QED
  BY <1>4, <1>5

\* A push makes the list right, whichever overtook which.
LEMMA SharedProcessed ==
  ASSUME Paced, TypeOK, TypeOK', NEW e \in Due, Announced(e), ToTheTeam(e),
         Due' \subseteq Due, Due \subseteq Due' \cup {e},
         UNCHANGED <<status, filter, loads>>,
         loads = << >> => list' = Switch(e),
         loads = << >> /\ "mine" \notin filter => list = Empty,
         NEW a \in Ids, Shared(a)
  PROVE  Shared(a)'
<1>1. e \in Event /\ e.id \in Ids
  BY DEF Due, Event
<1>2. About(a)' \subseteq About(a) /\ About(a) \subseteq About(a)' \cup {e}
  BY DEF About
<1>3. loads = << >> =>
        /\ \A b \in Ids : b # e.id => list'[b] = list[b]
        /\ e.status = status[e.id] => Right(e.id)'
        /\ e.status = "ours" => list' = list
  BY <1>1, SwitchRight
<1>4. About(a)' # {} => status'[a] \in {"mine", "ours"}
  BY <1>2 DEF Shared
<1>5. ASSUME \A g \in About(a)' : g.type # "new" PROVE Settled(a)'
  <2>1. CASE e \in About(a) /\ e.type = "new"
    <3>1. e.status = "mine" /\ status[a] \in {"mine", "ours"} /\ e.id = a
      BY <2>1 DEF Announced, Shared, About
    <3>2. CASE status[a] = "ours"
      BY <3>2 DEF Settled, Right
    <3>3. CASE status[a] = "mine"
      BY <1>3, <3>1, <3>3 DEF Settled
    <3>4. QED
      BY <3>1, <3>2, <3>3
  <2>2. CASE ~(e \in About(a) /\ e.type = "new")
    <3>1. \A g \in About(a) : g.type # "new"
      BY <1>2, <1>5, <2>2
    <3>2. Settled(a)
      BY <3>1 DEF Shared
    <3>3. e.id = a => e.status = "ours"
      BY <2>2 DEF About, ToTheTeam
    <3>4. loads = << >> => list'[a] = list[a]
      BY <1>3, <3>3
    <3>5. QED
      BY <3>2, <3>4, SettledKept
  <2>3. QED
    BY <2>1, <2>2
<1>6. QED
  BY <1>4, <1>5 DEF Shared

-----------------------------------------------------------------------------
(* The steps.                                                              *)

\* With one type on its way everything due is of that type, has a number, and is
\* in the socket or in the queue of the moment.
LEMMA AloneDue ==
  ASSUME TypeOK, OrderInv, KindInv, NEW t \in Types, Alone(t), NEW g \in Due
  PROVE  /\ g.type = t /\ g.n <= changes
         /\ \/ \E i \in DOMAIN socket : socket[i] = g
            \/ /\ <<t, applied>> \in Container /\ timers[<<t, applied>>] = 1
               /\ Waits(g, <<t, applied>>)
<1>1. CASE \E i \in DOMAIN socket : socket[i] = g
  <2>1. PICK i \in DOMAIN socket : socket[i] = g
    BY <1>1
  <2>2. Numbered(<< >>, queues[<<t, applied>>], socket, changes)
    BY DEF OrderInv
  <2>3. QED
    BY <2>1, <2>2 DEF Alone, Numbered
<1>2. CASE \E q \in Container : timers[q] = 1 /\ Waits(g, q)
  <2>1. PICK q \in Container : timers[q] = 1 /\ Waits(g, q)
    BY <1>2
  <2>2. q = <<t, applied>>
    BY <2>1 DEF Alone
  <2>3. PICK i \in DOMAIN queues[q] : queues[q][i].body = g
    BY <2>1 DEF Waits
  <2>4. g.type = t
    BY <2>2, <2>3 DEF KindInv
  <2>5. Numbered(<< >>, queues[q], socket, changes)
    BY <2>2 DEF OrderInv
  <2>6. g.n <= changes
    BY <2>3, <2>5 DEF Numbered
  <2>7. QED
    BY <2>1, <2>2, <2>4, <2>6
<1>3. QED
  BY <1>1, <1>2 DEF Due

\* When nothing of the queue of the moment waits, the first event of the socket
\* is the oldest.
LEMMA FirstIsOldest ==
  ASSUME TypeOK, TimerInv, OrderInv, KindInv, HandlerSocket, NEW t \in Types, Alone(t),
         \/ timers[<<t, applied>>] = 0
         \/ queues[<<t, applied>>] = << >>,
         NEW g \in Due, g # Head(socket)
  PROVE  Head(socket).n < g.n
<1>1. socket \in Seq(Event) /\ socket # << >>
  BY DEF TypeOK, HandlerSocket
<1>2. Head(socket) = socket[1] /\ 1 \in DOMAIN socket /\ DOMAIN socket \subseteq Nat \ {0}
  BY <1>1
<1>3. PICK i \in DOMAIN socket : socket[i] = g
  BY AloneDue DEF Waits
<1>4. 1 < i
  BY <1>2, <1>3
<1>5. Line(<< >>, queues[<<t, applied>>], socket)
  BY DEF OrderInv
<1>6. QED
  BY <1>2, <1>3, <1>4, <1>5 DEF Line

LEMMA HandlerSocketSync ==
  ASSUME Paced, SyncInv, TypeOK', HandlerSocket
  PROVE  AnnouncedInv' /\ LoadsInv' /\ PaceInv'
<1>1. /\ TypeOK /\ TimerInv /\ OrderInv /\ KindInv /\ AnnouncedInv /\ LoadsInv
      /\ AloneInv \/ SharedInv
  BY DEF SyncInv, PaceInv
<1>2. UNCHANGED <<status, changes, filter, applied, acceptHandlerSocket, loads>>
  BY DEF HandlerSocket, server
<1>3. PICK e : e = Head(socket)
  OBVIOUS
<1>4. e \in Event /\ e = socket[1] /\ 1 \in DOMAIN socket
  BY <1>1, <1>3 DEF TypeOK, HandlerSocket
<1>5. PICK q \in Container : q = <<e.type, applied>>
  BY <1>1, <1>4, QueuesOf DEF Event
<1>6. /\ e \in Due /\ Due' \subseteq Due /\ Due \subseteq Due' \cup {e}
      /\ \A p \in Container : p # q => timers'[p] = timers[p] /\ queues'[p] = queues[p]
      /\ \/ /\ ~acceptHandlerSocket
            /\ UNCHANGED <<queues, timers, timeOutNextProcess, list, fetches>>
         \/ /\ acceptHandlerSocket /\ timers[q] = 1 /\ Due \subseteq Due'
            /\ UNCHANGED <<timeOutNextProcess, list, fetches>>
         \/ /\ acceptHandlerSocket /\ timers[q] = 0
            /\ timers'[q] = 1 /\ timeOutNextProcess' = q
            /\ list' = Switch(e) /\ fetches' = fetches \cup Asked(e)
  BY <1>1, <1>3, <1>5, HandlerSocketDue
<1>7. Announced(e) /\ e.type # "tag"
  BY <1>1, <1>6 DEF AnnouncedInv, Announced
<1>8. AnnouncedInv'
  BY <1>1, <1>6 DEF AnnouncedInv, Announced
<1>9. fetches' = {}
  BY <1>1, <1>6, <1>7 DEF LoadsInv, Asked
<1>10. loads = << >> /\ "mine" \notin filter => list = Empty /\ list' = Empty
  BY <1>1, <1>2, <1>4, <1>6, <1>7, SwitchRight DEF LoadsInv
<1>11. LoadsInv'
  <2>1. \A x : Matching(x)' = Matching(x)
    BY <1>2 DEF Matching
  <2>2. ~acceptHandlerSocket' => \A u \in Types : queues'[<<u, applied'>>] = << >>
    BY <1>1, <1>2, <1>6 DEF LoadsInv
  <2>3. QED
    BY <1>1, <1>2, <1>9, <1>10, <2>1, <2>2 DEF LoadsInv
<1>12. loads = << >> => acceptHandlerSocket
  BY <1>1 DEF LoadsInv
<1>13. CASE AloneInv
  <2>1. PICK t \in Types : Alone(t) /\ \A a \in Ids : Late(a)
    BY <1>13 DEF AloneInv
  <2>2. e.type = t /\ q = <<t, applied>>
    BY <1>4, <1>5, <2>1 DEF Alone
  <2>3. \A i \in DOMAIN socket' : socket'[i].type = t
    <3>1. \A i \in DOMAIN socket' : i + 1 \in DOMAIN socket /\ socket'[i] = socket[i + 1]
      BY <1>1, SocketTail
    <3>2. QED
      BY <2>1, <3>1 DEF Alone
  <2>4. ASSUME NEW p \in Container, timers'[p] = 1
        PROVE  p = <<t, applied'>> /\ timeOutNextProcess' = p
    BY <1>2, <1>6, <2>1, <2>2, <2>4 DEF Alone
  <2>5. Alone(t)'
    BY <2>3, <2>4 DEF Alone
  <2>6. ASSUME NEW a \in Ids PROVE Late(a)'
    <3>1. CASE Due \subseteq Due' /\ UNCHANGED list
      <4>1. About(a)' = About(a)
        BY <1>6, <3>1 DEF About
      <4>2. Settled(a) => Settled(a)'
        BY <1>2, <3>1, SettledKept
      <4>3. QED
        BY <1>2, <2>1, <4>1, <4>2 DEF Late
    <3>2. CASE \/ ~acceptHandlerSocket
               \/ timers[q] = 0 /\ list' = Switch(e)
      <4>1. timers[q] = 0 \/ queues[q] = << >>
        BY <1>1, <2>2, <3>2 DEF LoadsInv
      <4>2. \A g \in Due : g.id = e.id => g = e \/ e.n < g.n
        BY <1>1, <1>3, <2>1, <2>2, <4>1, FirstIsOldest
      <4>3. loads = << >> => list' = Switch(e)
        BY <1>12, <3>2
      <4>4. QED
        BY <1>1, <1>2, <1>6, <1>7, <1>10, <2>1, <4>2, <4>3, LateProcessed
    <3>3. QED
      BY <1>6, <3>1, <3>2
  <2>7. QED
    BY <1>8, <1>11, <2>5, <2>6 DEF PaceInv, AloneInv
<1>14. CASE SharedInv
  <2>1. \A g \in Due : ToTheTeam(g)
    BY <1>14 DEF SharedInv
  <2>2. ASSUME NEW a \in Ids PROVE Shared(a)'
    <3>1. Shared(a)
      BY <1>14 DEF SharedInv
    <3>2. CASE Due \subseteq Due' /\ UNCHANGED list
      <4>1. About(a)' = About(a)
        BY <1>6, <3>2 DEF About
      <4>2. Settled(a) => Settled(a)'
        BY <1>2, <3>2, SettledKept
      <4>3. QED
        BY <1>2, <3>1, <4>1, <4>2 DEF Shared
    <3>3. CASE loads = << >> => list' = Switch(e)
      BY <1>1, <1>2, <1>6, <1>7, <1>10, <2>1, <3>1, <3>3, SharedProcessed
    <3>4. QED
      BY <1>6, <1>12, <3>2, <3>3
  <2>3. SharedInv'
    BY <1>6, <2>1, <2>2 DEF SharedInv, ToTheTeam
  <2>4. QED
    BY <1>8, <1>11, <2>3 DEF PaceInv
<1>15. QED
  BY <1>1, <1>13, <1>14

LEMMA NextProcessSync ==
  ASSUME Paced, SyncInv, TypeOK', NEW q \in Container, NextProcess(q)
  PROVE  AnnouncedInv' /\ LoadsInv' /\ PaceInv'
<1>1. /\ TypeOK /\ TimerInv /\ OrderInv /\ KindInv /\ AnnouncedInv /\ LoadsInv
      /\ AloneInv \/ SharedInv
  BY DEF SyncInv, PaceInv
<1>2. UNCHANGED <<status, changes, socket, filter, applied, acceptHandlerSocket, loads>>
  BY DEF NextProcess, server
<1>3. /\ timers[q] = 1 /\ queues[q] \in Seq(Waiting) /\ queues[q] # << >>
      /\ queues[q][1].isProcessing
  BY <1>1, TakenExpected
<1>4. /\ Due' \subseteq Due
      /\ \A p \in Container : p # q => timers'[p] = timers[p] /\ queues'[p] = queues[p]
      /\ \/ /\ timers'[q] = 0 /\ Due \subseteq Due'
            /\ UNCHANGED <<timeOutNextProcess, list, fetches>>
         \/ \E e \in Due :
              /\ Due \subseteq Due' \cup {e}
              /\ 2 \in DOMAIN queues[q] /\ queues[q][2].body = e
              /\ timeOutNextProcess' = q
              /\ list' = Switch(e) /\ fetches' = fetches \cup Asked(e)
  BY <1>1, NextProcessDue
<1>5. AnnouncedInv'
  BY <1>1, <1>4 DEF AnnouncedInv, Announced
<1>6. \A e \in Due : e \in Event /\ Announced(e) /\ Asked(e) = {}
  BY <1>1 DEF AnnouncedInv, Announced, Asked, Due
<1>7. fetches' = {}
  BY <1>1, <1>4, <1>6 DEF LoadsInv
<1>8. loads = << >> /\ "mine" \notin filter => list = Empty /\ list' = Empty
  BY <1>1, <1>2, <1>4, <1>6, SwitchRight DEF LoadsInv
<1>9. LoadsInv'
  <2>1. \A x : Matching(x)' = Matching(x)
    BY <1>2 DEF Matching
  <2>2. ASSUME ~acceptHandlerSocket, NEW u \in Types PROVE queues'[<<u, applied>>] = << >>
    <3>1. queues[<<u, applied>>] = << >> /\ <<u, applied>> \in Container
      BY <1>1, <2>2, QueuesOf DEF LoadsInv
    <3>2. QED
      BY <1>3, <1>4, <3>1
  <2>3. QED
    BY <1>1, <1>2, <1>7, <1>8, <2>1, <2>2 DEF LoadsInv
<1>10. CASE AloneInv
  <2>1. PICK t \in Types : Alone(t) /\ \A a \in Ids : Late(a)
    BY <1>10 DEF AloneInv
  <2>2. q = <<t, applied>>
    BY <1>3, <2>1 DEF Alone
  <2>3. ASSUME NEW p \in Container, timers'[p] = 1
        PROVE  p = <<t, applied'>> /\ timeOutNextProcess' = p
    BY <1>2, <1>4, <2>1, <2>2, <2>3 DEF Alone
  <2>4. Alone(t)'
    BY <1>2, <2>1, <2>3 DEF Alone
  <2>5. ASSUME NEW a \in Ids PROVE Late(a)'
    <3>1. CASE Due \subseteq Due' /\ UNCHANGED list
      <4>1. About(a)' = About(a)
        BY <1>4, <3>1 DEF About
      <4>2. Settled(a) => Settled(a)'
        BY <1>2, <3>1, SettledKept
      <4>3. QED
        BY <1>2, <2>1, <4>1, <4>2 DEF Late
    <3>2. ASSUME NEW e \in Due, Due \subseteq Due' \cup {e},
                 2 \in DOMAIN queues[q], queues[q][2].body = e, list' = Switch(e)
          PROVE  Late(a)'
      <4>1. Line(<< >>, queues[q], socket)
        BY <1>1, <2>2 DEF OrderInv
      <4>2. ASSUME NEW g \in Due, g # e PROVE e.n < g.n
        <5>1. CASE \E i \in DOMAIN socket : socket[i] = g
          BY <3>2, <4>1, <5>1 DEF Line
        <5>2. CASE Waits(g, q)
          <6>1. PICK i \in DOMAIN queues[q] :
                  queues[q][i].body = g /\ ~queues[q][i].isProcessing
            BY <5>2 DEF Waits
          <6>2. i # 1 /\ i # 2
            BY <1>3, <3>2, <4>2, <6>1
          <6>3. i \in Nat /\ i >= 1
            <7>1. DOMAIN queues[q] = 1..Len(queues[q])
              BY <1>3
            <7>2. QED
              BY <6>1, <7>1
          <6>4. 2 < i
            BY <6>2, <6>3
          <6>5. QED
            BY <3>2, <4>1, <6>1, <6>4 DEF Line
        <5>3. QED
          BY <1>1, <2>1, <2>2, <5>1, <5>2, AloneDue
      <4>3. QED
        BY <1>1, <1>2, <1>4, <1>6, <1>8, <2>1, <3>2, <4>2, LateProcessed
    <3>3. QED
      BY <1>4, <3>1, <3>2
  <2>6. QED
    BY <1>5, <1>9, <2>4, <2>5 DEF PaceInv, AloneInv
<1>11. CASE SharedInv
  <2>1. \A g \in Due : ToTheTeam(g)
    BY <1>11 DEF SharedInv
  <2>2. ASSUME NEW a \in Ids PROVE Shared(a)'
    <3>1. Shared(a)
      BY <1>11 DEF SharedInv
    <3>2. CASE Due \subseteq Due' /\ UNCHANGED list
      <4>1. About(a)' = About(a)
        BY <1>4, <3>2 DEF About
      <4>2. Settled(a) => Settled(a)'
        BY <1>2, <3>2, SettledKept
      <4>3. QED
        BY <1>2, <3>1, <4>1, <4>2 DEF Shared
    <3>3. ASSUME NEW e \in Due, Due \subseteq Due' \cup {e}, list' = Switch(e)
          PROVE  Shared(a)'
      BY <1>1, <1>2, <1>4, <1>6, <1>8, <2>1, <3>1, <3>3, SharedProcessed
    <3>4. QED
      BY <1>4, <3>2, <3>3
  <2>3. SharedInv'
    BY <1>4, <2>1, <2>2 DEF SharedInv, ToTheTeam
  <2>4. QED
    BY <1>5, <1>9, <2>3 DEF PaceInv
<1>12. QED
  BY <1>1, <1>10, <1>11

\* A step that leaves the events and their timeouts as they are, and the list no
\* less right than it was.
LEMMA PaceFrame ==
  ASSUME PaceInv, AnnouncedInv,
         UNCHANGED <<status, socket, applied, queues, timers, timeOutNextProcess>>,
         \A a \in Ids : Settled(a) => Settled(a)'
  PROVE  PaceInv' /\ AnnouncedInv'
<1>1. Due' = Due
  BY DEF Due, Waits
<1>2. \A a : About(a)' = About(a)
  BY <1>1 DEF About
<1>3. AnnouncedInv'
  BY <1>1 DEF AnnouncedInv, Announced
<1>4. CASE AloneInv
  <2>1. PICK t \in Types : Alone(t) /\ \A a \in Ids : Late(a)
    BY <1>4 DEF AloneInv
  <2>2. Alone(t)'
    BY <2>1 DEF Alone
  <2>3. \A a \in Ids : Late(a)'
    BY <1>2, <2>1 DEF Late
  <2>4. QED
    BY <1>3, <2>2, <2>3 DEF PaceInv, AloneInv
<1>5. CASE SharedInv
  <2>1. \A a \in Ids : Shared(a)'
    BY <1>2, <1>5 DEF SharedInv, Shared
  <2>2. QED
    BY <1>1, <1>3, <1>5, <2>1 DEF PaceInv, SharedInv, ToTheTeam
<1>6. QED
  BY <1>4, <1>5 DEF PaceInv

\* With nothing due the list is right, if it is loaded.
LEMMA NothingDue ==
  ASSUME PaceInv, Due = {}
  PROVE  \A a \in Ids : Settled(a)
<1>1. \A a : About(a) = {}
  BY DEF About
<1>2. CASE AloneInv
  BY <1>1, <1>2 DEF AloneInv, Late, Settled, Right
<1>3. CASE SharedInv
  BY <1>1, <1>3 DEF SharedInv, Shared
<1>4. QED
  BY <1>2, <1>3 DEF PaceInv

LEMMA AgentSync ==
  ASSUME Paced, SyncInv, OpenFilter \/ AutoRevoke
  PROVE  AnnouncedInv' /\ LoadsInv' /\ PaceInv'
<1>1. /\ TypeOK /\ AnnouncedInv /\ LoadsInv /\ PaceInv
  BY DEF SyncInv
<1>2. UNCHANGED <<status, socket, filter, applied, queues, timers, timeOutNextProcess,
                  acceptHandlerSocket, loads, fetches>>
  BY DEF OpenFilter, AutoRevoke, server, queue
<1>3. \A a \in Ids : list'[a] = list[a] \/ (list'[a] = None /\ list[a] \notin filter)
  BY DEF OpenFilter, AutoRevoke, Valid
<1>4. ASSUME NEW a \in Ids, Settled(a) PROVE Settled(a)'
  <2>1. CASE list'[a] = list[a]
    BY <1>2, <1>4, <2>1, SettledKept
  <2>2. CASE list'[a] = None /\ list[a] \notin filter
    <3> SUFFICES ASSUME loads = << >>, status[a] # "ours" PROVE Right(a)'
      BY <1>2 DEF Settled, Right
    <3>1. \/ list[a] = Matching(filter)[a]
          \/ list[a] = "expired" /\ status[a] # "mine"
      BY <1>4 DEF Settled, Right
    <3>2. Matching(filter)[a] = IF status[a] = "mine" /\ "mine" \in filter THEN "mine" ELSE None
      BY <1>1, MatchingValue
    <3>3. Matching(filter)[a] = None
      BY <2>2, <3>1, <3>2
    <3>4. (Matching(filter)[a])' = Matching(filter)[a]
      BY <1>2 DEF Matching
    <3>5. QED
      BY <2>2, <3>3, <3>4 DEF Right
  <2>3. QED
    BY <1>3, <2>1, <2>2
<1>5. PaceInv' /\ AnnouncedInv'
  BY <1>1, <1>2, <1>4, PaceFrame
<1>6. LoadsInv'
  <2>1. \A x : Matching(x)' = Matching(x)
    BY <1>2 DEF Matching
  <2>2. list = Empty => list' = Empty
    BY DEF OpenFilter, AutoRevoke, Empty
  <2>3. QED
    BY <1>1, <1>2, <2>1, <2>2 DEF LoadsInv
<1>7. QED
  BY <1>5, <1>6

\* A sequence without its first element.
LEMMA RemoveAtFirst ==
  ASSUME NEW S, NEW s \in Seq(S), s # << >>
  PROVE  RemoveAt(s, 1) = Tail(s)
<1>1. Tail(s) \in Seq(S)
  OBVIOUS
<1>2. SubSeq(s, 1, 1 - 1) = << >> /\ SubSeq(s, 1 + 1, Len(s)) = Tail(s)
  OBVIOUS
<1>3. << >> \o Tail(s) = Tail(s)
  BY <1>1
<1>4. QED
  BY <1>1, <1>2, <1>3 DEF RemoveAt

\* An answer to the last load makes the list what the server has.
LEMMA LoadSync ==
  ASSUME Paced, SyncInv, NEW i \in DOMAIN loads, AnswerLoad(i) \/ LoadData(i)
  PROVE  AnnouncedInv' /\ LoadsInv' /\ PaceInv'
<1>1. /\ TypeOK /\ AnnouncedInv /\ LoadsInv /\ PaceInv
  BY DEF SyncInv
<1>2. UNCHANGED <<status, socket, filter, applied, queues, timers, timeOutNextProcess, fetches>>
  BY DEF AnswerLoad, LoadData, server, queue
<1>3. loads \in Seq(Load) /\ loads # << >>
  BY <1>1 DEF TypeOK
<1>4. \A x : Matching(x)' = Matching(x)
  BY <1>2 DEF Matching
<1>5. CASE AnswerLoad(i)
  <2>1. /\ DOMAIN loads' = DOMAIN loads /\ Len(loads') = Len(loads) /\ loads' # << >>
        /\ loads'[i].data = Matching(loads[i].filter) /\ loads'[i].filter = loads[i].filter
        /\ \A j \in DOMAIN loads : j # i => loads'[j] = loads[j]
        /\ UNCHANGED <<list, acceptHandlerSocket>>
    <3>1. loads' = [loads EXCEPT ![i].data = Matching(loads[i].filter)]
          /\ UNCHANGED <<list, acceptHandlerSocket>>
      BY <1>5 DEF AnswerLoad
    <3>2. loads[i] \in Load
      BY <1>3
    <3>3. /\ DOMAIN loads' = DOMAIN loads /\ Len(loads') = Len(loads) /\ loads' # << >>
          /\ \A j \in DOMAIN loads : j # i => loads'[j] = loads[j]
      BY <1>3, <3>1
    <3>4. loads'[i].data = Matching(loads[i].filter) /\ loads'[i].filter = loads[i].filter
      BY <1>3, <3>1, <3>2 DEF Load
    <3>5. QED
      BY <3>1, <3>3, <3>4
  <2>2. \A j \in DOMAIN loads : loads'[j].filter = loads[j].filter
    BY <2>1
  <2>3. Len(loads) \in DOMAIN loads
    BY <1>3
  <2>4. \A a \in Ids : Settled(a)'
    BY <2>1 DEF Settled
  <2>5. PaceInv' /\ AnnouncedInv'
    BY <1>1, <1>2, <2>4, PaceFrame
  <2>6. \A j \in DOMAIN loads' :
          loads'[j].data # None => loads'[j].data = Matching(loads'[j].filter)
    BY <1>1, <2>1, <2>2 DEF LoadsInv
  <2>7. LoadsInv'
    BY <1>1, <1>2, <1>4, <2>1, <2>2, <2>3, <2>6 DEF LoadsInv
  <2>8. QED
    BY <2>5, <2>7
<1>6. CASE LoadData(i)
  <2>1. i = 1 /\ loads[1].data # None /\ loads' = RemoveAt(loads, 1) /\ acceptHandlerSocket'
        /\ list' = [a \in Ids |-> IF loads[1].data[a] # None
                                  THEN PushAssignment(Empty, a, loads[1].data[a])[a]
                                  ELSE None]
    BY <1>6 DEF LoadData, Paced
  <2>2. /\ loads' = Tail(loads) /\ Len(loads') = Len(loads) - 1
        /\ \A j \in DOMAIN loads' : j + 1 \in DOMAIN loads /\ loads'[j] = loads[j + 1]
    BY <1>3, <2>1, RemoveAtFirst, TailElements
  <2>3. Len(loads) \in Nat /\ loads' \in Seq(Load)
    BY <1>3, <2>2
  <2>4. ASSUME loads' = << >>
        PROVE  \A a \in Ids : list'[a] = Matching(filter)[a]
    <3>1. Len(loads) = 1 /\ 1 \in DOMAIN loads
      <4>1. Len(loads') = 0
        BY <2>4
      <4>2. DOMAIN loads = 1..Len(loads)
        BY <1>3
      <4>3. QED
        BY <2>2, <2>3, <4>1, <4>2
    <3>2. loads[1].data = Matching(filter)
      BY <1>1, <1>3, <2>1, <3>1 DEF LoadsInv
    <3>3. TAKE a \in Ids
    <3>4. Matching(filter)[a] = IF status[a] = "mine" /\ "mine" \in filter THEN "mine" ELSE None
      BY <1>1, MatchingValue
    <3>5. "mine" # None
      BY NoneAssumption DEF Statuses
    <3>6. "mine" \in filter => PushAssignment(Empty, a, "mine")[a] = "mine"
      BY DEF PushAssignment, Valid, Empty
    <3>7. QED
      BY <2>1, <3>2, <3>4, <3>5, <3>6
  <2>5. \A a \in Ids : Settled(a)'
    BY <1>2, <1>4, <2>4 DEF Settled, Right
  <2>6. PaceInv' /\ AnnouncedInv'
    BY <1>1, <1>2, <2>5, PaceFrame
  <2>7. \A j \in DOMAIN loads' :
          loads'[j].data # None => loads'[j].data = Matching(loads'[j].filter)
    BY <1>1, <2>2 DEF LoadsInv
  <2>8. loads' # << >> => loads'[Len(loads')].filter = filter
    <3> SUFFICES ASSUME loads' # << >> PROVE loads'[Len(loads')].filter = filter
      OBVIOUS
    <3>1. Len(loads') \in DOMAIN loads' /\ Len(loads') + 1 = Len(loads)
      BY <2>2, <2>3
    <3>2. QED
      BY <1>1, <1>3, <2>2, <3>1 DEF LoadsInv
  <2>9. loads' = << >> /\ "mine" \notin filter => list' = Empty
    <3> SUFFICES ASSUME loads' = << >>, "mine" \notin filter PROVE list' = Empty
      OBVIOUS
    <3>1. \A a \in Ids : list'[a] = None
      BY <1>1, <2>4, MatchingValue
    <3>2. DOMAIN list' = Ids
      BY <2>1
    <3>3. list' = [a \in Ids |-> list'[a]]
      BY <2>1
    <3>4. QED
      BY <3>1, <3>3 DEF Empty
  <2>10. LoadsInv'
    BY <1>1, <1>2, <1>4, <2>1, <2>7, <2>8, <2>9 DEF LoadsInv
  <2>11. QED
    BY <2>6, <2>10
<1>7. QED
  BY <1>5, <1>6

\* A new filter drops what waits in the queue of the moment, which is older than
\* what is on the socket, and the list is loaded again.
LEMMA HanderFilterSync ==
  ASSUME Paced, SyncInv, NEW x \in Filters, NEW b \in BOOLEAN, HanderFilter(x, b)
  PROVE  AnnouncedInv' /\ LoadsInv' /\ PaceInv'
<1>1. /\ TypeOK /\ TimerInv /\ OrderInv /\ KindInv /\ AnnouncedInv /\ LoadsInv
      /\ AloneInv \/ SharedInv
  BY DEF SyncInv, PaceInv
<1>2. /\ UNCHANGED <<status, socket, queues, timeOutNextProcess, list, fetches>>
      /\ filter' = x /\ acceptHandlerSocket' = FALSE
      /\ loads' = Append(loads, [filter |-> x, data |-> None])
  BY DEF HanderFilter, server
<1>3. PICK w \in Load : w = [filter |-> x, data |-> None]
  BY DEF Load
<1>4. /\ loads' # << >> /\ loads'[Len(loads) + 1] = w /\ Len(loads') = Len(loads) + 1
      /\ DOMAIN loads' = 1..(Len(loads) + 1) /\ DOMAIN loads = 1..Len(loads)
      /\ Len(loads) \in Nat
      /\ \A i \in DOMAIN loads : loads'[i] = loads[i]
  <2>1. loads \in Seq(Load) /\ loads' = Append(loads, w)
    BY <1>1, <1>2, <1>3 DEF TypeOK
  <2>2. Len(loads') = Len(loads) + 1
    BY <2>1
  <2>3. QED
    BY <2>1, <2>2, AppendElements
<1>5. LoadsInv'
  <2>1. \A y : Matching(y)' = Matching(y)
    BY <1>2 DEF Matching
  <2>2. \A i \in DOMAIN loads' :
          loads'[i].data # None => loads'[i].data = Matching(loads'[i].filter)
    <3> SUFFICES ASSUME NEW i \in DOMAIN loads', loads'[i].data # None
                 PROVE  loads'[i].data = Matching(loads'[i].filter)
      OBVIOUS
    <3>1. i # Len(loads) + 1
      BY <1>3, <1>4
    <3>2. i \in DOMAIN loads
      BY <1>4, <3>1
    <3>3. QED
      BY <1>1, <1>4, <3>2 DEF LoadsInv
  <2>3. loads'[Len(loads')].filter = x
    BY <1>3, <1>4
  <2>4. \A t \in Types : queues[<<t, applied'>>] = << >>
    BY <1>1, HanderFilterOrder
  <2>5. QED
    BY <1>1, <1>2, <1>4, <2>1, <2>2, <2>3, <2>4 DEF LoadsInv
<1>6. \A p \in Container :
        /\ timers[p] = 1 /\ timeOutNextProcess = p => timers'[p] = 0
        /\ timers'[p] = 1 => timers[p] = 1
  <2> SUFFICES ASSUME NEW p \in Container
               PROVE  /\ timers[p] = 1 /\ timeOutNextProcess = p => timers'[p] = 0
                      /\ timers'[p] = 1 => timers[p] = 1
    OBVIOUS
  <2>1. timers'[p] = IF p = timeOutNextProcess /\ timers[p] > 0
                     THEN timers[p] - 1 ELSE timers[p]
    BY DEF HanderFilter
  <2>2. timers[p] \in 0..1
    BY <1>1 DEF TypeOK
  <2>3. QED
    BY <2>1, <2>2
<1>7. Due' \subseteq Due
  BY <1>2, <1>6 DEF Due, Waits
<1>8. AnnouncedInv'
  BY <1>1, <1>7 DEF AnnouncedInv, Announced
<1>9. \A a \in Ids : Settled(a)'
  BY <1>4 DEF Settled
<1>10. \A a : About(a)' \subseteq About(a)
  BY <1>7 DEF About
<1>11. CASE AloneInv
  <2>1. PICK t \in Types : Alone(t) /\ \A a \in Ids : Late(a)
    BY <1>11 DEF AloneInv
  <2>2. \A p \in Container : timers'[p] # 1
    BY <1>6, <2>1 DEF Alone
  <2>3. Alone(t)'
    BY <1>2, <2>1, <2>2 DEF Alone
  <2>4. ASSUME NEW a \in Ids PROVE Late(a)'
    <3>1. CASE status[a] = "ours"
      BY <1>2, <3>1 DEF Late
    <3>2. ASSUME NEW f \in About(a), f.status = status[a], \A g \in About(a) : g.n <= f.n
          PROVE  Late(a)'
      <4>1. CASE f \in About(a)'
        BY <1>2, <1>10, <3>2, <4>1 DEF Late
      <4>2. CASE f \notin About(a)'
        <5>1. f \in Due /\ f \notin Due'
          BY <4>2 DEF About
        <5>2. ~\E i \in DOMAIN socket : socket[i] = f
          BY <1>2, <5>1 DEF Due
        <5>3. PICK j \in DOMAIN queues[<<t, applied>>] : queues[<<t, applied>>][j].body = f
          BY <1>1, <2>1, <5>1, <5>2, AloneDue DEF Waits
        <5>4. ASSUME NEW g \in About(a)' PROVE FALSE
          <6>1. PICK i \in DOMAIN socket : socket[i] = g
            BY <1>2, <2>2, <5>4 DEF About, Due
          <6>2. f.n < g.n
            BY <1>1, <5>3, <6>1 DEF OrderInv, Line
          <6>3. g.n <= f.n /\ g.n \in Nat /\ f.n \in Nat
            BY <1>10, <3>2, <5>1, <5>4 DEF About, Due, Event
          <6>4. QED
            BY <6>2, <6>3
        <5>5. QED
          BY <1>9, <5>4 DEF Late
      <4>3. QED
        BY <4>1, <4>2
    <3>3. CASE status[a] = "mine" /\ \A g \in About(a) : g.status = "mine"
      BY <1>2, <1>9, <1>10, <3>3 DEF Late
    <3>4. CASE /\ \A g \in About(a) : g.status = "ours"
               /\ About(a) # {} => status[a] = "mine"
      BY <1>2, <1>9, <1>10, <3>4 DEF Late
    <3>5. QED
      BY <2>1, <3>1, <3>2, <3>3, <3>4 DEF Late
  <2>5. QED
    BY <1>5, <1>8, <2>3, <2>4 DEF PaceInv, AloneInv
<1>12. CASE SharedInv
  <2>1. \A a \in Ids : Shared(a)'
    BY <1>2, <1>9, <1>10, <1>12 DEF SharedInv, Shared
  <2>2. SharedInv'
    BY <1>7, <1>12, <2>1 DEF SharedInv, ToTheTeam
  <2>3. QED
    BY <1>5, <1>8, <2>2 DEF PaceInv
<1>13. QED
  BY <1>1, <1>11, <1>12

\* What expires is right to stay until the interval removes it.
LEMMA ExpireSync ==
  ASSUME Paced, SyncInv, NEW a \in Ids, Expire(a)
  PROVE  AnnouncedInv' /\ LoadsInv' /\ PaceInv'
<1>1. /\ TypeOK /\ AnnouncedInv /\ LoadsInv /\ PaceInv
  BY DEF SyncInv
<1>2. /\ UNCHANGED <<socket, filter, applied, queues, timers, timeOutNextProcess,
                     acceptHandlerSocket, loads, fetches>>
      /\ Quiet /\ list[a] = "mine"
      /\ status' = [status EXCEPT ![a] = "other"]
      /\ list' = [list EXCEPT ![a] = "expired"]
  BY DEF Expire, Paced, queue
<1>3. Due = {} /\ Due' = {} /\ loads = << >>
  BY <1>2 DEF Quiet, Due, Waits
<1>4. ASSUME NEW b \in Ids PROVE Settled(b)'
  <2>1. Settled(b)
    BY <1>1, <1>3, NothingDue
  <2>2. status \in [Ids -> Statuses] /\ list \in Answer /\ DOMAIN list = Ids
    BY <1>1 DEF TypeOK, Answer
  <2>3. CASE b = a
    BY <1>2, <2>2, <2>3 DEF Settled, Right
  <2>4. CASE b # a
    <3>1. status'[b] = status[b] /\ list'[b] = list[b]
      BY <1>2, <2>2, <2>4
    <3>2. (Matching(filter)[b])' = Matching(filter)[b]
      BY <1>2, <3>1 DEF Matching
    <3>3. QED
      BY <1>2, <2>1, <3>1, <3>2 DEF Settled, Right
  <2>5. QED
    BY <2>3, <2>4
<1>5. SharedInv'
  BY <1>3, <1>4 DEF SharedInv, Shared, About
<1>6. AnnouncedInv'
  BY <1>3 DEF AnnouncedInv
<1>7. LoadsInv'
  <2>1. list # Empty
    BY <1>2, NoneAssumption DEF Empty, Statuses
  <2>2. DOMAIN loads = {}
    BY <1>3
  <2>3. QED
    BY <1>1, <1>2, <1>3, <2>1, <2>2 DEF LoadsInv
<1>8. QED
  BY <1>5, <1>6, <1>7 DEF PaceInv

\* When all that is on its way is a push or an assignment to the team, the two
\* accounts of what an assignment may be agree.
LEMMA LateToShared ==
  ASSUME AnnouncedInv, \A g \in Due : ToTheTeam(g), NEW a \in Ids, Late(a)
  PROVE  Shared(a)
<1>1. \A g \in About(a) : /\ g.status \in {"mine", "ours"}
                          /\ g.status = "mine" <=> g.type = "new"
  BY DEF About, AnnouncedInv, Announced, ToTheTeam
<1>2. CASE status[a] = "ours"
  BY <1>2 DEF Shared, Settled, Right
<1>3. ASSUME NEW f \in About(a), f.status = status[a] PROVE Shared(a)
  <2>1. CASE f.status = "ours"
    BY <1>2, <1>3, <2>1
  <2>2. CASE f.status = "mine"
    BY <1>1, <1>3, <2>2 DEF Shared
  <2>3. QED
    BY <1>1, <2>1, <2>2
<1>4. CASE About(a) # {} /\ status[a] = "mine" /\ \A g \in About(a) : g.status = "mine"
  BY <1>1, <1>4 DEF Shared
<1>5. CASE Settled(a) /\ (About(a) # {} => status[a] = "mine")
  BY <1>5 DEF Shared
<1>6. QED
  BY <1>2, <1>3, <1>4, <1>5 DEF Late

LEMMA SharedToLate ==
  ASSUME AnnouncedInv, NEW t, \A g \in Due : ToTheTeam(g) /\ g.type = t,
         NEW a \in Ids, Shared(a)
  PROVE  Late(a)
<1>1. \A g \in About(a) : g.type = t /\ g.status = IF t = "new" THEN "mine" ELSE "ours"
  BY DEF About, AnnouncedInv, Announced, ToTheTeam
<1>2. CASE status[a] = "ours"
  BY <1>2 DEF Late
<1>3. CASE About(a) = {}
  BY <1>3 DEF Shared, Late
<1>4. CASE About(a) # {} /\ status[a] = "mine"
  <2>1. CASE t = "new"
    BY <1>1, <1>4, <2>1 DEF Late
  <2>2. CASE t # "new"
    <3>1. Settled(a)
      BY <1>1, <2>2 DEF Shared
    <3>2. QED
      BY <1>1, <1>4, <2>2, <3>1 DEF Late
  <2>3. QED
    BY <2>1, <2>2
<1>5. QED
  BY <1>2, <1>3, <1>4 DEF Shared

\* A change is announced behind what is on its way, with the last word if that
\* is of its type, and in any order if all of it is for the team.
LEMMA ChangeSync ==
  ASSUME Paced, SyncInv, TypeOK', NEW a \in Ids, NEW t \in Types, Change(a, t)
  PROVE  AnnouncedInv' /\ LoadsInv' /\ PaceInv'
<1>1. /\ TypeOK /\ TimerInv /\ OrderInv /\ KindInv /\ AnnouncedInv /\ LoadsInv
      /\ AloneInv \/ SharedInv
  BY DEF SyncInv, PaceInv
<1>2. /\ UNCHANGED <<filter, applied, acceptHandlerSocket, queues, timers,
                     timeOutNextProcess, list, loads, fetches>>
      /\ loads = << >> /\ changes' = changes + 1 /\ changes \in Nat
      /\ changes < MaxChanges
  BY <1>1, BoundAssumption DEF Change, queue, Paced, TypeOK
<1>3. PICK s \in Announces(t, a), m \in Malformed :
        LET e == [type |-> t, id |-> a, status |-> s, n |-> changes + 1, malformed |-> m]
        IN  /\ OnlyType(t) \/ ForTheTeam(e)
            /\ status' = [status EXCEPT ![a] = s]
            /\ socket' = Append(socket, e)
  BY DEF Change, Paced
<1>4. PICK e : e = [type |-> t, id |-> a, status |-> s, n |-> changes + 1, malformed |-> m]
  OBVIOUS
<1>5. /\ e.type = t /\ e.id = a /\ e.status = s /\ e.n = changes + 1 /\ e.malformed = m
      /\ OnlyType(t) \/ ForTheTeam(e)
      /\ status' = [status EXCEPT ![a] = s] /\ socket' = Append(socket, e)
  BY <1>3, <1>4
<1>6. t \in {"new", "assign", "revoke", "resolved"} /\ m = FALSE
  BY TypeAssumption DEF Paced, SocketTypes
<1>7. Announced(e)
  BY <1>3, <1>5, <1>6 DEF Announced, Announces
<1>8. s \in Statuses
  <2>1. Assignees \subseteq Statuses
    BY AssigneeAssumption DEF Statuses
  <2>2. QED
    BY <1>3, <1>6, <2>1 DEF Announces, Statuses
<1>9. e \in Event
  <2>1. changes + 1 \in 1..MaxChanges
    BY <1>2, BoundAssumption
  <2>2. QED
    BY <1>4, <1>6, <1>8, <2>1 DEF Event
<1>10. socket \in Seq(Event) /\ status \in [Ids -> Statuses]
  BY <1>1 DEF TypeOK
<1>11. /\ \A b \in Ids : b # a => status'[b] = status[b]
       /\ status'[a] = s
  BY <1>5, <1>10
<1>12. /\ DOMAIN socket' = DOMAIN socket \cup {Len(socket) + 1}
       /\ socket'[Len(socket) + 1] = e
       /\ \A i \in DOMAIN socket : socket'[i] = socket[i]
  <2>1. /\ socket'[Len(socket) + 1] = e
        /\ DOMAIN socket' = 1..(Len(socket) + 1) /\ DOMAIN socket = 1..Len(socket)
        /\ Len(socket) \in Nat
        /\ \A i \in DOMAIN socket : socket'[i] = socket[i]
    BY <1>5, <1>9, <1>10, AppendElements
  <2>2. QED
    BY <2>1
<1>13. Due' = Due \cup {e}
  <2>1. \A g \in Event : (\E i \in DOMAIN socket' : socket'[i] = g) <=>
                         g = e \/ \E i \in DOMAIN socket : socket[i] = g
    BY <1>12
  <2>2. \A g, p : (timers'[p] = 1 /\ Waits(g, p)') <=> (timers[p] = 1 /\ Waits(g, p))
    BY <1>2 DEF Waits
  <2>3. QED
    BY <1>9, <2>1, <2>2 DEF Due
<1>14. AnnouncedInv'
  BY <1>1, <1>7, <1>13 DEF AnnouncedInv, Announced
<1>15. LoadsInv'
  <2>1. DOMAIN loads = {}
    BY <1>2
  <2>2. QED
    BY <1>1, <1>2, <2>1 DEF LoadsInv
<1>16. /\ About(a)' = About(a) \cup {e}
       /\ \A b \in Ids : b # a => About(b)' = About(b)
  BY <1>5, <1>13 DEF About
<1>17. \A b \in Ids : b # a => (Settled(b) => Settled(b)')
  <2> SUFFICES ASSUME NEW b \in Ids, b # a, Settled(b) PROVE Settled(b)'
    OBVIOUS
  <2>1. (Matching(filter)[b])' = Matching(filter)[b]
    BY <1>2, <1>11 DEF Matching
  <2>2. QED
    BY <1>2, <1>11, <2>1 DEF Settled, Right
<1>18. CASE OnlyType(t)
  <2>1. Alone(t)
    BY <1>18 DEF OnlyType, Alone
  <2>2. \A b \in Ids : Late(b)
    <3>1. CASE AloneInv
      BY <3>1 DEF AloneInv
    <3>2. CASE SharedInv
      <4>1. \A g \in Due : ToTheTeam(g) /\ g.type = t
        BY <1>1, <2>1, <3>2, AloneDue DEF SharedInv
      <4>2. QED
        BY <1>1, <3>2, <4>1, SharedToLate DEF SharedInv
    <3>3. QED
      BY <1>1, <3>1, <3>2
  <2>3. Alone(t)'
    <3>1. \A i \in DOMAIN socket' : socket'[i].type = t
      BY <1>5, <1>12, <2>1 DEF Alone
    <3>2. QED
      BY <1>2, <2>1, <3>1 DEF Alone
  <2>4. ASSUME NEW b \in Ids PROVE Late(b)'
    <3>1. CASE b = a
      <4>1. \A g \in About(a)' : g.n <= e.n
        <5>1. \A g \in Due : g.n <= changes /\ g.n \in Nat
          <6>1. \A g \in Due : g.n <= changes
            BY <1>1, <2>1, AloneDue
          <6>2. \A g \in Due : g.n \in 1..MaxChanges
            BY DEF Due, Event
          <6>3. QED
            BY <6>1, <6>2
        <5>2. QED
          BY <1>2, <1>5, <1>16, <5>1 DEF About
      <4>2. e \in About(a)' /\ e.status = status'[a]
        BY <1>5, <1>11, <1>16
      <4>3. QED
        BY <3>1, <4>1, <4>2 DEF Late
    <3>2. CASE b # a
      BY <1>11, <1>16, <1>17, <2>2, <3>2 DEF Late
    <3>3. QED
      BY <3>1, <3>2
  <2>5. QED
    BY <1>14, <1>15, <2>3, <2>4 DEF PaceInv, AloneInv
<1>19. CASE ForTheTeam(e)
  <2>1. ToTheTeam(e)
    BY <1>19 DEF ForTheTeam, ToTheTeam
  <2>2. ASSUME NEW g \in Due PROVE ToTheTeam(g)
    <3>1. CASE \E i \in DOMAIN socket : socket[i] = g
      <4>1. g \in Range(socket)
        BY <3>1 DEF Range
      <4>2. QED
        BY <1>19, <4>1 DEF ForTheTeam, Pending, ToTheTeam
    <3>2. CASE \E p \in Container : timers[p] = 1 /\ Waits(g, p)
      <4>1. PICK p \in Container : timers[p] = 1 /\ Waits(g, p)
        BY <3>2
      <4>2. PICK i \in DOMAIN queues[p] : queues[p][i].body = g
        BY <4>1 DEF Waits
      <4>3. queues[p][i] \in Range(queues[p]) /\ timers[p] > 0
        BY <4>1, <4>2 DEF Range
      <4>4. g \in {w.body : w \in Range(queues[p])}
        BY <4>2, <4>3
      <4>5. g \in Pending
        BY <4>1, <4>3, <4>4 DEF Pending
      <4>6. QED
        BY <1>19, <4>5 DEF ForTheTeam, ToTheTeam
    <3>3. QED
      BY <3>1, <3>2 DEF Due
  <2>3. \A b \in Ids : Shared(b)
    <3>1. CASE AloneInv
      BY <1>1, <2>2, <3>1, LateToShared DEF AloneInv
    <3>2. CASE SharedInv
      BY <3>2 DEF SharedInv
    <3>3. QED
      BY <1>1, <3>1, <3>2
  <2>4. ASSUME NEW b \in Ids PROVE Shared(b)'
    <3>1. CASE b = a
      <4>1. e.type = "new" \/ e.status = "ours"
        BY <2>1 DEF ToTheTeam
      <4>2. CASE e.type = "new"
        <5>1. status'[a] = "mine"
          BY <1>5, <1>7, <1>11, <4>2 DEF Announced
        <5>2. e \in About(a)'
          BY <1>16
        <5>3. QED
          BY <3>1, <4>2, <5>1, <5>2 DEF Shared
      <4>3. CASE e.status = "ours"
        BY <1>5, <1>11, <3>1, <4>3 DEF Shared, Settled, Right
      <4>4. QED
        BY <4>1, <4>2, <4>3
    <3>2. CASE b # a
      BY <1>11, <1>16, <1>17, <2>3, <3>2 DEF Shared
    <3>3. QED
      BY <3>1, <3>2
  <2>5. SharedInv'
    BY <1>13, <2>1, <2>2, <2>4 DEF SharedInv, ToTheTeam
  <2>6. QED
    BY <1>14, <1>15, <2>5 DEF PaceInv
<1>20. QED
  BY <1>5, <1>18, <1>19

LEMMA SyncInductive ==
  ASSUME Paced
  PROVE  SyncInv /\ [Next]_vars => SyncInv'
<1> SUFFICES ASSUME SyncInv, [Next]_vars PROVE SyncInv'
  OBVIOUS
<1>1. /\ TypeOK /\ TimerInv /\ OrderInv /\ KindInv /\ AnnouncedInv /\ LoadsInv /\ PaceInv
  BY DEF SyncInv
<1>2. TypeOK' /\ TimerInv'
  BY <1>1, TypeInductive
<1>3. SUFFICES OrderInv' /\ KindInv' /\ AnnouncedInv' /\ LoadsInv' /\ PaceInv'
  BY <1>2 DEF SyncInv
<1>4. CASE UNCHANGED vars
  <2>1. OrderInv' /\ KindInv'
    BY <1>1, <1>4, OrderFrame DEF vars, server, queue
  <2>2. UNCHANGED <<status, filter, loads, list>>
    BY <1>4 DEF vars, server
  <2>3. PaceInv' /\ AnnouncedInv'
    BY <1>1, <1>4, <2>2, SettledKept, PaceFrame DEF vars, server, queue
  <2>4. LoadsInv'
    BY <1>1, <1>4 DEF LoadsInv, Matching, vars, server, queue
  <2>5. QED
    BY <2>1, <2>3, <2>4
<1>5. CASE HandlerSocket
  BY <1>1, <1>2, <1>5, HandlerSocketOrder, HandlerSocketSync
<1>6. ASSUME NEW q \in Container, NextProcess(q)
      PROVE  OrderInv' /\ KindInv' /\ AnnouncedInv' /\ LoadsInv' /\ PaceInv'
  BY <1>1, <1>2, <1>6, NextProcessOrder, NextProcessSync
<1>7. CASE OpenFilter \/ AutoRevoke
  <2>1. UNCHANGED <<queues, applied, socket, changes>>
    BY <1>7 DEF OpenFilter, AutoRevoke, server, queue
  <2>2. QED
    BY <1>1, <1>7, <2>1, OrderFrame, AgentSync
<1>8. ASSUME NEW x \in Filters, NEW b \in BOOLEAN, HanderFilter(x, b)
      PROVE  OrderInv' /\ KindInv' /\ AnnouncedInv' /\ LoadsInv' /\ PaceInv'
  BY <1>1, <1>8, HanderFilterOrder, HanderFilterSync
<1>9. ASSUME NEW i \in DOMAIN loads, AnswerLoad(i) \/ LoadData(i)
      PROVE  OrderInv' /\ KindInv' /\ AnnouncedInv' /\ LoadsInv' /\ PaceInv'
  <2>1. UNCHANGED <<queues, applied, socket, changes>>
    BY <1>9 DEF AnswerLoad, LoadData, server, queue
  <2>2. QED
    BY <1>1, <1>9, <2>1, OrderFrame, LoadSync
<1>10. \A i \in DOMAIN loads : ~LoadFailed(i)
  BY <1>1 DEF LoadFailed, Paced, TypeOK
<1>11. fetches = {}
  BY <1>1 DEF LoadsInv
<1>12. ASSUME NEW a \in Ids, Expire(a)
       PROVE  OrderInv' /\ KindInv' /\ AnnouncedInv' /\ LoadsInv' /\ PaceInv'
  BY <1>1, <1>12, ServerOrder, ExpireSync
<1>13. ASSUME NEW a \in Ids, NEW t \in Types, Change(a, t)
       PROVE  OrderInv' /\ KindInv' /\ AnnouncedInv' /\ LoadsInv' /\ PaceInv'
  BY <1>1, <1>2, <1>13, ServerOrder, ChangeSync
<1>14. QED
  BY <1>4, <1>5, <1>6, <1>7, <1>8, <1>9, <1>10, <1>11, <1>12, <1>13
  DEF Next, Agent, Loading, Fetching

\* Once everything in flight has landed the list holds exactly what the server
\* would return, although events wait in queues, are dropped by a new filter or
\* during a load, and overtake each other if they are for the team: for any
\* assignments, types of events but tags, and number of filters and changes
\* (List/index.tsx 122-187, 349-367, 369-534, 567-638).
THEOREM ListConverges ==
  ASSUME Paced
  PROVE  Spec => []InSync
<1>1. Init => SyncInv
  BY InitSync
<1>2. SyncInv /\ [Next]_vars => SyncInv'
  BY SyncInductive
<1>3. SyncInv => InSync
  BY SyncImplies
<1>4. QED
  BY <1>1, <1>2, <1>3, PTL DEF Spec
-----------------------------------------------------------------------------
(* Events are accepted again.                                              *)

\* While events are ignored, the load for the filter of the moment is on its way,
\* unless a request failed: handerFilter asks for it as it stops listening, and
\* whatever load is answered first makes the list listen
\* (List/index.tsx 122-134, 152-188).
THEOREM ListensAgain == Spec => []IgnoresWhileLoading
<1>1. Init => IgnoresWhileLoading
  BY DEF Init, IgnoresWhileLoading
<1>2. ASSUME TypeOK, IgnoresWhileLoading, [Next]_vars PROVE IgnoresWhileLoading'
  <2>0. loads \in Seq(Load) /\ failures \in Nat
    BY <1>2, BoundAssumption DEF TypeOK
  <2>1. CASE UNCHANGED <<acceptHandlerSocket, failures, filter, loads>>
    BY <1>2, <2>1 DEF IgnoresWhileLoading
  <2>2. ASSUME NEW x \in Filters, NEW b \in BOOLEAN, HanderFilter(x, b)
        PROVE  IgnoresWhileLoading'
    <3>1. /\ loads' = Append(loads, [filter |-> x, data |-> None]) /\ filter' = x
      BY <2>2 DEF HanderFilter
    <3>2. Len(loads) + 1 \in DOMAIN loads' /\ loads'[Len(loads) + 1].filter = filter'
      BY <2>0, <3>1
    <3>3. QED
      BY <3>2 DEF IgnoresWhileLoading
  <2>3. ASSUME NEW i \in DOMAIN loads, AnswerLoad(i) PROVE IgnoresWhileLoading'
    <3>1. loads' = [loads EXCEPT ![i].data = Matching(loads[i].filter)]
      BY <2>3 DEF AnswerLoad
    <3>2. /\ DOMAIN loads' = DOMAIN loads
          /\ \A j \in DOMAIN loads : loads'[j].filter = loads[j].filter
      BY <2>0, <3>1 DEF Load
    <3>3. UNCHANGED <<acceptHandlerSocket, failures, filter>>
      BY <2>3 DEF AnswerLoad
    <3>4. QED
      BY <1>2, <3>2, <3>3 DEF IgnoresWhileLoading
  <2>4. ASSUME NEW i \in DOMAIN loads, LoadData(i) PROVE IgnoresWhileLoading'
    BY <2>4 DEF LoadData, IgnoresWhileLoading
  <2>5. ASSUME NEW i \in DOMAIN loads, LoadFailed(i) PROVE IgnoresWhileLoading'
    BY <2>0, <2>5 DEF LoadFailed, IgnoresWhileLoading
  <2>6. ASSUME NEW r \in fetches, FetchFailed(r) PROVE IgnoresWhileLoading'
    BY <2>0, <2>6 DEF FetchFailed, IgnoresWhileLoading
  <2>7. ASSUME HandlerSocket \/ \E q \in Container : NextProcess(q)
        PROVE  UNCHANGED <<acceptHandlerSocket, failures, filter, loads>>
    BY <2>7, Zenon DEF HandlerSocket, NextProcess
  <2>8. QED
    BY <1>2, <2>1, <2>2, <2>3, <2>4, <2>5, <2>6, <2>7
    DEF Next, vars, Agent, Loading, Fetching, OpenFilter, AnswerFetch,
        UpdateUserAssigns, AutoRevoke, Expire, Change
<1>3. QED
  BY <1>1, <1>2, TypeCorrect, PTL DEF Spec

=============================================================================
