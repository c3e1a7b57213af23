----------------------------- MODULE ListSocket -----------------------------
(***************************************************************************)
(* The list of assignments of one feature (screens/ChatMain/List).         *)
(*                                                                         *)
(* The list is loaded with the filter of the feature and kept up to date   *)
(* by socket events.  Events wait in one queue per socket type; the head   *)
(* of a queue is processed when it gets there, the next one 150 ms later.  *)
(* A new filter drops the queues and ignores events until the list is      *)
(* loaded again.  Every 5 seconds the assignments that stopped matching    *)
(* the filter are removed.                                                 *)
(*                                                                         *)
(* An assignment is abstracted to its status, a filter to the statuses it  *)
(* accepts, the list to the status it has noted of each assignment, and    *)
(* the pages of the list to one page.                                      *)
(***************************************************************************)
EXTENDS Naturals, Sequences, FiniteSets, SequencesExt

CONSTANTS
  Ids,         \* assignments
  Types,       \* socket types the server uses
  Filters,     \* values of feature.filter: sets of statuses
  Assignees,   \* to whom the server's assign events assign
  Malformed,   \* whether an event's body may make its handler throw
  Pace,        \* when an assignment may change: "any" time, or ("typed") while
               \* no load is on its way, not even its answer, and one socket
               \* type at a time, except that pushes and assignments to the
               \* team may overlap
  Expiry,      \* whether assignments expire
  Ordered,     \* whether loads are answered in the order they are sent
  MaxChanges,  \* bound on changes at the server
  MaxFilters,  \* bound on applied filters
  MaxFailures, \* bound on failed requests
  None

\* The server's view of an assignment: the agent's, another's, a team's ("ours"
\* if the agent is a member) or resolved.  "expired" is only ever noted by the
\* list: time has passed since the assignment was assigned to the agent.
Teams == {"team", "ours"}
Statuses == {"mine", "other", "done", "expired"} \cup Teams

SocketTypes == {"new", "assign", "revoke", "resolved", "tag"}

ASSUME TypeAssumption == Types \subseteq SocketTypes
ASSUME AssigneeAssumption == Assignees \subseteq {"mine", "other"} \cup Teams
ASSUME FilterAssumption == Filters \subseteq SUBSET {"mine", "other", "done"}
ASSUME PaceAssumption == Pace \in {"any", "typed"}
ASSUME BooleanAssumption ==
  Expiry \in BOOLEAN /\ Ordered \in BOOLEAN /\ Malformed \subseteq BOOLEAN
ASSUME BoundAssumption ==
  MaxChanges \in Nat /\ MaxFilters \in Nat /\ MaxFailures \in Nat
ASSUME NoneAssumption ==
  None \notin Statuses \cup {"asked"} \cup (Types \X (0..MaxFilters))

VARIABLES
  status,      \* the server's status of each assignment
  changes,     \* changes made so far; the number of an event
  socket,      \* events on their way, in order
  filter,      \* feature.filter
  applied,     \* filters applied so far: the generation of the queues
  failures,    \* requests that failed so far
  ignoreRevoke,        \* feature.ignoreRevoke
  acceptHandlerSocket,
  queues,      \* the containers of dataSocketContainer, dropped ones included
  timers,      \* timeouts of nextProcess not yet fired, per container
  timeOutNextProcess,  \* the container of the last timeout, or None
  list,        \* listViewComponentRef.Items: the status noted, or None
  loads,       \* getAssignments in flight, for the whole list
  fetches,     \* getAssignments in flight, for one assignment
  processed    \* history: the numbers of the events processed, per container

server == <<status, changes>>
queue  == <<queues, timers, timeOutNextProcess, processed>>
vars == <<server, socket, filter, applied, failures, ignoreRevoke,
          acceptHandlerSocket, queue, list, loads, fetches>>

Event == [type : Types, id : Ids, status : Statuses, n : 1..MaxChanges,
          malformed : BOOLEAN]

\* The array of one type since the filter was applied for the g-th time; the
\* arrays of earlier generations are reachable from their timeouts only.
Container == Types \X (0..MaxFilters)

\* What the server answers: the status of the assignments it returns.
Answer == [Ids -> Statuses \cup {None}]
Load   == [filter : Filters, data : Answer \cup {None}]
Fetch  == [id : Ids, filter : Filters, data : Statuses \cup {None, "asked"}]

Empty == [a \in Ids |-> None]

Init ==
  /\ status \in [Ids -> {"mine", "other"}]
  /\ changes = 0
  /\ socket = << >>
  /\ filter \in Filters
  /\ applied = 0
  /\ failures = 0
  /\ ignoreRevoke = FALSE
  /\ acceptHandlerSocket = FALSE
  /\ queues = [q \in Container |-> << >>]
  /\ timers = [q \in Container |-> 0]
  /\ timeOutNextProcess = None
  /\ list = Empty
  /\ loads = << [filter |-> filter, data |-> None] >>
  /\ fetches = {}
  /\ processed = [q \in Container |-> << >>]

-----------------------------------------------------------------------------
(* The list.                                                               *)

\* validAssignmentWithFilter
Valid(s) == s \in filter

\* pushAssignments: what is in the list is merged, the rest is checked.
PushAssignment(l, a, s) ==
  IF l[a] # None \/ Valid(s) THEN [l EXCEPT ![a] = s] ELSE l

\* removeAssignment
RemoveAssignment(l, a) == [l EXCEPT ![a] = None]

\* Mutant: what is assigned to the agent's team is removed.
AssignSocketTeam(l, a, s) ==
  IF Valid(s) THEN PushAssignment(l, a, s) ELSE RemoveAssignment(l, a)

\* assignSocket, with the check of removeAssignment: what is assigned to a
\* team of the agent is not removed.
AssignSocket(l, a, s) ==
  CASE Valid(s)               -> PushAssignment(l, a, s)
    [] ~Valid(s) /\ s = "ours" -> l
    [] ~Valid(s) /\ s # "ours" -> RemoveAssignment(l, a)

\* resolveSocket: only what is in the list.
ResolveSocket(l, a, s) ==
  IF l[a] = None THEN l
  ELSE IF Valid(s) THEN [l EXCEPT ![a] = s]
  ELSE RemoveAssignment(l, a)

\* The switch of processingDataSocket: the list after event e.
Switch(e) ==
  IF e.malformed THEN list
  ELSE CASE e.type = "new"      -> PushAssignment(list, e.id, e.status)
         [] e.type = "assign"   -> AssignSocket(list, e.id, e.status)
         [] e.type = "revoke"   -> RemoveAssignment(list, e.id)
         [] e.type = "resolved" -> ResolveSocket(list, e.id, e.status)
         [] e.type = "tag"      -> list

\* updateUserAssignsSocket asks the server for the assignment.
Asked(e) ==
  IF e.type = "tag" /\ ~e.malformed
  THEN {[id |-> e.id, filter |-> filter, data |-> "asked"]}
  ELSE {}

-----------------------------------------------------------------------------
(* The queues.                                                             *)

\* Mutant: a head that is being processed is processed again.
ProcessingDataSocketAgain(q, s, t) ==
  IF s = << >>
  THEN /\ queues' = [queues EXCEPT ![q] = s]
       /\ timers' = [timers EXCEPT ![q] = t]
       /\ UNCHANGED <<timeOutNextProcess, list, fetches, processed>>
  ELSE LET e == Head(s).body
       IN  /\ queues' = [queues EXCEPT
                ![q] = <<[body |-> e, isProcessing |-> TRUE]>> \o Tail(s)]
           /\ timers' = [timers EXCEPT ![q] = t + 1]
           /\ timeOutNextProcess' = q
           /\ list' = Switch(e)
           /\ fetches' = fetches \cup Asked(e)
           /\ processed' = [processed EXCEPT ![q] = Append(@, e.n)]

\* Mutant: the head is not marked.
ProcessingDataSocketUnmarked(q, s, t) ==
  IF s = << >> \/ Head(s).isProcessing
  THEN /\ queues' = [queues EXCEPT ![q] = s]
       /\ timers' = [timers EXCEPT ![q] = t]
       /\ UNCHANGED <<timeOutNextProcess, list, fetches, processed>>
  ELSE LET e == Head(s).body
       IN  /\ queues' = [queues EXCEPT
                ![q] = <<[body |-> e, isProcessing |-> FALSE]>> \o Tail(s)]
           /\ timers' = [timers EXCEPT ![q] = t + 1]
           /\ timeOutNextProcess' = q
           /\ list' = Switch(e)
           /\ fetches' = fetches \cup Asked(e)
           /\ processed' = [processed EXCEPT ![q] = Append(@, e.n)]

\* Mutant: the timeout is set inside the try.
ProcessingDataSocketThrows(q, s, t) ==
  IF s = << >> \/ Head(s).isProcessing
  THEN /\ queues' = [queues EXCEPT ![q] = s]
       /\ timers' = [timers EXCEPT ![q] = t]
       /\ UNCHANGED <<timeOutNextProcess, list, fetches, processed>>
  ELSE LET e == Head(s).body
       IN  /\ queues' = [queues EXCEPT
                ![q] = <<[body |-> e, isProcessing |-> TRUE]>> \o Tail(s)]
           /\ timers' = [timers EXCEPT ![q] = IF e.malformed THEN t ELSE t + 1]
           /\ timeOutNextProcess' = q
           /\ list' = Switch(e)
           /\ fetches' = fetches \cup Asked(e)
           /\ processed' = [processed EXCEPT ![q] = Append(@, e.n)]

\* processingDataSocket of container q, whose content is s once the caller
\* has added or removed an event; t is its number of timeouts.  A head that
\* is being processed waits for its timeout; another one is processed now.
ProcessingDataSocket(q, s, t) ==
  IF s = << >> \/ Head(s).isProcessing
  THEN /\ queues' = [queues EXCEPT ![q] = s]
       /\ timers' = [timers EXCEPT ![q] = t]
       /\ UNCHANGED <<timeOutNextProcess, list, fetches, processed>>
  ELSE LET e == Head(s).body
       IN  /\ queues' = [queues EXCEPT
                ![q] = <<[body |-> e, isProcessing |-> TRUE]>> \o Tail(s)]
           /\ timers' = [timers EXCEPT ![q] = t + 1]
           /\ timeOutNextProcess' = q
           /\ list' = Switch(e)
           /\ fetches' = fetches \cup Asked(e)
           /\ processed' = [processed EXCEPT ![q] = Append(@, e.n)]

\* Mutant: a new filter keeps the queues.
HandlerSocketKept ==
  /\ socket # << >>
  /\ socket' = Tail(socket)
  /\ LET e == Head(socket)
         q == <<e.type, 0>>
     IN  IF acceptHandlerSocket
         THEN ProcessingDataSocket(q,
                Append(queues[q], [body |-> e, isProcessing |-> FALSE]), timers[q])
         ELSE UNCHANGED <<queue, list, fetches>>
  /\ UNCHANGED <<server, filter, applied, failures, ignoreRevoke,
                 acceptHandlerSocket, loads>>

\* handlerSocket: the next event of the socket, dropped while a load has not
\* been answered since the filter was applied.
HandlerSocket ==
  /\ socket # << >>
  /\ socket' = Tail(socket)
  /\ LET e == Head(socket)
         q == <<e.type, applied>>
     IN  IF acceptHandlerSocket
         THEN ProcessingDataSocket(q,
                Append(queues[q], [body |-> e, isProcessing |-> FALSE]), timers[q])
         ELSE UNCHANGED <<queue, list, fetches>>
  /\ UNCHANGED <<server, filter, applied, failures, ignoreRevoke,
                 acceptHandlerSocket, loads>>

\* nextProcess, when a timeout fires.
NextProcess(q) ==
  /\ timers[q] > 0
  /\ ProcessingDataSocket(q,
       IF queues[q] = << >> THEN << >> ELSE Tail(queues[q]), timers[q] - 1)
  /\ UNCHANGED <<server, socket, filter, applied, failures, ignoreRevoke,
                 acceptHandlerSocket, loads>>

-----------------------------------------------------------------------------
(* Requests.                                                               *)

Matching(x) == [a \in Ids |-> IF status[a] \in x THEN status[a] ELSE None]

\* The server answers a load.
AnswerLoad(i) ==
  /\ loads[i].data = None
  /\ loads' = [loads EXCEPT ![i].data = Matching(loads[i].filter)]
  /\ UNCHANGED <<server, socket, filter, applied, failures, ignoreRevoke,
                 acceptHandlerSocket, queue, list, fetches>>

\* Mutant: an empty answer returns before events are accepted again.
LoadDataReturns(i) ==
  /\ loads[i].data # None
  /\ Ordered => i = 1
  /\ list' = [a \in Ids |-> IF loads[i].data[a] # None
                            THEN PushAssignment(Empty, a, loads[i].data[a])[a]
                            ELSE None]
  /\ acceptHandlerSocket' = (acceptHandlerSocket \/ loads[i].data # Empty)
  /\ loads' = RemoveAt(loads, i)
  /\ UNCHANGED <<server, socket, filter, applied, failures, ignoreRevoke, queue,
                 fetches>>

\* loadData with an answer: the list is emptied, the data are pushed through
\* the filter of the moment.
LoadData(i) ==
  /\ loads[i].data # None
  /\ Ordered => i = 1
  /\ list' = [a \in Ids |-> IF loads[i].data[a] # None
                            THEN PushAssignment(Empty, a, loads[i].data[a])[a]
                            ELSE None]
  /\ acceptHandlerSocket' = TRUE
  /\ loads' = RemoveAt(loads, i)
  /\ UNCHANGED <<server, socket, filter, applied, failures, ignoreRevoke, queue,
                 fetches>>

\* loadData without one, or with a rejected request, which nobody catches: the
\* list goes on as it was.
LoadFailed(i) ==
  /\ failures < MaxFailures
  /\ Ordered => i = 1
  /\ failures' = failures + 1
  /\ \/ list' = Empty /\ acceptHandlerSocket' = TRUE
     \/ UNCHANGED <<list, acceptHandlerSocket>>
  /\ loads' = RemoveAt(loads, i)
  /\ UNCHANGED <<server, socket, filter, applied, ignoreRevoke, queue, fetches>>

\* The server answers updateUserAssignsSocket.
AnswerFetch(r) ==
  /\ r.data = "asked"
  /\ fetches' = (fetches \ {r}) \cup {[r EXCEPT !.data = Matching(r.filter)[r.id]]}
  /\ UNCHANGED <<server, socket, filter, applied, failures, ignoreRevoke,
                 acceptHandlerSocket, queue, list, loads>>

\* The rest of updateUserAssignsSocket.
UpdateUserAssigns(r) ==
  /\ r.data # "asked"
  /\ list' = IF r.data = None THEN RemoveAssignment(list, r.id)
                              ELSE PushAssignment(list, r.id, r.data)
  /\ fetches' = fetches \ {r}
  /\ UNCHANGED <<server, socket, filter, applied, failures, ignoreRevoke,
                 acceptHandlerSocket, queue, loads>>

\* The request of updateUserAssignsSocket fails: without an answer, reading
\* result.code throws; an answer with an error code removes the assignment.
FetchFailed(r) ==
  /\ failures < MaxFailures
  /\ failures' = failures + 1
  /\ list' \in {list, RemoveAssignment(list, r.id)}
  /\ fetches' = fetches \ {r}
  /\ UNCHANGED <<server, socket, filter, applied, ignoreRevoke,
                 acceptHandlerSocket, queue, loads>>

\* Nothing is on its way to the list.
Quiet == /\ socket = << >> /\ loads = << >> /\ fetches = {}
         /\ \A q \in Container : timers[q] = 0
         /\ \A a \in Ids : list[a] # "expired"

\* Nothing of a type other than t is, and a new filter would stop its queue.
OnlyType(t) ==
  /\ \A i \in DOMAIN socket : socket[i].type = t
  /\ \A q \in Container : timers[q] > 0 => q = <<t, applied>> /\ timeOutNextProcess = q
  /\ fetches # {} => t = "tag"

\* What is on its way, and e, only push assignments or give them to a team of
\* the agent: the queues of the two types may overtake each other.
Pending == Range(socket) \cup
           UNION {{w.body : w \in Range(queues[q])} :
                    q \in {q \in Container : timers[q] > 0}}
ForTheTeam(e) ==
  \A x \in Pending \cup {e} : \/ x.type = "new"
                              \/ x.type = "assign" /\ x.status = "ours"

-----------------------------------------------------------------------------
(* The agent and the clock.                                                *)

\* The constructor of the filter screen; closing it does not undo this.
OpenFilter ==
  /\ ignoreRevoke' = TRUE
  /\ UNCHANGED <<server, socket, filter, applied, failures, acceptHandlerSocket,
                 queue, list, loads, fetches>>

\* The filter screen (which ends ignoreRevoke) or the search screen changes
\* feature.filter and calls handerFilter.  Only the last timeout is cleared.
HanderFilter(x, fromFilter) ==
  /\ applied < MaxFilters
  /\ filter' = x
  /\ ignoreRevoke' = (ignoreRevoke /\ ~fromFilter)
  /\ acceptHandlerSocket' = FALSE
  /\ applied' = applied + 1
  /\ timers' = [q \in Container |->
       IF q = timeOutNextProcess /\ timers[q] > 0 THEN timers[q] - 1 ELSE timers[q]]
  /\ loads' = Append(loads, [filter |-> x, data |-> None])
  /\ UNCHANGED <<server, socket, failures, queues, timeOutNextProcess, processed,
                 list, fetches>>

\* The assignment has been the agent's for too long: the server takes it
\* back, and the list's copy no longer matches the filter.
Expire(a) ==
  /\ Expiry /\ changes < MaxChanges
  /\ Pace # "any" => Quiet
  /\ changes' = changes + 1
  /\ status[a] = "mine" /\ list[a] = "mine"
  /\ status' = [status EXCEPT ![a] = "other"]
  /\ list' = [list EXCEPT ![a] = "expired"]
  /\ UNCHANGED <<socket, filter, applied, failures, ignoreRevoke,
                 acceptHandlerSocket, queue, loads, fetches>>

\* autoRevoke removes while it iterates: at least one assignment goes.
AutoRevoke ==
  /\ ~ignoreRevoke
  /\ \E S \in SUBSET {a \in Ids : list[a] # None /\ ~Valid(list[a])} :
       /\ S # {}
       /\ list' = [a \in Ids |-> IF a \in S THEN None ELSE list[a]]
  /\ UNCHANGED <<server, socket, filter, applied, failures, ignoreRevoke,
                 acceptHandlerSocket, queue, loads, fetches>>

-----------------------------------------------------------------------------
(* The server.                                                             *)

\* The statuses an event of type t announces.
Announces(t, a) ==
  CASE t = "new"      -> {"mine"}
    [] t = "assign"   -> Assignees
    [] t = "revoke"   -> {"other"}
    [] t = "resolved" -> {"done"}
    [] t = "tag"      -> {status[a]}

Change(a, t) ==
  /\ changes < MaxChanges
  /\ Pace # "any" => loads = << >>
  /\ changes' = changes + 1
  /\ \E s \in Announces(t, a), m \in Malformed :
       LET e == [type |-> t, id |-> a, status |-> s, n |-> changes + 1,
                 malformed |-> m]
       IN  /\ Pace = "typed" => OnlyType(t) \/ ForTheTeam(e)
           /\ status' = [status EXCEPT ![a] = s]
           /\ socket' = Append(socket, e)
  /\ UNCHANGED <<filter, applied, failures, ignoreRevoke, acceptHandlerSocket,
                 queue, list, loads, fetches>>

-----------------------------------------------------------------------------
Agent == OpenFilter \/ \E x \in Filters, b \in BOOLEAN : HanderFilter(x, b)

Loading == \E i \in DOMAIN loads : AnswerLoad(i) \/ LoadData(i)
Fetching == \E r \in fetches : AnswerFetch(r) \/ UpdateUserAssigns(r)

Next ==
  \/ Agent
  \/ HandlerSocket
  \/ Loading \/ Fetching
  \/ \E i \in DOMAIN loads : LoadFailed(i)
  \/ \E r \in fetches : FetchFailed(r)
  \/ AutoRevoke
  \/ \E q \in Container : NextProcess(q)
  \/ \E a \in Ids : Expire(a) \/ \E t \in Types : Change(a, t)

Spec == Init /\ [][Next]_vars

\* Timeouts fire, the interval ticks, requests are answered, the socket
\* delivers; the agent and the server need do nothing.
Fairness ==
  /\ WF_vars(HandlerSocket) /\ WF_vars(Loading) /\ WF_vars(Fetching)
  /\ WF_vars(AutoRevoke)
  /\ \A q \in Container : WF_vars(NextProcess(q))

FairSpec == Spec /\ Fairness

-----------------------------------------------------------------------------
(* What the list promises.                                                 *)

TypeOK ==
  /\ status \in [Ids -> Statuses]
  /\ changes \in 0..MaxChanges
  /\ socket \in Seq(Event)
  /\ filter \in Filters
  /\ applied \in 0..MaxFilters /\ failures \in 0..MaxFailures
  /\ ignoreRevoke \in BOOLEAN /\ acceptHandlerSocket \in BOOLEAN
  /\ queues \in [Container -> Seq([body : Event, isProcessing : BOOLEAN])]
  /\ timers \in [Container -> 0..1]
  /\ timeOutNextProcess \in Container \cup {None}
  /\ list \in Answer
  /\ loads \in Seq(Load)
  /\ fetches \subseteq Fetch
  /\ processed \in [Container -> Seq(1..MaxChanges)]

\* Once everything in flight has landed, the list holds exactly what the
\* server would return, although events that follow each other closely wait,
\* events that come during a load are dropped, and what is assigned to one of
\* the agent's teams and then to him is announced in queues that overtake each
\* other.  (What is a team's may stay in the list: removeAssignment keeps it.)
\* It is true when changes do not overlap a load, a queue that a new filter did
\* not stop or, the team's aside, changes of another type, and when loads are
\* answered in order.
InSync ==
  Quiet => \A a \in Ids : status[a] # "ours" => list[a] = Matching(filter)[a]

\* Every event is processed at most once, by the queue of its type that was
\* current when it came, and a queue processes its events in the order they came,
\* whatever filters are applied meanwhile.  (A dropped queue that goes on may
\* process an event after a later one of the queue that follows it.)
ProcessedInOrder ==
  \A q, r \in Container : \A i \in DOMAIN processed[q], j \in DOMAIN processed[r] :
    q[1] = r[1] /\ (q[2] < r[2] \/ (q = r /\ i < j)) => processed[q][i] < processed[r][j]

\* A queue that a new filter has dropped gets no further event and, once it has
\* stopped, is never processed again.  (handerFilter clears one timeout: a
\* dropped queue of another type goes on with the events it has.)
DroppedIsDropped ==
  [][\A q \in Container : q[2] < applied =>
       /\ Len(queues'[q]) <= Len(queues[q])
       /\ timers[q] = 0 => UNCHANGED <<queues[q], timers[q], processed[q]>>]_vars

\* An event that was queued is processed, or its queue dropped and stopped by a
\* new filter, even behind events whose handlers throw.
QueuesDrain ==
  \A q \in Container :
    queues[q] # << >> ~> (queues[q] = << >> \/ (q[2] < applied /\ timers[q] = 0))

\* Events are ignored only as long as the load for the filter of the moment is on
\* its way, whatever other loads are answered before it: the list is never deaf
\* for good.  (An event between the server's answer and its arrival is lost all the
\* same; and nobody catches a rejected load, or repeats it.)
IgnoresWhileLoading ==
  acceptHandlerSocket \/ failures > 0 \/ \E i \in DOMAIN loads : loads[i].filter = filter
=============================================================================
