------------------------------ MODULE Comments ------------------------------
(***************************************************************************)
(* The replies to a customer's comment (screens/ChatMain/Detail/Comment,   *)
(* common/SocialUtils).                                                    *)
(*                                                                         *)
(* A screen that finds none loads the first page of replies and hangs the  *)
(* comment they belong to on the assignment.  From then on both the list   *)
(* of assignments and the header of the screen handle every socket event,  *)
(* each from queues of its own, on the same replies; a new reply is looked *)
(* for, fetched, looked for again and inserted.  The agent loads further   *)
(* pages, sends replies of his own, which wait for the event that tells    *)
(* their number, and deletes.                                              *)
(*                                                                         *)
(* A reply is its number at the server, given in the order they are made,  *)
(* 0 while the server has not told it.  `gen' counts the comments that     *)
(* were hung on the assignment one after the other: a request made for an  *)
(* earlier one is answered into replies that nobody will show.             *)
(*                                                                         *)
(* Of the server and the service (mo-app-common) it is assumed that every  *)
(* reply event carries a detect id, 0 below if it is not from this device, *)
(* and attachments, that sendComment returns nothing when it fails, rather *)
(* than being rejected, and that the list of assignments is mounted and    *)
(* has the assignment.                                                     *)
(***************************************************************************)
EXTENDS Integers, Sequences, FiniteSets, SequencesExt

CONSTANTS
  PageSize,     \* replies of a page of the server
  MaxComments,  \* bound on the replies at the server
  MaxOwn,       \* bound on the replies sent from this device
  MaxScreens,   \* bound on how often the screen is opened
  MaxFaults,    \* bound on failed requests
  MaxUnderWay   \* bound on what is under way when something new begins

ASSUME BoundAssumption ==
  /\ PageSize \in Nat \ {0} /\ MaxComments \in Nat /\ MaxOwn \in Nat
  /\ MaxScreens \in Nat /\ MaxFaults \in Nat /\ MaxUnderWay \in Nat

VARIABLES
  posted,    \* the server: how many replies were ever made
  deleted,   \* the server: those that were deleted
  socket,    \* events on their way to the device
  faults,    \* faults so far
  gen,       \* which comment specific_comments[0] is; 0 when it is empty
  tree,      \* comments.data of that comment
  next,      \* comments.paging.next of that comment; 0 when there is none
  opened,    \* how often the screen was opened; the current screen's number
  open,      \* the screen is on display
  shown,     \* state.comment of the screen, 0 when undefined
  more,      \* state.displayLoadmoreComments
  own,       \* how many replies were sent from this device
  queues,    \* dataSocketContainer of the list and of each screen's header,
             \* without the events that were processed
  loads,     \* getComments under way
  filling,   \* initData of the screen has its comments and waits for the post
  details,   \* getCommentFB between its two looks
  pages,     \* getMoreSubComments under way
  sends,     \* sendReplyComment under way
  deletes    \* handleDeleteComment under way

server   == <<posted, deleted, socket, faults>>
comments == <<gen, tree, next>>
screen   == <<opened, open, shown, more, filling>>
requests == <<own, loads, details, pages, sends, deletes>>
vars     == <<server, comments, screen, queues, requests>>

Types     == {"sub", "reply", "delete"}
List      == 0
Listeners == {List} \cup 1..MaxScreens
Id        == 0..MaxComments
Detect    == 0..MaxOwn
Item      == [id : Id, detect : Detect, status : {"sending", "delivered", "failed"}]
Event     == [type : Types, id : Id, detect : Detect, status : {"delivered", "failed"}]
Page      == [data : Seq(Id), next : Id]
Load      == [screen : 1..MaxScreens, served : BOOLEAN, answer : Page]
Detail    == [listener : Listeners, id : Id, gen : 0..MaxScreens,
              answer : {"waiting", "found", "gone"}]
More      == [screen : 1..MaxScreens, gen : 0..MaxScreens, from : Id,
              served : BOOLEAN, answer : Page]
Sent      == [detect : Detect, answer : {"waiting", "done", "refused"}]
Deletion  == [id : Id, gen : 0..MaxScreens, answer : {"waiting", "done"}]

NoPage   == [data |-> << >>, next |-> 0]
NoQueues == [t \in Types |-> << >>]

Init ==
  /\ posted = 0 /\ deleted = {} /\ socket = {} /\ faults = 0
  /\ gen = 0 /\ tree = << >> /\ next = 0
  /\ opened = 0 /\ open = FALSE /\ shown = 0 /\ more = FALSE
  /\ filling = FALSE /\ own = 0
  /\ queues = [l \in Listeners |-> NoQueues]
  /\ loads = {} /\ details = {} /\ pages = {}
  /\ sends = {} /\ deletes = {}

\* Events on their way or in a queue, and requests: the server, the network
\* and the agent begin something new only while there are few.
UnderWay ==
  Cardinality(socket) + Cardinality(loads) + Cardinality(details) + Cardinality(pages)
    + Cardinality(sends) + Cardinality(deletes)
    + Cardinality({q \in Listeners \X Types : queues[q[1]][q[2]] # << >>})
MayBegin == UnderWay < MaxUnderWay

-----------------------------------------------------------------------------
(* The server.                                                             *)

SubEvent(id)    == [type |-> "sub", id |-> id, detect |-> 0, status |-> "delivered"]
DeleteEvent(id) == [type |-> "delete", id |-> id, detect |-> 0, status |-> "delivered"]
ReplyEvent(id, d, st) == [type |-> "reply", id |-> id, detect |-> d, status |-> st]

\* The members of a finite set of numbers, in order.
InOrder(S) ==
  CHOOSE f \in [1..Cardinality(S) -> S] : \A i, j \in DOMAIN f : i < j => f[i] < f[j]

\* The page of the newest replies older than `from': newest first.
PageBefore(from) ==
  LET live   == {id \in 1..posted : id < from /\ id \notin deleted}
      n      == Cardinality(live)
      oldest == InOrder(live)
  IN  IF n <= PageSize
      THEN [data |-> [i \in 1..n |-> oldest[n + 1 - i]], next |-> 0]
      ELSE [data |-> [i \in 1..PageSize |-> oldest[n + 1 - i]],
            next |-> oldest[n + 1 - PageSize]]

\* A customer replies, or another agent does from a device of his own.
Post ==
  /\ MayBegin /\ posted < MaxComments
  /\ posted' = posted + 1
  /\ \E e \in {SubEvent(posted + 1), ReplyEvent(posted + 1, 0, "delivered")} :
       socket' = socket \cup {e}
  /\ UNCHANGED <<deleted, faults, comments, screen, queues, requests>>

\* A reply is deleted at the network, or by another agent.
DeleteElsewhere(id) ==
  /\ MayBegin /\ id \in 1..posted \ deleted
  /\ deleted' = deleted \cup {id}
  /\ socket' = socket \cup {DeleteEvent(id)}
  /\ UNCHANGED <<posted, faults, comments, screen, queues, requests>>

ServeLoad(r) ==
  /\ ~r.served
  /\ loads' = (loads \ {r}) \cup
       {[r EXCEPT !.served = TRUE, !.answer = PageBefore(posted + 1)]}
  /\ UNCHANGED <<server, comments, screen, queues, own, details, pages, sends,
                 deletes>>

ServeDetail(r) ==
  /\ r.answer = "waiting"
  /\ details' = (details \ {r}) \cup
       {[r EXCEPT !.answer = IF r.id \in deleted THEN "gone" ELSE "found"]}
  /\ UNCHANGED <<server, comments, screen, queues, own, loads, pages, sends,
                 deletes>>

ServePage(r) ==
  /\ ~r.served
  /\ pages' = (pages \ {r}) \cup
       {[r EXCEPT !.served = TRUE, !.answer = PageBefore(r.from)]}
  /\ UNCHANGED <<server, comments, screen, queues, own, loads, details, sends,
                 deletes>>

\* The server takes a reply; later it tells, by an event, whether the network
\* took it too.  Or it refuses the reply at once and there is no event.
ServeSend(r) ==
  /\ r.answer = "waiting"
  /\ \/ /\ posted < MaxComments
        /\ posted' = posted + 1
        /\ socket' = socket \cup {ReplyEvent(posted + 1, r.detect, "delivered")}
        /\ sends' = (sends \ {r}) \cup {[r EXCEPT !.answer = "done"]}
     \/ /\ socket' = socket \cup {ReplyEvent(0, r.detect, "failed")}
        /\ sends' = (sends \ {r}) \cup {[r EXCEPT !.answer = "done"]}
        /\ UNCHANGED posted
     \/ /\ sends' = (sends \ {r}) \cup {[r EXCEPT !.answer = "refused"]}
        /\ UNCHANGED <<posted, socket>>
  /\ UNCHANGED <<deleted, faults, comments, screen, queues, own, loads, details,
                 pages, deletes>>

ServeDelete(r) ==
  /\ r.answer = "waiting"
  /\ r.id \notin deleted
  /\ deleted' = deleted \cup {r.id}
  /\ socket' = socket \cup {DeleteEvent(r.id)}
  /\ deletes' = (deletes \ {r}) \cup {[r EXCEPT !.answer = "done"]}
  /\ UNCHANGED <<posted, faults, comments, screen, queues, own, loads, details,
                 pages, sends>>

-----------------------------------------------------------------------------
(* Socket events.                                                          *)

Ids(items) == {items[i].id : i \in DOMAIN items} \ {0}
ItemOf(id) == [id |-> id, detect |-> 0, status |-> "delivered"]
Items(data) == [i \in DOMAIN data |-> ItemOf(data[i])]
Indices(items, d) == {i \in DOMAIN items : items[i].detect = d /\ d # 0}

\* What a handler changes.
Now == [tree |-> tree, details |-> details]

\* getCommentFB up to its await.
GetCommentFB(l, id, s) ==
  IF id \in Ids(s.tree) THEN s
  ELSE [s EXCEPT !.details = @ \cup {[listener |-> l, id |-> id, gen |-> gen,
                                     answer |-> "waiting"]}]

\* Mutant: the status is changed only when the network took the reply.
ReplyCommentTopicDelivered(l, e, s) ==
  LET mine == Indices(s.tree, e.detect) IN
  IF mine # {}
  THEN [s EXCEPT !.tree = [i \in DOMAIN @ |->
                   IF i \in mine /\ e.id # 0
                   THEN [@[i] EXCEPT !.id = e.id, !.status = e.status]
                   ELSE @[i]]]
  ELSE IF e.id = 0 THEN s ELSE GetCommentFB(l, e.id, s)

\* What the event of a reply tells of it: its number, if the network took it.
Settled(item, e) ==
  [item EXCEPT !.id = IF e.id = 0 THEN @ ELSE e.id, !.status = e.status]

\* A reply sent from this device is found by its detect id.  Another agent's
\* is fetched; what failed for him has no number, and the handler throws.
ReplyCommentTopic(l, e, s) ==
  LET mine == Indices(s.tree, e.detect) IN
  IF mine # {}
  THEN [s EXCEPT !.tree =
          [i \in DOMAIN @ |-> IF i \in mine THEN Settled(@[i], e) ELSE @[i]]]
  ELSE IF e.id = 0 THEN s ELSE GetCommentFB(l, e.id, s)

\* Mutant: removes without looking whether the reply was found.
UpdateCommentUnfound(e, s) ==
  [s EXCEPT !.tree = IF e.id \in Ids(@)
                     THEN RemoveAt(@, SelectInSeq(@, LAMBDA item : item.id = e.id))
                     ELSE SubSeq(@, 1, Len(@) - 1)]

UpdateComment(e, s) ==
  IF e.id \in Ids(s.tree)
  THEN [s EXCEPT !.tree = RemoveAt(@, SelectInSeq(@, LAMBDA item : item.id = e.id))]
  ELSE s

\* processingDataSocket: nothing happens without a comment on the assignment.
Processed(l, e, s) ==
  IF gen = 0 THEN s
  ELSE CASE e.type = "sub"    -> GetCommentFB(l, e.id, s)
         [] e.type = "reply"  -> ReplyCommentTopic(l, e, s)
         [] e.type = "delete" -> UpdateComment(e, s)

Becomes(s) == tree' = s.tree /\ details' = s.details

\* The event is emitted: the list, and the header of the screen on display,
\* process it at once, or queue it if they still wait for events before it or for
\* the timeout of the last.
HandleSocket(e) ==
  LET listeners == {List} \cup (IF open THEN {opened} ELSE {})
      idle      == {l \in listeners : queues[l][e.type] = << >>}
  IN  /\ e \in socket
      /\ socket' = socket \ {e}
      /\ \E runs \in SUBSET idle :
           LET s == IF List \in runs THEN Processed(List, e, Now) ELSE Now IN
           /\ Becomes(IF opened \in runs \ {List} THEN Processed(opened, e, s) ELSE s)
           /\ queues' = [l \in Listeners |->
                IF l \in listeners \ runs
                THEN [queues[l] EXCEPT ![e.type] = Append(@, e)] ELSE queues[l]]
      /\ UNCHANGED <<posted, deleted, faults, gen, next, screen, own, loads, pages,
                     sends, deletes>>

\* A timeout: the next event of its queue is processed.
NextProcess(l, t) ==
  /\ queues[l][t] # << >>
  /\ queues' = [queues EXCEPT ![l][t] = Tail(@)]
  /\ Becomes(Processed(l, Head(queues[l][t]), Now))
  /\ UNCHANGED <<server, gen, next, screen, own, loads, pages, sends, deletes>>

\* Mutant: inserts without the second look.
DetailAnsweredBlind(r) ==
  /\ r.answer # "waiting"
  /\ details' = details \ {r}
  /\ tree' = IF r.gen = gen /\ r.answer = "found"
             THEN <<ItemOf(r.id)>> \o tree ELSE tree
  /\ UNCHANGED <<server, gen, next, screen, queues, own, loads, pages, sends, deletes>>

\* getCommentFB after its await looks again before it inserts.
DetailAnswered(r) ==
  /\ r.answer # "waiting"
  /\ details' = details \ {r}
  /\ tree' = IF r.gen = gen /\ r.answer = "found" /\ r.id \notin Ids(tree)
             THEN <<ItemOf(r.id)>> \o tree ELSE tree
  /\ UNCHANGED <<server, gen, next, screen, queues, own, loads, pages, sends, deletes>>

DetailFailed(r) ==
  /\ faults < MaxFaults
  /\ faults' = faults + 1
  /\ details' = details \ {r}
  /\ UNCHANGED <<posted, deleted, socket, comments, screen, queues, own, loads, pages,
                 sends, deletes>>

-----------------------------------------------------------------------------
(* The screen.                                                             *)

\* The screen is opened: it shows the comment that is there, or loads it.
Open ==
  /\ MayBegin /\ ~open /\ opened < MaxScreens
  /\ opened' = opened + 1 /\ open' = TRUE
  /\ shown' = gen /\ more' = FALSE /\ filling' = FALSE
  /\ loads' = IF gen # 0 THEN loads
              ELSE loads \cup {[screen |-> opened + 1, served |-> FALSE,
                                answer |-> NoPage]}
  /\ UNCHANGED <<server, comments, queues, own, details, pages, sends, deletes>>

\* The header clears the last of its timeouts: one queue stops, unless nothing
\* waits in it, the others are processed to their end.  (The header also leaves
\* by itself, when an event deletes the comment.)
Leave ==
  LET waiting == {t \in Types : queues[opened][t] # << >>} IN
  /\ open
  /\ open' = FALSE /\ shown' = 0 /\ more' = FALSE /\ filling' = FALSE
  /\ \/ UNCHANGED queues
     \/ \E t \in waiting : queues' = [queues EXCEPT ![opened][t] = << >>]
  /\ UNCHANGED <<server, comments, opened, requests>>

\* getComments hangs the comment on the assignment, over what another load
\* may have put there.
CommentsLoaded(r) ==
  LET mine == open /\ r.screen = opened IN
  /\ r.served
  /\ loads' = loads \ {r}
  /\ gen' = gen + 1
  /\ tree' = Items(r.answer.data) /\ next' = r.answer.next
  /\ more' = (more \/ (mine /\ r.answer.next # 0))
  /\ filling' = (filling \/ mine)
  /\ UNCHANGED <<server, opened, open, shown, queues, own, details, pages, sends,
                 deletes>>

LoadFailed(r) ==
  /\ faults < MaxFaults
  /\ faults' = faults + 1
  /\ loads' = loads \ {r}
  /\ UNCHANGED <<posted, deleted, socket, comments, screen, queues, own, details,
                 pages, sends, deletes>>

\* initData has the post too and shows the comment of the assignment.
InitData ==
  /\ filling
  /\ filling' = FALSE /\ shown' = gen
  /\ UNCHANGED <<server, comments, opened, open, more, queues, requests>>

PostFailed ==
  /\ filling /\ faults < MaxFaults
  /\ filling' = FALSE /\ shown' = 0 /\ faults' = faults + 1
  /\ UNCHANGED <<posted, deleted, socket, comments, opened, open, more, queues,
                 requests>>

GetMoreSubComments ==
  /\ MayBegin /\ open /\ more
  /\ more' = FALSE
  /\ pages' = IF next = 0 THEN pages
              ELSE pages \cup {[screen |-> opened, gen |-> gen, from |-> next,
                                served |-> FALSE, answer |-> NoPage]}
  /\ UNCHANGED <<server, comments, opened, open, shown, filling, queues, own, loads,
                 details, sends, deletes>>

\* The page is added to the comment it was asked for, without a look.
PageAnswered(r) ==
  /\ r.served
  /\ pages' = pages \ {r}
  /\ more' = (more \/ (open /\ r.screen = opened /\ r.answer.next # 0))
  /\ IF r.gen = gen
     THEN /\ tree' = tree \o Items(r.answer.data)
          /\ next' = r.answer.next
     ELSE UNCHANGED <<tree, next>>
  /\ UNCHANGED <<server, gen, opened, open, shown, filling, queues, own, loads,
                 details, sends, deletes>>

PageFailed(r) ==
  /\ faults < MaxFaults
  /\ faults' = faults + 1
  /\ pages' = pages \ {r}
  /\ UNCHANGED <<posted, deleted, socket, comments, screen, queues, own, loads, details,
                 sends, deletes>>

\* The input is disabled after a load or a post that failed.
InputEnabled == open /\ (shown # 0 \/ filling \/ \E r \in loads : r.screen = opened)

\* Mutant: sends before the comment is loaded.
HandleSendCommentUnchecked ==
  /\ MayBegin /\ InputEnabled /\ own < MaxOwn
  /\ own' = own + 1
  /\ tree' = <<[id |-> 0, detect |-> own + 1, status |-> "sending"]>> \o tree
  /\ sends' = sends \cup {[detect |-> own + 1, answer |-> "waiting"]}
  /\ UNCHANGED <<server, gen, next, screen, queues, loads, details, pages, deletes>>

HandleSendComment ==
  /\ MayBegin /\ InputEnabled /\ gen # 0 /\ own < MaxOwn
  /\ own' = own + 1
  /\ tree' = <<[id |-> 0, detect |-> own + 1, status |-> "sending"]>> \o tree
  /\ sends' = sends \cup {[detect |-> own + 1, answer |-> "waiting"]}
  /\ UNCHANGED <<server, gen, next, screen, queues, loads, details, pages, deletes>>

WithStatus(d, st) ==
  [i \in DOMAIN tree |-> IF tree[i].detect = d THEN [tree[i] EXCEPT !.status = st]
                         ELSE tree[i]]

\* The answer says no more than that the server has the reply; the status
\* waits for the event.
SendAnswered(r) ==
  /\ r.answer # "waiting"
  /\ sends' = sends \ {r}
  /\ tree' = IF r.answer = "done" THEN tree ELSE WithStatus(r.detect, "failed")
  /\ UNCHANGED <<server, gen, next, screen, queues, own, loads, details, pages,
                 deletes>>

SendFailed(r) ==
  /\ faults < MaxFaults
  /\ faults' = faults + 1
  /\ sends' = sends \ {r}
  /\ tree' = WithStatus(r.detect, "failed")
  /\ UNCHANGED <<posted, deleted, socket, gen, next, screen, queues, own, loads,
                 details, pages, deletes>>

\* The agent deletes a reply of the comment on display.  (On a comment that is
\* no longer the assignment's it shows only at the server: DeleteElsewhere.)
DeleteComment(i) ==
  /\ MayBegin /\ open /\ shown = gen /\ i \in DOMAIN tree
  /\ tree[i].status = "delivered" /\ tree[i].id # 0
  /\ deletes' = deletes \cup {[id |-> tree[i].id, gen |-> gen, answer |-> "waiting"]}
  /\ UNCHANGED <<server, comments, screen, queues, own, loads, details, pages, sends>>

\* The replies but those with this number, in the order they are in.
Without(items, id) ==
  LET kept == InOrder({i \in DOMAIN items : items[i].id # id})
  IN  [i \in DOMAIN kept |-> items[kept[i]]]

DeleteAnswered(r) ==
  /\ r.answer = "done"
  /\ deletes' = deletes \ {r}
  /\ tree' = IF r.gen = gen THEN Without(tree, r.id) ELSE tree
  /\ UNCHANGED <<server, gen, next, screen, queues, own, loads, details, pages, sends>>

\* Somebody else was first, or the request or its answer is lost.
DeleteFailed(r) ==
  /\ \/ r.answer = "waiting" /\ r.id \in deleted /\ UNCHANGED faults
     \/ faults < MaxFaults /\ faults' = faults + 1
  /\ deletes' = deletes \ {r}
  /\ UNCHANGED <<posted, deleted, socket, comments, screen, queues, own, loads, details,
                 pages, sends>>

-----------------------------------------------------------------------------
Server ==
  \/ Post
  \/ \E id \in 1..MaxComments : DeleteElsewhere(id)
  \/ \E r \in loads : ServeLoad(r)
  \/ \E r \in details : ServeDetail(r)
  \/ \E r \in pages : ServePage(r)
  \/ \E r \in sends : ServeSend(r)
  \/ \E r \in deletes : ServeDelete(r)

Client ==
  \/ \E e \in socket : HandleSocket(e)
  \/ \E l \in Listeners, t \in Types : NextProcess(l, t)
  \/ \E r \in details : DetailAnswered(r) \/ DetailFailed(r)
  \/ Open \/ Leave
  \/ \E r \in loads : CommentsLoaded(r) \/ LoadFailed(r)
  \/ InitData \/ PostFailed
  \/ GetMoreSubComments
  \/ \E r \in pages : PageAnswered(r) \/ PageFailed(r)
  \/ HandleSendComment
  \/ \E r \in sends : SendAnswered(r) \/ SendFailed(r)
  \/ \E i \in DOMAIN tree : DeleteComment(i)
  \/ \E r \in deletes : DeleteAnswered(r) \/ DeleteFailed(r)

Next == Server \/ Client

Spec == Init /\ [][Next]_vars

-----------------------------------------------------------------------------
(* Properties.                                                             *)

TypeOK ==
  /\ posted \in Id /\ deleted \subseteq 1..posted
  /\ socket \subseteq Event /\ faults \in 0..MaxFaults
  /\ gen \in 0..MaxScreens /\ tree \in Seq(Item) /\ next \in Id
  /\ gen = 0 => tree = << >>
  /\ opened \in 0..MaxScreens /\ open \in BOOLEAN /\ shown \in 0..gen
  /\ more \in BOOLEAN /\ filling \in BOOLEAN /\ own \in Detect
  /\ queues \in [Listeners -> [Types -> Seq(Event)]]
  /\ loads \subseteq Load /\ details \subseteq Detail /\ pages \subseteq More
  /\ sends \subseteq Sent /\ deletes \subseteq Deletion

\* No reply comes to be shown twice, although the list and the header both fetch
\* it and it may have come with a page meanwhile (the second look of
\* getCommentFB), except by a further page, which is added without a look.
Repeats(items) ==
  \E i, j \in DOMAIN items : i # j /\ items[i].id # 0 /\ items[i].id = items[j].id
EachOnce == [][~Repeats(tree) /\ Repeats(tree') => pages' # pages]_vars

\* A reply that is shown, or that an event made somebody fetch, stays so until it
\* is deleted at the server or its details cannot be fetched: no deletion, page
\* or event of another reply takes it away.
Known(id) ==
  id \in Ids(tree) \/ \E r \in details : r.id = id /\ r.gen = gen /\ r.answer # "gone"
NothingVanishes ==
  [][\A id \in 1..MaxComments :
       Known(id) /\ gen' = gen => Known(id)' \/ id \in deleted' \/ faults' # faults]_vars

\* A reply of the agent that is shown as being sent is on its way: the server has
\* not answered, or it has to tell what the network said, or the list has the event
\* in its queue, whatever the header and the screens did meanwhile.
Sending(d) == \E i \in DOMAIN tree : tree[i].detect = d /\ tree[i].status = "sending"
About(d, events) == \E e \in events : e.detect = d
OwnIsUnderWay ==
  \A d \in 1..MaxOwn : Sending(d) =>
    \/ \E r \in sends : r.detect = d
    \/ About(d, socket)
    \/ About(d, Range(queues[List]["reply"]))

=============================================================================
