# Verification of the Mobio social application

The repository is a React Native application for agents who answer customers of
several social networks, and its iOS host, which adds a call centre (CallKit,
PushKit and the Stringee SDK). This directory holds TLA+ models of its core
logic, the TLC runs that check them and the theorems TLAPS proves about them.

## Inventory

| Component | Source | State it keeps | Operations |
|---|---|---|---|
| Call manager | `ios/Mobio_App/CallCenter/CallManager.m`, `CallKitCall.m` | `call` (id, StringeeCall, uuid, answered, answerAction, audioIsActived), `rejected` | VoIP push, incoming call, answer / reject / hangup, CallKit actions, audio session callbacks, completions |
| Calling screen | `CallCenter/CallingVC/CallingViewController.m`, `InstanceManager.m` | signalling state, talk timer, timeout timer, presented or not; the *current* screen | present, signal, buttons, 90 s timeout, close |
| Stringee connection | `CallCenter/StringeeImplement.m`, `RNCallCenter.m`, `CallUtils.m` | connected, access token, device token, `hasRegisteredToReceivePush` | connect, renew token, register for push, clear |
| Notifications | `AppDelegate.m`, `PushNotification/RNPushNotification.m`, `ios/NotificationService` | pending notification | forward to JavaScript |
| Tab summaries | `src/screens/Home.tsx`, `ChatMain/index.tsx` | badges, is-call / is-recall flags, intervals | socket event, interval, request and answer |
| Assignment list | `src/screens/ChatMain/List/index.tsx` | the list, one queue of socket events per type, `acceptHandlerSocket` | load, filter, socket event, process, revoke, sort |
| Conversation | `ChatMain/Detail/Message/Message.tsx`, `common/SocialUtils.tsx` | messages with status, paging tokens, loading flag | load, search, send, resend, socket event |
| Comments | `Detail/Comment/FacebookMain.tsx`, `InstagramMain.tsx`, `Share/Comment.tsx` | comments, paging, loading flag | load, reply, delete, hide, like, socket event |
| Detail header | `Share/Header.tsx` | socket queues, profile, tags | notification, socket event, revoke, resolve |
| Filter, search, tags, forward, history, modals | `src/screens/*` | forms | one request each |
| Shared library | `mo-app-common`, `mo-app-comp`, `mo-app-layout` | not in the repository | services, sockets, list view |

`ios/Pods`, `_ios` (an older copy of the host), assets and generated projects
are not components. The repository has no tests; its documentation is its
comments, mostly in Vietnamese.

**How they interact.** The server announces a call twice: by a VoIP push
(PushKit → `AppDelegate` → `CallManager`) and, once the SDK is connected, by a
`StringeeCall` (`StringeeImplement` → `CallManager`). The manager reports it to
CallKit and shows a `CallingViewController`. From then on CallKit calls the
manager (answer, end, audio session), Stringee calls the screen (signalling
states), the agent taps either of two user interfaces, two timers run, and
everything one party does to another is completed later by a callback. The
callbacks find their object through two global variables, `CallManager.call` and
`InstanceManager.callingViewController`. On the JavaScript side a socket event
is emitted to every screen that listens; each screen has its own copy of the
assignment and its own queues and flags.

**What is hard.** Callbacks that address *the* call or *the* screen and arrive
when there is another one; an answer that needs two callbacks in either order;
a close that runs three seconds later; flags consumed by the wrong event; socket
events applied out of order or dropped while a page loads; state read before an
`await` and written after it; preferences that outlive the process and the
account. `PROJECT.json` lists these hazards by line with the properties that
cover them, or says why none does.

**What makes each component correct.** Call manager and screen: no call is
answered without the agent and the audio session; a screen always ends; a
notification says *missed* only of a missed call; CallKit and the application
agree on which calls exist. Connection: after a login the device is registered
for the pushes of that account. Tab summaries: the badge catches up with the
last event, hidden lists are reloaded. List: it converges to what the server
says as far as the order of events is kept. Conversation: the messages on display follow
each other, and a page can always be asked for. Comments: each reply once, none
lost, none left as being sent.

## Modules

| Module | What it is |
|---|---|
| `CallCenter.tla` | call manager, calling screen and CallKit record, with the parties that call them back |
| `MCCallCenter.tla` | its instances for TLC |
| `CallCenter_proofs.tla` | theorems about it that hold with overlapping calls |
| `CallCenterCalls_proofs.tla` | theorems about calls that follow each other, and about answers |
| `StringeeConnection.tla`, `MCStringeeConnection.tla` | connection of an account and registration of the device; instances |
| `StringeeConnection_proofs.tla` | theorems about it |
| `TabSummary.tla`, `MCTabSummary.tla` | badges of the tabs and features, reload marks; instances |
| `LaggingCopy.tla` | what a screen promises that shows numbers of a server; `TabSummary` implements it |
| `TabSummary_proofs.tla` | theorems about it, the refinement among them |
| `ListSocket.tla`, `MCListSocket.tla` | the list of a feature, its socket queues and loads; instances |
| `ListSocket_proofs.tla` | theorems about it |
| `Conversation.tla`, `MCConversation.tla` | the pages of a conversation and of a search in it; instances |
| `Conversation_proofs.tla` | theorems about it |
| `Comments.tla`, `MCComments.tla` | the replies to a comment, as two listeners and a screen edit them; instance |
| `Comments_proofs.tla` | theorems about it |

The modules overlap where one component calls another, and each takes the other's
calls as steps that may happen at any time. `TabSummary` keeps of `handerFilter`,
`removeAssignment` and `assignSocket` only that they ask for the count again,
`ListSocket` what they do to the list. `CallCenter` has the pushes and calls that
a registered device gets, `StringeeConnection` how it comes to be registered.
`Comments` composes the queues of the list with those of the header over the
replies they share, and keeps of a queue only what is not processed yet.

### CallCenter

*Correspondence.* One action per handler, block or completion, named after the
method; the few names of our own are `MainSignal` (the block
`didChangeSignalingState:` gives to the main queue), `Present` and `Close` (the
blocks given to `dispatch_after`), and the completions `ReportCompleted`,
`EndingCompleted`, `AnswerCompleted`, `MakeCompleted`, `DismissCompleted`.
`call` is `CallManager.call`, `cur` is `InstanceManager.callingViewController`,
`vc[c]` is the screen of the Stringee call `c`: whether it is on display
(`shown`), its closing was decided (`closed`), the state it stored (`sig`), and
its two timers. A Stringee call and its screen are one identity because
`initWithParams:` makes at most one screen for each.

*Concurrency.* All handlers run on the main thread except the SDK's; a handler is
atomic and what it gives away stays in the state. `mainq` is the main dispatch
queue, first in first out. `delayed` holds `dispatch_after` blocks, which run at
any later moment: the model does not assume that 0.1 s is shorter than anything,
except that the block of a presentation runs before the block of a close, three
seconds, made later. `reports`, `actions` and `req` are what CallKit and
Stringee still owe; they are answered in any order, or never.

*Data.* Phone numbers, names, titles and sounds are left out. `Busy` and `Ended`
are both `over` in the SDK's state, but stay apart in the signal the main queue
carries, as the code treats them differently.

*Environment.* `Features` names what an instance allows: `push` (VoIP pushes,
possibly late), `background` (a call may end while the application is not
active), `elsewhere` (another device takes or refuses the call), `timeout`,
`interruption` (the system takes the audio session in the middle of a call),
`refusal` (CallKit refuses a report or a start) and `overlap` (a call may start
while something of an earlier one is left to do). CallKit is modelled from how
the code uses it: it performs an action only if its call is in a state for it,
activates the session after a call is put through, and ends a call whose answer
action is not fulfilled in time. Stringee is taken to answer only a call that is
still live. For a call announced by push, CallKit's ringing and the block that
shows the screen are one step, though the block goes through the main queue
(`CallManager.m:85`).

*A screen that may stay.* A close that runs before the 0.1 s presentation, or one
decided when another screen is current or none, dismisses nothing
(`CallingViewController.m:607-622`): the screen comes on display, or stays there,
when nothing is left that would remove it. The model reaches this; no comment
promises otherwise. So `ScreenSettles` says that a screen makes room,
`OpenScreenLeaves` that one whose closing was not decided before it came on
display leaves it, and `DisplayedScreenEnds` speaks of the current screen.

*Bounds.* `Incoming`, `Outgoing`, `Uuids`: each call happens once. `MaxLive`:
how many incoming calls ring or talk at once. `MaxQueue` bounds the main queue,
in the guards of the actions that feed it from outside; blocks that blocks add
are never held back. `MaxBacklog` (a state constraint of the run `overlap` only)
bounds what the application waits for at once.

### TabSummary

*Correspondence.* `isCall`, `isReCall` are the two flags of Home's
`checkSummarySocial`; `isCallTabCount`, `isReCallTabCount`, `filter`, `loaded`
(`contentLoaded`) are fields of a feature; `needReload` and `selected` of a tab.
`summaryCalls` and `countCalls` are requests in flight, first without an answer,
then with the revision of the server they were answered at. One event of the
socket reaches Home and every mounted ChatMain in one action, because
`DeviceEventEmitter.emit` calls all listeners before it returns.
`CheckSummarySocial` is the tick of the interval with the call it makes; a tick
that finds no reassign times sets the flag it has just cleared and is a stutter.

*Data.* A count is the revision it was taken at, so that "the badge is right"
and "the badge goes back" can be said; the arithmetic of counts is the server's.

*Environment.* The server changes counts (`Change`), the socket delivers in any
order across features, is lost with what it carries (`Disconnect`), and comes
back. A request is answered or fails. `lost`, `lostSummary` and `owed` are
history variables: what nobody will ask for any more, and which lists missed
events.

### ListSocket

*Correspondence.* `queues` holds the arrays of `dataSocketContainer`, indexed by
socket type and by the filter under which they were made, because an array that
`handerFilter` drops is still reachable from its timeout; `timers` counts those
timeouts and `timeOutNextProcess` is the one the code remembers.
`ProcessingDataSocket` is the method, with the array its caller has changed as a
parameter; `HandlerSocket` and `NextProcess` are its two callers. `processed` is a
history variable, the numbers of the events each array has processed.

*Data.* An assignment is its status, a filter the statuses it accepts. The
twenty-odd socket types are five kinds, by what they do to the list: `new`
(messages, comments, ratings, replies: `pushAssignments`), `assign`, `revoke`,
`resolved`, and `tag` (`updateUserAssignsSocket`, which asks the server). Types
that only change what an item shows are left out. A team is told apart by
whether the agent is a member of it. `malformed` marks a body whose handler
throws. The list is one page, and the sort order's cache is read at once.

*Environment.* `validAssignmentWithFilter`, `mergeAssignment`, the list view and
the server are not in the repository. The list view is taken to empty itself
when a load is completed. An assignment that expires is taken back by the server
without an event; only `autoRevoke` notices, unless the filter screen was opened
(`ignoreRevoke`). A load fails with an answer that has no data, or is rejected:
then nobody catches it and the list stays as it is, deaf if it was waiting for
that load.

*Bounds.* `MaxChanges`, `MaxFilters`, `MaxFailures` bound what the server, the
agent and the network do; `Pace`, `Ordered`, `Expiry`, `Assignees` say which
environment an instance has.

### StringeeConnection

*Correspondence.* `accessToken`, `registeredToken` and `hasRegisteredToReceivePush`
are the three preferences; `client` is `stringeeClient` with `hasConnected`;
`blocks` counts what `didConnect:` gave to the main queue. A request is in
`requests` from the call to the end of its completion. The completion of a
registration stores the token and then the flag, in two steps
(`RegisterCompleted`, `FlagStored`), so that a process may die between them.
`clear` reads the device token, wipes the preferences and disconnects in the
completion of the unregistration, or at once if there is nothing to unregister.

*Environment.* JavaScript logs an account in (a token and `initAndConnect`) and
out, and renews or removes the token. The server serves the requests of a
connection in order and may refuse one; a connection may be lost, a token expire,
the process die and start again (`Restart`: the preferences stay, everything else
is gone). `MaxFaults` bounds the failures. In the runs PushKit gives the device
one token. `CleanLogout` says that JavaScript logs an account in, or out, only
when no request, block or connecting is under way; nothing in the code makes it
wait, which is finding 3. It restrains nothing else: connections are lost, come
back, and PushKit calls at any moment.

*History.* Even with `CleanLogout`, a connection that is lost after `clear` and
before the disconnection it leads to comes back, finds the wiped flag and
registers the account that has logged out (`StringeeImplement.m:77-90, 106`);
a PushKit token in that time does the same (`AppDelegate.m:126`). If the
completion comes before the next login, the next account inherits the flag and
the token; the server goes on delivering the pushes of the former one. Two
variables record this and nothing else reads them: `unsure`, the accounts a
request of which failed, was lost or was made after their logout, and `late`, that
a registration was stored while nobody was logged in. The properties exempt
exactly these.

### Conversation

*Correspondence.* `conversations`, `query`, `loadingContent`, `keySearch`, the two
tokens of a search: fields of the assignment, so they outlive the screen.
`hasSearch` is the state of the screen. `Ask` is `loadData` and
`searchMessageOfConversation` up to their await, `PageAnswered` and
`SearchAnswered` what follows it; they read the query of the moment. What opening
the screen and `handleAppStateChange` reset is the header's code.

*Data.* A message is its number at the server, a conversation the sequence of the
numbers loaded, newest first; a token is the number a page ended with, `None` if
undefined, `End` for the string the server ends with.

*Environment.* The list view and the server are external. The list asks for a page
once it was told to (`fetchDue`) or scrolled to an end. `disturbed` is a history
variable: the agent turned round in a search while a page was on its way,
something was reset with a page on its way, the agent scrolled in a search bar
without a text, or left the screen while searching. After any of these the code
may put a page where it does not belong, and does nothing about it later.

### Comments

*Correspondence.* `tree` is `comments.data` of the comment that hangs on the
assignment, `next` its paging, `gen` counts the comments hung there one after the
other: a request that holds an earlier one is answered into what nobody shows.
`shown`, `more`, `filling` belong to the screen on display. The list (listener 0)
and the header of each screen have queues of their own, which are processed one
after the other on the same replies. `loads`, `details`, `pages`, `sends` and
`deletes` are the requests at their awaits. A header that is left clears the last
of its timeouts: one of its queues stops, or none if nothing waits in that one, and
the others are processed to their end. It also leaves by itself when an event
deletes the comment (`Header.tsx:496-501`), which is a leaving like any other.

*Data.* A reply is its number at the server, 0 as long as the server has not told
it, its detect id, 0 for what this device did not send, and its status: failures
are one. A queue holds the events not yet processed; whether the 150 ms after an
event are over when the next comes is left open, so that an event of an empty
queue may be processed at once or wait.

*Environment.* The Graph API's pages are newest first. The server takes a reply
and tells later by an event what the network did, or refuses it; it tells of every
deletion and of every reply. The socket is up, and its events come in any order.
Every reply event is taken to carry a detect id (otherwise `SocialUtils.tsx:800`
takes the first reply that has none) and `attachments` (otherwise 802 throws),
`sendComment` to return nothing when it fails, rather than being rejected
(`FacebookMain.tsx:529` has no catch), and the list of assignments to be mounted
and to have the assignment.
`MaxUnderWay` bounds the events and requests under way when something new begins;
what follows from them is never held back.

## Runs

Deadlock is not checked: an instance stops when its calls, changes or faults are
used up.

| Run | Instance | Checks | Shows |
|---|---|---|---|
| `one` | 1 incoming call, 2 uuids, a main queue of 2; push, timeout, elsewhere; `FairSpec` | `TypeOK`, `MissedNeverTalked`, `TalkingIsAnswered`, `OpenScreenIsCurrent`, `RejectedIsNotMissed`, `AnsweredOnce`, `ScreenSettles`, `OpenScreenLeaves` | one call from push or SDK to its end, every interleaving; its screen makes room and, once open, leaves the display, or counts a talk |
| `overlap` | 2 incoming calls at once, 2 uuids; background | `AnsweredWithConsent`, `MissedIsOver`, `DisplayedScreenEnds`, `AnswersWithAudio` | what holds even when callbacks of two calls mix |
| `outgoing` | 1 incoming, 1 outgoing, in sequence; refusal, timeout, interruption, background | `AudioIsTheSystems`, `TalkingIsAnswered` | failures of CallKit and Stringee, loss of the audio session |
| `adopts` | 2 incoming calls at once | `UpdatesItsOwnCall` is violated | finding 1 |
| `orphan` | 1 incoming call | `NoOrphan` is violated | finding 2 |
| `faults` | 2 tabs, 1 feature, 2 filters, 2 changes, 1 fault; `FairSpec` | `TypeOK`, `StaleCountIsAskedFor`, `StaleSummaryIsAskedFor`, `OwedReloadIsMarked`, `BadgesLag`, `CatchUp` | no event is forgotten between a request and its answer, badges never go back and catch up, lists that missed events are reloaded sooner or later |
| `sync` | 2 assignments, 4 types, 4 kinds of assignee, 4 changes of one type at a time (the team's aside), 1 new filter | `TypeOK`, `InSync` | the list converges; a late event of a team removes nothing |
| `queues` | 1 assignment, 2 types (`tag`, `new`), 3 changes, throwing handlers, 1 new filter, 1 failure; `FairSpec` | `ProcessedInOrder`, `IgnoresWhileLoading`, `DroppedIsDropped`, `QueuesDrain` | queues neither repeat, reorder nor stop; a dropped one gets nothing more and never starts again; the list is not left deaf |
| `connection` | 2 accounts, 3 access tokens, 3 logins, 2 faults, logins and logouts that wait; `FairSpec` | `TypeOK`, `RegisteredIsSubscribed`, `PushesFollowLogin`, `ConnectedAsLoggedIn`, `ConnectedIsSubscribed`, `LoginRegisters` | flag, server and login agree across crashes, refusals and lost connections |
| `relogin` | 2 accounts, 2 logins, no faults | `ConnectedIsSubscribed` is violated | finding 3 |
| `conversation` | pages of 1, 3 messages, 1 text, 2 requests, 1 fault | `TypeOK`, `Contiguous`, `LoadingHasRequest`, `NeverStranded` | what is on display has no gap until something disturbs a page, and a page can be asked for again |
| `comments` | pages of 1, 2 replies, 1 of them sent from here, 2 screens, 1 fault | `TypeOK`, `OwnIsUnderWay`, `EachOnce`, `NothingVanishes` | two listeners, a screen and their requests edit one array of replies |

*Bounds of the call-centre runs.* Two identities are the least at which a uuid, a
call or a screen can be confused with another, and the code keeps one global
call and one global screen, so a third call meets no state that the second
cannot. In `one` the main queue has room for two blocks from outside, so that the
timeout fires, or the block of an end is queued, while the block of an answer,
of another end or of a completion waits; `overlap` has one block from outside at a
time and two calls. The
uuids are interchangeable, and so are the incoming calls, so the instances use
symmetry, except the one that checks liveness; `sync` uses that of assignments.

*Properties that need one call at a time.* `MissedNeverTalked`,
`TalkingIsAnswered`, `OpenScreenIsCurrent` and `RejectedIsNotMissed` fail with
`overlap`: a completion addresses the current screen, a late closing block clears
the screen of the next call, and one `rejected` flag serves all calls.
`OpenScreenIsCurrent` fails even when calls follow each other, if they can time
out: a screen that the 0.1-second block presents after its call was ended keeps
its timeout, which later ends the next call and forgets its screen.
`AnsweredOnce` fails with `interruption`: every activation of the session
answers again (`CallManager.m:607-614`). Nothing in the repository promises
otherwise, so these are stated here and as hazards, not as findings.

*Bounds of the connection.* Two accounts, the least that can be taken for each
other; three logins let the first come back; a second token of one account shows
a renewal. Two faults let one hit what another has left.

*Bounds of the JavaScript runs.* The flags of one feature do not depend on
another's, so one feature with two filters shows every interleaving of its
interval, events and answers; two changes are an event before or during a
request and one after; the second tab hides the first. Tabs with several features,
and one code in several tabs, are covered by the theorems only. In `sync` three
changes of a type fill a queue (one processed, one waiting, one arriving), and
the fourth is the least with which a queue that a new filter does not stop could
go on beside another; the new filter and the first load make two loads in flight.
In `queues` one new filter drops two queues and clears the timeout of one: the
other goes on beside its successor, and three changes let both hold events and
one be still to come; the two generations of loads overtake each other. One
assignment is enough where order matters (`queues`), two where the list is compared. A conversation of three
messages in pages of one has a page at either end of a match; two requests are
the least that interfere. Two replies, one on the first page and one on the
second, and two screens are the least for a reply that comes twice, a screen that
is left with requests on their way and a comment that replaces another.

*What is not promised.* `OwedReloadIsMarked` is false of a tab with two features:
coming back from a detail screen clears the mark for both (`List/index.tsx:667`).
`InSync` is false when events of two types overlap (the team's aside), when
two loads overtake each other, when `updateUserAssignsSocket` is answered after
a new filter, under a filter of more than the agent's own assignments, where a
revoke removes what still matches, and when `handerFilter`, which clears the last
timeout only, leaves a queue ticking whose events are older than the new load.
`Pace = "typed"` excludes the first and the last of these. It also excludes a
change between the server's answer to a load and its arrival, whose event the list
drops (`List/index.tsx:351`). A dropped queue of another type goes on with the
events it has, because `handerFilter` clears one timeout, and may process one after
a later event of its successor: `ProcessedInOrder` orders the events of one queue,
and by the queue that was current when they came, not the moments of two queues.
`IgnoresWhileLoading` exempts failures: a rejected load leaves the list deaf.
`Contiguous` is said up to `disturbed`, and `EachOnce` exempts the further page,
which is added without a look (`FacebookMain.tsx:340`). `NothingVanishes` speaks
of one comment: a second load puts another in its place with what the server
returns. No comment of the code claims these, so they are hazards, not findings.

*Fairness.* `FairSpec` of `CallCenter` assumes that the main queue is drained, that
`dispatch_after` blocks run and that the repeating `NSTimer` of the timeout
fires: that is the main thread of a running application. It assumes nothing of
the agent, the server, CallKit or any completion; `ScreenSettles` and
`OpenScreenLeaves` rest on the 90-second timeout and on the three-second close
alone. `FairSpec` of `TabSummary` assumes that intervals tick, that a live socket
delivers and that a request is answered or fails; that of `ListSocket` the same,
and that timeouts fire. Both are what the JavaScript runtime does for a running
application; the agent, the loss of connections and the changes of the server
are not fair. The part of `CatchUp` about the marks of the tabs is said from the
time the configuration of the pages is there, which nothing guarantees. `FairSpec`
of `StringeeConnection` assumes that JavaScript connects after a login, that the
server answers a connection and a request, and that the main queue and the
completions run; logins, renewals, faults and PushKit are not fair, and
`LoginRegisters` exempts what they prevent. `Conversation` and `Comments` state
no liveness.

*The abstract specification.* `LaggingCopy` says what a screen promises that shows
numbers of a server: each is one the server had, and is only replaced by one that
is not older. `BadgesLag` states that `TabSummary` implements it twice, with the
badges refreshed one feature at a time and with the marks of all tabs refreshed
together, under the mappings `Badges` and `Marks`. It rests on the flags that keep
one request in flight; without them two answers may overtake each other.

### Findings

1. `adopts`: a second `StringeeCall` is written into the call that CallKit shows
   for the first (`CallManager.m:122-135`); the comment at 128 speaks of an
   update of *this* call, and the branch that refuses a second call is
   unreachable.
2. `orphan`: when a call ends before CallKit's completion delivers the uuid,
   `endCall` has nothing to end and the system rings on for a call the
   application has dropped (`CallingViewController.m:601-603`,
   `CallManager.m:206-215`).
3. `relogin`: the comment at `StringeeImplement.m:85` wants a device registered
   again when it connects with another account; the code asks the stored flag,
   whatever account it was set for. `clear` wipes the preferences at once and
   disconnects later. If the next account logs in meanwhile, the client stays
   connected as the first one or a late completion sets the flag, and nothing is
   registered for the account connected.

## Proofs

`CallCenter_proofs.tla`, for every set of calls and uuids and every `Features`,
from `CallCenterAssumption` alone (calls, uuids and nil are distinct; the bounds
are numbers):

| Theorem | States | Argument |
|---|---|---|
| `TypeCorrect` | `Spec => []TypeOK` | inductive; one lemma per group of actions, lemmas on the record updates |
| `SessionIsTheSystems` | `[]AudioIsTheSystems` | inductive with `TypeOK`: answering keeps `audio`, every new call has none |
| `AnswerNeedsAudio` | `AnswersWithAudio` | `AnswerOnActivation`: the only step that sends an answer is `didActivateAudioSession:`, because `performAnswerCallAction:` holds its action and `anwser:` returns after fulfilling it |
| `MissedCallsAreOver` | `[]MissedIsOver` | not inductive: `EndIsOver` says of every block in the main queue that will report a missed call that its call is over already, and `OverLasts` that over is for ever |
| `DisplayedScreensEnd` | `[]DisplayedScreenEnds` | inductive with `TypeOK`: what stops both timers of a screen queues, or is, the block that takes it off the display |

These hold with `overlap` and `interruption`. `CallCenterCalls_proofs.tla` adds
the consent, and what needs less freedom of the environment, each under the
hypothesis it is false without, and for any number of calls and uuids:

| Theorem | Hypothesis | States | Argument |
|---|---|---|---|
| `ConsentBeforeAnswer` | none | `[]AnsweredWithConsent` | `ConsentInv`, with `Ledger` (a uuid that is reported or started is still unused, and by one request only) and `BeginInv`: a call is answered by the activation of the session of an active CallKit call, and whatever ends a CallKit call takes the manager's call away |
| `CallIsAnsweredOnce` | no `interruption` | `AnsweredOnce` | `AnswerInv`: while the manager holds an incoming call that was answered, or is to be, it has the audio session and an active CallKit call, so that CallKit has no second activation to give; it uses `BeginInv`, that a call which has not begun is known to nobody |
| `RejectedNotReported` | no `overlap` | `RejectedIsNotMissed` | `SoleInv`: whatever is on its way is about the call of the moment; `RejectInv`: a rejection is remembered until the end of its call was handled |
| `TalksAreAnswered` | no `overlap` | `[]TalkingIsAnswered` | `SoleInv`; `CountInv`: a screen that counts, or was told to, is of a call that is answered, or was; `PresentInv`: Stringee has an outgoing call only once its screen was made and presented |
| `MissedWereNoTalks` | no `overlap` | `[]MissedNeverTalked` | `TalkInv`: a call talked in is not missed, its screen's state is "answered" while it lasts, and each block that will report its end carries "answered" as the state before |
| `OpenScreensAreKnown` | `OneAtATime`: one call, or no `overlap` and no `timeout` | `[]OpenScreenIsCurrent` | `SoleScreenInv`: what is left to be done with screens is about one call; `OpenInv`: what will make the manager forget the current screen comes from one that has closed |

`TabSummary_proofs.tla`, for all tabs, features, codes and filters, from
`TabAssumption`, `BoundAssumption` and `NoneAssumption` (every feature has a tab,
the bounds are numbers, `None` is none of the values it stands beside):

| Theorem | States | Argument |
|---|---|---|
| `TypeCorrect` | `Spec => []TypeOK` | inductive; lemmas on `RemoveAt` and on the request helpers |
| `CountsAreAskedFor` | `[]StaleCountIsAskedFor` | not inductive: `OneCount` says that a feature has a request in flight exactly while `isCallTabCount`, and one at most; then the answer on its way is the one the flag was cleared for (`CountCovered`) |
| `SummaryIsAskedFor` | `[]StaleSummaryIsAskedFor` | the same argument for Home's flags |
| `OwedReloadsAreMarked` | `[]OwedReloadIsMarked` | `OwedInv`: only mounted lists are owed a reload |
| `BadgesAreLaggingCopies` | `BadgesLag`: `Spec` implements `LaggingCopy` for badges and marks | initial states map to initial states; every step maps to a change, a refresh or a stutter, because `CountOrdered` says that the one answer in flight is not older than the badge, and `SummaryOrdered` the same of the marks |

`StringeeConnection_proofs.tla`, for all accounts, tokens and devices, from
`AccountAssumption`, `BoundAssumption` and `NoneAssumption`:

| Theorem | States | Argument |
|---|---|---|
| `TypeCorrect` | `Spec => []TypeOK` | inductive |
| `ConnectedAsWhoIsLoggedIn` | `CleanLogout /\ Spec => []ConnectedAsLoggedIn` | `SessionInv`: while somebody is logged in, the stored token, the client and every request are his; after a logout nothing is left but the unregistration that will disconnect and registrations made meanwhile, of accounts in `unsure` |
| `RegisteredMeansSubscribed` | `CleanLogout /\ Spec => []RegisteredIsSubscribed` | `SessionInv` too: a stored device token is one the server has subscribed, and the flag is only stored after it; what is stored while nobody is logged in makes `late` true, which the next logout ends |
| `PushesFollowWhoIsLoggedIn` | `CleanLogout`, `OneDevice`: `Spec => []PushesFollowLogin` | `PushInv`: besides, an unregistration that was answered has ended the pushes of its account, or left that account unsure; and with no token stored, a subscription of the account logged in has the completion of its registration still to come |
| `ConnectedIsRegistered` | `CleanLogout`, `OneDevice`: `Spec => []ConnectedIsSubscribed` | `AimInv`: a device that is connected is subscribed, or a block or a registration that will subscribe it is under way, or a request of the account has failed, or `late` |

`OneDevice` says that PushKit gives the device one token. With two, a registration
under way for the former one is not undone by a logout, which unregisters the last.

`Conversation_proofs.tla`, for every page size, number of messages and texts, from
`BoundAssumption` and `NoneAssumption`:

| Theorem | States | Argument |
|---|---|---|
| `TypeCorrect` | `Spec => []TypeOK` | inductive |
| `FlagHasRequest` | `[]LoadingHasRequest` | conjunct of `StrandInv` |
| `ResetIsLoaded` | `[]NeverStranded` | not inductive: `StrandInv` adds `EmptyQuery`, that an empty conversation has no query, or one without tokens, so that the next answer fills it |
| `MessagesContiguous` | `[]Contiguous` | `PagesInv`: until something disturbs, there is at most one request, it is about the query of the moment, and its token is the end of the messages its page will be added to |

`ListSocket_proofs.tla`, for all assignments, filters and bounds, from the
assumptions of the module:

| Theorem | Hypothesis | States | Argument |
|---|---|---|---|
| `TypeCorrect` | none | `Spec => []TypeOK` | inductive with `TimerInv`: a container has a timeout exactly while its head is being processed, one at most, and the container of the moment has one whenever it has an event |
| `EventsInOrder` | none | `[]ProcessedInOrder` | `QueueInv`: the numbers a queue has processed, those that wait in it and those on the socket are one increasing line (`LineInv`), and what came to a queue came before what comes to those of its type that follow it (`Generations`) |
| `DroppedStaysDropped` | none | `DroppedIsDropped` | only an event for the current queue, or a queue's own timeout, changes a queue |
| `ListensAgain` | none | `[]IgnoresWhileLoading` | inductive: `handerFilter` asks for a load as it stops listening, and whatever load is answered first makes the list listen |
| `ListConverges` | `Paced` | `[]InSync` | `SyncInv`, below |

`Paced` is the environment of the run `sync` for any number of assignments, changes
and filters: changes at the pace `"typed"`, loads answered in order, no failing
request, no throwing handler, no `tag` event, and pages of the agent's own
assignments or of none. *What `InSync` rests on.* It says something only when
nothing is on its way, so the invariant has to say what the events still due will
do. `Due` is the set of those on the socket and those waiting in a queue with a
timeout. Either one type is due (`Alone`), and then of each assignment the newest
event due tells the server's status, or none is due and the list is right
(`Late`); or everything due is for the team (`ToTheTeam`), and then whatever
order the queues take the agent's push has the last word (`Shared`). Each account
gives the other when a change starts or ends an overlap. The rest is bookkeeping:
`OrderInv`, that numbers increase from the head of a queue to the end of the
socket, so that the event processed is the oldest; `LoadsInv`, that the last load
has the filter of the feature and that the queues are empty until a load is
answered; `AnnouncedInv`, what an event of each type may say; and that a load
excuses the list until it is answered (`Settled`).

`Comments_proofs.tla`, for any page size and any number of replies, screens and
faults, from the assumptions of the module:

| Theorem | States | Argument |
|---|---|---|
| `TypeCorrect` | `Spec => []TypeOK` | inductive with `CountInv` (the loads that hung a comment and those in flight are not more than the screens opened) and `MadeInv` (every number is of a reply that was made) |
| `SendingIsUnderWay` | `[]OwnIsUnderWay` | `AwaitedInv`: the request of a reply being sent is not done, or its event is on the socket or in the list's queue |
| `NoneShownTwice` | `EachOnce` | `PlaceInv`: one number is told of a detect id and no other reply has it (`NumberInv`); a reply shown by its detect id has its number nowhere else, neither on another reply nor among those being fetched (`Apart`), and that number is newer than the pages still to come (`Newer`) |
| `NoneVanishes` | `NothingVanishes` | `PlaceInv`, and every handler takes away the reply it is about and no other |

Every invariant and every action property that a run checks is thus a theorem,
besides those the three findings refute. *Only model-checked:* liveness
(`ScreenSettles`, `OpenScreenLeaves`, `CatchUp`, `QueuesDrain`, `LoginRegisters`), which needs fairness and `ENABLED` and is out of the prover's
reach.

## Not modelled

*Call centre.* Hold, mute, DTMF, `reportAFakeCall`, `checkTokenAvailable`,
`trackedCalls` (no effect on the life of a call or never called); profile lookup,
assignment view, keypad, sounds, quality reports; `fetchAccessToken`, whose only
call is commented out. `callTapped` and `callPhoneTapped` are connected to no
button.

*Lists and tabs.* Unmounting of Home, ChatMain and the lists; further pages of a
list and its order; events that only change what an item shows.

*Conversation.* Sending and its statuses, and messages the socket pushes into an
open conversation: both rest on what `SocialService`, which is not in the
repository, makes of a socket event. The change of assignment by a notification.
`isLoadMoreBefore` is taken to be read by the load that `onListBottomEndReached`
starts.

*Comments.* Deletion of the comment itself, edits, hiding, classification, likes;
Instagram's variant, which differs in the requests it makes; which of two screens
has the update callback (what is drawn, not what is there); a socket that is lost.

*Header.* Revoke and resolve buttons, tags, the profile; its queues for events that
are not about replies.

*The rest.* Filter, search, tags, forward, history and the modals are forms over
one request each, and keep nothing; `MoFingerprint` is a stateless wrapper.

## Plan

1. Sending of messages: status against answer and socket event, as soon as what
   `SocialService` makes of an event can be read.
2. `Comments`: deletion of the comment itself, edits, a socket that is lost.
3. `CallLine`, an abstract line (idle, ringing, talking, closing) that one call
   at a time implements, as a refinement of `CallCenter`; its proof.
4. Pages of the list in `ListSocket`; pure algorithms: order of assignments.
5. Proofs: that `CallCenter` implements `CallLine`, once that is stated;
   `ListConverges` with further pages.
