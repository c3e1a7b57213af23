----------------------------- MODULE TabSummary -----------------------------
(***************************************************************************)
(* The badges of the social screen and the reloading of its lists.         *)
(*                                                                         *)
(* Home (screens/Home.tsx) shows one tab per social network and marks the  *)
(* tabs that have unanswered assignments; ChatMain (screens/ChatMain) shows *)
(* the features of a tab (messages, comments, ratings) with their counts.  *)
(* Both keep a pair of flags, "a request is in flight" and "ask again",    *)
(* set by socket events and looked at by a 2-second interval.  When the    *)
(* application comes back with its socket gone, Home reloads the lists of  *)
(* the tab on display and marks the other tabs for a later reload.         *)
(*                                                                         *)
(* A count is abstracted to the revision of the server it was taken at.    *)
(***************************************************************************)
EXTENDS Naturals, Sequences, SequencesExt

CONSTANTS
  Tabs,        \* the social networks with at least one page
  Features,    \* the features of all tabs
  TabOf,       \* feature.tabOrigin
  CodeOf,      \* feature.code: the same in several tabs
  Filters,     \* values of feature.filter
  MaxChanges,  \* bound on changes of counts and filters
  MaxFaults,   \* bound on lost connections and failed requests
  None

ASSUME TabAssumption == TabOf \in [Features -> Tabs]
ASSUME BoundAssumption == MaxChanges \in Nat /\ MaxFaults \in Nat
\* A request of a count carries the filter it was made with; rev is the
\* server's answer, None until the server has looked.
CountCall == [filter : Filters, rev : Nat \cup {None}]

ASSUME NoneAssumption == /\ None \notin Nat /\ None \notin Features
                         /\ None \notin [Features -> Nat]
                         /\ None \notin CountCall

VARIABLES
  rev,          \* the server: revision of the count of each feature
  changes,      \* changes made so far, bounded by MaxChanges
  faults,       \* faults so far, bounded by MaxFaults
  connected,    \* SocketManager.getSocket().id
  arriving,     \* socket events on their way, per feature
  times,        \* SocialService.getTimeReAssignBySocials() answers
  isCall,       \* Home.stateCallCheckSummarySocialIsCall
  isReCall,     \* Home.stateCallCheckSummarySocialIsReCall
  summaryCalls, \* requests of checkSummaryAllSocial in flight
  summary,      \* what tab.hasBadge of all tabs was computed from
  selected,     \* the tab with isSelected
  needReload,   \* tab.isNeedReloadData
  mounted,      \* tabs whose ChatMain is mounted
  loaded,       \* features with contentLoaded, whose list is mounted
  detail,       \* the feature of the detail screen on top, or None
  filter,       \* feature.filter
  isCallTabCount,
  isReCallTabCount,
  countCalls,   \* requests of getSummary in flight, per feature
  badge,        \* feature.badgeNumber: what it was computed from
  lost,         \* history: a change of this count nobody will ask for
  lostSummary,  \* history: the same for the summary
  owed          \* history: lists that missed events and were not reloaded

server == <<rev, changes, faults, connected, arriving, times>>
home   == <<isCall, isReCall, summaryCalls, summary>>
tabs   == <<selected, needReload, mounted, loaded, detail>>
counts == <<isCallTabCount, isReCallTabCount, countCalls, badge>>
vars   == <<server, home, tabs, filter, counts, lost, lostSummary, owed>>

FeaturesOf(t) == {f \in Features : TabOf[f] = t}

Init ==
  /\ rev = [f \in Features |-> 0]
  /\ changes = 0
  /\ faults = 0
  /\ connected = TRUE
  /\ arriving = [f \in Features |-> 0]
  /\ times \in BOOLEAN
  /\ isCall = times
  /\ isReCall = ~times
  /\ summaryCalls = IF times THEN <<None>> ELSE <<>>
  /\ summary = None
  /\ selected \in Tabs
  /\ needReload = [t \in Tabs |-> FALSE]
  /\ mounted = {}
  /\ loaded = {}
  /\ detail = None
  /\ filter \in [Features -> Filters]
  /\ isCallTabCount = [f \in Features |-> FALSE]
  /\ isReCallTabCount = [f \in Features |-> FALSE]
  /\ countCalls = [f \in Features |-> <<>>]
  /\ badge = [f \in Features |-> None]
  /\ lost = [f \in Features |-> FALSE]
  /\ lostSummary = FALSE
  /\ owed = [f \in Features |-> FALSE]

-----------------------------------------------------------------------------
(* What the handlers have in common.                                       *)

\* isReCallTabCount = true for the features in S: whatever was lost of
\* their counts will be asked for.
ReCount(S) ==
  /\ isReCallTabCount' = [f \in Features |-> f \in S \/ isReCallTabCount[f]]
  /\ lost' = [f \in Features |-> f \notin S /\ lost[f]]

\* specific_on_filter of the features in S, i.e. handerFilter of their lists:
\* the list is asked for again, and so is the count.
OnFilter(S) ==
  /\ ReCount(S)
  /\ owed' = [f \in Features |-> f \notin S /\ owed[f]]

ReSummarize ==
  /\ isReCall' = TRUE
  /\ lostSummary' = FALSE

\* Mutant: isCallTabCount is never set, an interval does not wait for the answer.
GetTabCountUnflagged(S) ==
  /\ UNCHANGED isCallTabCount
  /\ countCalls' = [f \in Features |->
       IF f \in S
       THEN Append(countCalls[f], [filter |-> filter[f], rev |-> None])
       ELSE countCalls[f]]

\* getTabCount of the features in S: one request at a time.
GetTabCount(S) ==
  LET asking == {f \in S : ~isCallTabCount[f]}
  IN  /\ isCallTabCount' = [f \in Features |-> f \in asking \/ isCallTabCount[f]]
      /\ countCalls' = [f \in Features |->
           IF f \in asking
           THEN Append(countCalls[f], [filter |-> filter[f], rev |-> None])
           ELSE countCalls[f]]

-----------------------------------------------------------------------------
(* The server and the socket.                                              *)

\* Somebody changes the assignments that f counts; the socket carries an
\* event, or nothing does.
Change(f) ==
  /\ changes < MaxChanges
  /\ changes' = changes + 1
  /\ rev' = [rev EXCEPT ![f] = @ + 1]
  /\ IF connected
     THEN /\ arriving' = [arriving EXCEPT ![f] = @ + 1]
          /\ UNCHANGED <<lost, lostSummary>>
     ELSE /\ lost' = [lost EXCEPT ![f] = @ \/ ~isReCallTabCount[f]]
          /\ lostSummary' = (lostSummary \/ ~isReCall)
          /\ UNCHANGED arriving
  /\ UNCHANGED <<faults, connected, times, home, tabs, filter, counts, owed>>

\* The socket is lost with the events it was carrying.
Disconnect ==
  /\ connected
  /\ faults < MaxFaults
  /\ faults' = faults + 1
  /\ connected' = FALSE
  /\ arriving' = [f \in Features |-> 0]
  /\ lost' = [f \in Features |->
       lost[f] \/ (arriving[f] > 0 /\ ~isReCallTabCount[f])]
  /\ lostSummary' = (lostSummary \/
       (~isReCall /\ \E f \in Features : arriving[f] > 0))
  /\ UNCHANGED <<rev, changes, times, home, tabs, filter, counts, owed>>

Connect ==
  /\ ~connected
  /\ connected' = TRUE
  /\ UNCHANGED <<rev, changes, faults, arriving, times, home, tabs, filter,
                 counts, lost, lostSummary, owed>>

\* The configuration of the pages, with the reassign times, is there.
LoadTimes ==
  /\ ~times
  /\ times' = TRUE
  /\ UNCHANGED <<rev, changes, faults, connected, arriving, home, tabs, filter,
                 counts, lost, lostSummary, owed>>

\* An event of SOCKET_RECALL_TAB_COUNT about f is emitted to Home and to
\* every mounted ChatMain, in one turn of the JavaScript thread.
SocketNotification(f) ==
  /\ arriving[f] > 0
  /\ arriving' = [arriving EXCEPT ![f] = @ - 1]
  /\ ReSummarize
  /\ ReCount({f} \cap {g \in Features : TabOf[g] \in mounted})
  /\ UNCHANGED <<rev, changes, faults, connected, times, isCall, summaryCalls,
                 summary, tabs, filter, isCallTabCount, countCalls, badge,
                 owed>>

-----------------------------------------------------------------------------
(* Home.                                                                   *)

\* The 2-second interval and checkSummarySocial.  Without reassign times the
\* flag is set again: nothing changes.
CheckSummarySocial ==
  /\ ~isCall /\ isReCall /\ times
  /\ isReCall' = FALSE
  /\ isCall' = TRUE
  /\ summaryCalls' = Append(summaryCalls, None)
  /\ UNCHANGED <<server, summary, tabs, filter, counts, lost, lostSummary,
                 owed>>

\* The server looks at the counts of all tabs.
AnswerSummary(i) ==
  /\ summaryCalls[i] = None
  /\ summaryCalls' = [summaryCalls EXCEPT ![i] = rev]
  /\ UNCHANGED <<server, isCall, isReCall, summary, tabs, filter, counts, lost,
                 lostSummary, owed>>

\* Mutant: the answer clears "ask again" too.
SummaryAnsweredAll(i) ==
  /\ summaryCalls[i] # None
  /\ isCall' = FALSE
  /\ isReCall' = FALSE
  /\ summary' = summaryCalls[i]
  /\ summaryCalls' = RemoveAt(summaryCalls, i)
  /\ UNCHANGED <<server, tabs, filter, counts, lost, lostSummary, owed>>

\* The answer of checkSummaryAllSocial.
SummaryAnswered(i) ==
  /\ summaryCalls[i] # None
  /\ isCall' = FALSE
  /\ summary' = summaryCalls[i]
  /\ summaryCalls' = RemoveAt(summaryCalls, i)
  /\ UNCHANGED <<server, isReCall, tabs, filter, counts, lost, lostSummary,
                 owed>>

\* The request fails or is answered without data: nobody asks again.
SummaryFailed(i) ==
  /\ faults < MaxFaults
  /\ faults' = faults + 1
  /\ isCall' = FALSE
  /\ summaryCalls' = RemoveAt(summaryCalls, i)
  /\ lostSummary' = (lostSummary \/ ~isReCall)
  /\ UNCHANGED <<rev, changes, connected, arriving, times, isReCall, summary,
                 tabs, filter, counts, lost, owed>>

\* Mutant: the tab under a detail screen is not marked.
AppActiveUnderDetail ==
  /\ ~connected
  /\ LET shown == IF detail = None THEN FeaturesOf(selected) \cap loaded ELSE {}
     IN  /\ ReCount(shown)
         /\ owed' = [f \in Features |-> f \in loaded \ shown]
  /\ needReload' = [t \in Tabs |-> needReload[t] \/ t # selected]
  /\ ReSummarize
  /\ UNCHANGED <<server, isCall, summaryCalls, summary, selected, mounted,
                 loaded, detail, filter, isCallTabCount, countCalls, badge>>

\* handleAppStateChange("active") without a socket: the lists of the tab on
\* display are reloaded, the other tabs are marked, and so is a tab without
\* features.
AppActive ==
  /\ ~connected
  /\ LET shown == IF detail = None THEN FeaturesOf(selected) \cap loaded ELSE {}
     IN  /\ ReCount(shown)
         /\ owed' = [f \in Features |-> f \in loaded \ shown]
  /\ needReload' = [t \in Tabs |->
       needReload[t] \/ t # selected \/ detail # None \/ FeaturesOf(t) = {}]
  /\ ReSummarize
  /\ UNCHANGED <<server, isCall, summaryCalls, summary, selected, mounted,
                 loaded, detail, filter, isCallTabCount, countCalls, badge>>

\* handleRecallTabCount, called when an assignment was forwarded.
HandleRecallTabCount ==
  /\ ReSummarize
  /\ UNCHANGED <<server, isCall, summaryCalls, summary, tabs, filter, counts,
                 lost, owed>>

\* onTabPressHandler of Home.  The mark of a tab without features stays.
PressTab(t) ==
  /\ detail = None
  /\ selected' = t
  /\ needReload' = [needReload EXCEPT ![t] = @ /\ FeaturesOf(t) = {}]
  /\ OnFilter(IF needReload[t] THEN FeaturesOf(t) \cap loaded ELSE {})
  /\ UNCHANGED <<server, home, mounted, loaded, detail, filter, isCallTabCount,
                 countCalls, badge, lostSummary>>

-----------------------------------------------------------------------------
(* ChatMain.                                                               *)

\* componentDidMount and startLoadCountTab of the tab on display.
Mount ==
  /\ selected \notin mounted
  /\ mounted' = mounted \cup {selected}
  /\ GetTabCount(FeaturesOf(selected))
  /\ UNCHANGED <<server, home, selected, needReload, loaded, detail, filter,
                 isReCallTabCount, badge, lost, lostSummary, owed>>

\* A feature is on display for the first time: its list is mounted and loads.
ShowFeature(f) ==
  /\ TabOf[f] = selected /\ selected \in mounted
  /\ detail = None
  /\ f \notin loaded
  /\ loaded' = loaded \cup {f}
  /\ UNCHANGED <<server, home, selected, needReload, mounted, detail, filter,
                 counts, lost, lostSummary, owed>>

\* The 2-second interval of one feature.
IntervalTabCount(f) ==
  /\ TabOf[f] \in mounted
  /\ ~isCallTabCount[f] /\ isReCallTabCount[f]
  /\ isReCallTabCount' = [isReCallTabCount EXCEPT ![f] = FALSE]
  /\ GetTabCount({f})
  /\ UNCHANGED <<server, home, tabs, filter, badge, lost, lostSummary, owed>>

\* The server counts, with the filter of the request.
AnswerCount(f, i) ==
  /\ countCalls[f][i].rev = None
  /\ countCalls' = [countCalls EXCEPT ![f][i].rev = rev[f]]
  /\ UNCHANGED <<server, home, tabs, filter, isCallTabCount, isReCallTabCount,
                 badge, lost, lostSummary, owed>>

\* Mutant: the answer clears "ask again" too.
CountAnsweredAll(f, i) ==
  /\ countCalls[f][i].rev # None
  /\ isCallTabCount' = [isCallTabCount EXCEPT ![f] = FALSE]
  /\ isReCallTabCount' = [isReCallTabCount EXCEPT ![f] = FALSE]
  /\ badge' = [badge EXCEPT ![f] = countCalls[f][i]]
  /\ countCalls' = [countCalls EXCEPT ![f] = RemoveAt(@, i)]
  /\ UNCHANGED <<server, home, tabs, filter, lost, lostSummary, owed>>

\* Mutant: the answer leaves isCallTabCount set.
CountAnsweredStillCalling(f, i) ==
  /\ countCalls[f][i].rev # None
  /\ badge' = [badge EXCEPT ![f] = countCalls[f][i]]
  /\ countCalls' = [countCalls EXCEPT ![f] = RemoveAt(@, i)]
  /\ UNCHANGED <<server, home, tabs, filter, isCallTabCount, isReCallTabCount,
                 lost, lostSummary, owed>>

\* The answer of getSummary.
CountAnswered(f, i) ==
  /\ countCalls[f][i].rev # None
  /\ isCallTabCount' = [isCallTabCount EXCEPT ![f] = FALSE]
  /\ badge' = [badge EXCEPT ![f] = countCalls[f][i]]
  /\ countCalls' = [countCalls EXCEPT ![f] = RemoveAt(@, i)]
  /\ UNCHANGED <<server, home, tabs, filter, isReCallTabCount, lost,
                 lostSummary, owed>>

\* Mutant: the code of the answer is not looked at.
CountFailedUnchecked(f, i) ==
  /\ faults < MaxFaults
  /\ faults' = faults + 1
  /\ isCallTabCount' = [isCallTabCount EXCEPT ![f] = FALSE]
  /\ badge' = [badge EXCEPT ![f] = [filter |-> None, rev |-> None]]
  /\ countCalls' = [countCalls EXCEPT ![f] = RemoveAt(@, i)]
  /\ lost' = [lost EXCEPT ![f] = @ \/ ~isReCallTabCount[f]]
  /\ UNCHANGED <<rev, changes, connected, arriving, times, home, tabs, filter,
                 isReCallTabCount, lostSummary, owed>>

\* The request fails or is answered with an error: nobody asks again.
CountFailed(f, i) ==
  /\ faults < MaxFaults
  /\ faults' = faults + 1
  /\ isCallTabCount' = [isCallTabCount EXCEPT ![f] = FALSE]
  /\ countCalls' = [countCalls EXCEPT ![f] = RemoveAt(@, i)]
  /\ lost' = [lost EXCEPT ![f] = @ \/ ~isReCallTabCount[f]]
  /\ UNCHANGED <<rev, changes, connected, arriving, times, home, tabs, filter,
                 isReCallTabCount, badge, lostSummary, owed>>

-----------------------------------------------------------------------------
(* The lists.                                                              *)

\* The filter or the search screen of f changes feature.filter and calls
\* specific_on_filter.
ApplyFilter(f, x) ==
  /\ f \in loaded /\ TabOf[f] = selected
  /\ detail = None
  /\ changes < MaxChanges
  /\ changes' = changes + 1
  /\ filter' = [filter EXCEPT ![f] = x]
  /\ OnFilter({f})
  /\ UNCHANGED <<rev, faults, connected, arriving, times, home, tabs,
                 isCallTabCount, countCalls, badge, lostSummary>>

\* An event makes the list of f remove an assignment, or an answer to a
\* customer fails: the count is asked for again.
ListChanged(f) ==
  /\ f \in loaded
  /\ ReCount({f})
  /\ UNCHANGED <<server, home, tabs, filter, isCallTabCount, countCalls, badge,
                 lostSummary, owed>>

OpenDetail(f) ==
  /\ f \in loaded /\ TabOf[f] = selected
  /\ detail = None
  /\ detail' = f
  /\ UNCHANGED <<server, home, selected, needReload, mounted, loaded, filter,
                 counts, lost, lostSummary, owed>>

\* backProcess of the detail screen and handleBackToList of every list with
\* that code; only one of them is in the tab on display.
BackToList ==
  /\ detail # None
  /\ detail' = None
  /\ LET here == {g \in loaded : /\ CodeOf[g] = CodeOf[detail]
                                 /\ TabOf[g] = selected
                                 /\ needReload[selected]}
     IN  /\ OnFilter(here)
         /\ needReload' = [needReload EXCEPT ![selected] = @ /\ here = {}]
  /\ UNCHANGED <<server, home, selected, mounted, loaded, filter,
                 isCallTabCount, countCalls, badge, lostSummary>>

-----------------------------------------------------------------------------
Environment ==
  \/ Disconnect \/ Connect \/ LoadTimes \/ AppActive \/ BackToList
  \/ Mount \/ HandleRecallTabCount
  \/ \E t \in Tabs : PressTab(t)
  \/ \E f \in Features :
       \/ Change(f) \/ ShowFeature(f) \/ ListChanged(f) \/ OpenDetail(f)
       \/ \E x \in Filters : ApplyFilter(f, x)
       \/ \E i \in DOMAIN countCalls[f] : CountFailed(f, i)
  \/ \E i \in DOMAIN summaryCalls : SummaryFailed(i)

HomeAnswers ==
  \E i \in DOMAIN summaryCalls : AnswerSummary(i) \/ SummaryAnswered(i)

CountAnswers(f) ==
  \E i \in DOMAIN countCalls[f] : AnswerCount(f, i) \/ CountAnswered(f, i)

Next ==
  \/ Environment
  \/ CheckSummarySocial
  \/ HomeAnswers
  \/ \E f \in Features :
       SocketNotification(f) \/ IntervalTabCount(f) \/ CountAnswers(f)

Spec == Init /\ [][Next]_vars

\* The intervals tick, the events of a live socket arrive and a request is
\* answered (or fails).
Fairness ==
  /\ WF_vars(CheckSummarySocial)
  /\ WF_vars(HomeAnswers)
  /\ \A f \in Features : /\ WF_vars(SocketNotification(f))
                         /\ WF_vars(IntervalTabCount(f))
                         /\ WF_vars(CountAnswers(f))

FairSpec == Spec /\ Fairness
-----------------------------------------------------------------------------
(* What the badges promise.                                                *)

TypeOK ==
  /\ rev \in [Features -> Nat]
  /\ changes \in Nat /\ faults \in Nat
  /\ connected \in BOOLEAN /\ times \in BOOLEAN
  /\ arriving \in [Features -> Nat]
  /\ isCall \in BOOLEAN /\ isReCall \in BOOLEAN
  /\ summaryCalls \in Seq([Features -> Nat] \cup {None})
  /\ summary \in [Features -> Nat] \cup {None}
  /\ selected \in Tabs
  /\ needReload \in [Tabs -> BOOLEAN]
  /\ mounted \subseteq Tabs
  /\ loaded \subseteq Features
  /\ detail \in Features \cup {None}
  /\ filter \in [Features -> Filters]
  /\ isCallTabCount \in [Features -> BOOLEAN]
  /\ isReCallTabCount \in [Features -> BOOLEAN]
  /\ countCalls \in [Features -> Seq(CountCall)]
  /\ badge \in [Features -> CountCall \cup {None}]
  /\ lost \in [Features -> BOOLEAN]
  /\ lostSummary \in BOOLEAN
  /\ owed \in [Features -> BOOLEAN]

\* What f's badge would be if it were computed now, and the same for the tabs.
Current(f) == [filter |-> filter[f], rev |-> rev[f]]
CountIsCurrent(f) == badge[f] = Current(f)
SummaryIsCurrent == summary = rev

\* A badge that is behind the server is about to be asked for: an event is on
\* its way, the flag is set, or a request is in flight whose answer is or
\* will be current.  Only an event lost with the socket, or a failed request,
\* leaves it behind for good: the flag that is cleared when a request is made
\* is set again by an event that comes while it is in flight.
StaleCountIsAskedFor ==
  \A f \in Features :
    \/ TabOf[f] \notin mounted
    \/ CountIsCurrent(f)
    \/ lost[f]
    \/ arriving[f] > 0
    \/ isReCallTabCount[f]
    \/ \E i \in DOMAIN countCalls[f] :
         /\ countCalls[f][i].filter = filter[f]
         /\ countCalls[f][i].rev \in {None, rev[f]}

\* The same for the marks of the tabs.
StaleSummaryIsAskedFor ==
  \/ SummaryIsCurrent
  \/ lostSummary
  \/ \E f \in Features : arriving[f] > 0
  \/ isReCall
  \/ \E i \in DOMAIN summaryCalls : summaryCalls[i] \in {None, rev}

\* A badge shows a count the server had, and is only replaced by one that is
\* not older; the marks of all tabs are replaced together.  Answers cannot
\* overtake each other: the interval and the check before the request let one
\* request be in flight at a time.
Badges ==
  INSTANCE LaggingCopy WITH
    Keys    <- Features,
    Batches <- {{f} : f \in Features},
    server  <- rev,
    shown   <- [f \in Features |->
                 IF badge[f] = None THEN None ELSE badge[f].rev]

Marks ==
  INSTANCE LaggingCopy WITH
    Keys    <- Features,
    Batches <- {Features},
    server  <- rev,
    shown   <- IF summary = None THEN [f \in Features |-> None] ELSE summary

BadgesLag == Badges!Spec /\ Marks!Spec

\* A list that was mounted when the application came back without its socket
\* is reloaded, or its tab is still marked for it.  It is said of the tabs
\* with one feature: with two, coming back from a detail screen reloads the
\* list of that feature and clears the mark of both.
OwedReloadIsMarked ==
  \A f \in Features :
    FeaturesOf(TabOf[f]) = {f} /\ owed[f] => needReload[TabOf[f]]

\* The badges of the mounted tabs catch up with the server, whatever came
\* while their requests were in flight and however the socket came and went;
\* only one whose event was lost, or whose request failed, does not.  The marks
\* of the tabs catch up too, from the time the configuration of the pages is
\* there.
BadgesCatchUp ==
  <>[](\A f \in Features :
         TabOf[f] \in mounted => CountIsCurrent(f) \/ lost[f])
SummaryCatchesUp == <>[](times => SummaryIsCurrent \/ lostSummary)
CatchUp == BadgesCatchUp /\ SummaryCatchesUp

=============================================================================
