---------------------------- MODULE Conversation ----------------------------
(***************************************************************************)
(* The pages of a conversation (screens/ChatMain/Detail/Message).          *)
(*                                                                         *)
(* The messages are loaded a page at a time, each page with the token the  *)
(* one before it ended with.  A search replaces them by a page around a    *)
(* match, which grows in both directions.  What has been loaded, the query *)
(* of the next page and the flag "a page is being loaded" are fields of    *)
(* the assignment; they outlive the screen, and the handlers of an answer  *)
(* read the query as it is when the answer comes.                          *)
(*                                                                         *)
(* A message is abstracted to its number at the server; the conversation   *)
(* is the sequence of the numbers loaded, the newest first, and a token is *)
(* the number of the message a page ended with.                            *)
(***************************************************************************)
EXTENDS Integers, Sequences, SequencesExt

CONSTANTS
  Keys,         \* texts the agent searches for
  PageSize,     \* query.per_page
  MaxMessages,  \* bound on the messages of the server
  MaxRequests,  \* bound on requests in flight
  MaxLength,    \* bound on the conversation a page is added to
  MaxFaults,    \* bound on failed requests
  End,          \* 'None', the token after the last page
  None          \* undefined

ASSUME BoundAssumption ==
  /\ PageSize \in Nat \ {0} /\ MaxMessages \in Nat /\ MaxRequests \in Nat
  /\ MaxLength \in Nat /\ MaxFaults \in Nat
ASSUME NoneAssumption ==
  /\ None \notin Int \cup Keys \cup {End} \cup Seq(Nat)
  /\ End \notin Int

VARIABLES
  newest,         \* the server: the number of the newest message
  faults,         \* faults so far
  conversations,  \* assignment.specific_conversations
  query,          \* assignment.specific_query
  loadingContent, \* assignment.specific_loading_content
  keySearch,      \* assignment.specific_key_search
  beforeSearch,   \* assignment.specific_before_token_search
  afterSearch,    \* assignment.specific_after_token_search
  hasSearch,      \* state.hasSearch: the search bar is open
  fetchDue,       \* the list was told to load and has not called onLoad
  requests,       \* requests in flight
  disturbed       \* history: whether something happened that Undisturbed names

server == <<newest, faults>>
tokens == <<beforeSearch, afterSearch>>
vars == <<server, conversations, query, loadingContent, keySearch, tokens,
          hasSearch, fetchDue, requests, disturbed>>

\* A token is undefined, a message, or the string 'None' of the server.
\* Messages are numbered from 1: there is no page after number 0.
Token == Nat \cup {None, End}
AfterToken == Token \ {0}
Query == [search : Nat \cup {None}, before : Token, after : AfterToken]
NoQuery == [search |-> None, before |-> None, after |-> None]
Answer == [data : Seq(Nat), before : Token, after : AfterToken]
Request == [kind : {"page", "search"}, query : Query, answer : Answer \cup {None}]

ASSUME NothingAssumption == None \notin Query \cup Answer

Init ==
  /\ newest \in 0..MaxMessages
  /\ faults = 0
  /\ conversations = None
  /\ query = None
  /\ loadingContent = FALSE
  /\ keySearch = None
  /\ beforeSearch = None /\ afterSearch = None
  /\ hasSearch = FALSE
  /\ fetchDue = TRUE
  /\ requests = << >>
  /\ disturbed = FALSE

-----------------------------------------------------------------------------
(* The server.                                                             *)

\* The messages from hi down to lo.
Messages(hi, lo) == [i \in 1..((hi + 1) - lo) |-> (hi + 1) - i]

Lowest(hi) == IF hi > PageSize THEN hi - PageSize + 1 ELSE 1
Highest(lo) == IF lo + PageSize <= newest THEN lo + PageSize - 1 ELSE newest

\* A page with the tokens of the pages next to it: before leads to the newer
\* messages in a search, to the older ones otherwise.
Older(lo) == IF lo <= 1 THEN End ELSE lo
Newer(hi) == IF hi >= newest THEN End ELSE hi

PageAnswer(q) ==
  LET hi == IF q.before \in Nat THEN q.before - 1 ELSE newest
      lo == Lowest(hi)
  IN  [data |-> Messages(hi, lo), before |-> Older(lo), after |-> None]

SearchAnswer(q) ==
  LET hi == CASE q.after \in Nat                     -> q.after - 1
              [] q.after = None /\ q.before \in Nat  -> Highest(q.before + 1)
              [] OTHER -> IF q.search = None THEN newest ELSE q.search
      lo == IF q.after = None /\ q.before \in Nat THEN q.before + 1 ELSE Lowest(hi)
  IN  [data |-> Messages(hi, lo), before |-> Newer(hi), after |-> Older(lo)]

\* The server answers with what it has at that time.
Serve(i) ==
  /\ requests[i].answer = None
  /\ requests' = [requests EXCEPT ![i].answer =
       IF requests[i].kind = "page" THEN PageAnswer(requests[i].query)
                                    ELSE SearchAnswer(requests[i].query)]
  /\ UNCHANGED <<server, conversations, query, loadingContent, keySearch, tokens,
                 hasSearch, fetchDue, disturbed>>

\* A message is sent by the customer or an agent.
NewMessage ==
  /\ newest < MaxMessages
  /\ newest' = newest + 1
  /\ UNCHANGED <<faults, conversations, query, loadingContent, keySearch, tokens,
                 hasSearch, fetchDue, requests, disturbed>>

-----------------------------------------------------------------------------
(* Asking for a page.                                                      *)

\* Mutant: the flag is not looked at.
AskAgain(kind, q) ==
  /\ query' = q
  /\ IF q.before = End \/ (kind = "search" /\ q.after = End)
     THEN UNCHANGED <<loadingContent, requests>>
     ELSE /\ loadingContent' = TRUE
          /\ requests' = Append(requests,
               [kind |-> kind, query |-> q, answer |-> None])

\* loadData and searchMessageOfConversation with query q: one page at a time,
\* and none after the last one.
Ask(kind, q) ==
  /\ query' = q
  /\ IF loadingContent \/ q.before = End \/ (kind = "search" /\ q.after = End)
     THEN UNCHANGED <<loadingContent, requests>>
     ELSE /\ loadingContent' = TRUE
          /\ requests' = Append(requests,
               [kind |-> kind, query |-> q, answer |-> None])

QueryOrNew == IF query = None THEN NoQuery ELSE query

\* onLoadDataHandler, when the list loads: there may be messages already.
OnLoadData ==
  /\ fetchDue /\ Len(requests) < MaxRequests
  /\ fetchDue' = FALSE
  /\ IF ~hasSearch /\ conversations \notin {None, << >>}
     THEN UNCHANGED <<query, loadingContent, requests>>
     ELSE Ask(IF hasSearch THEN "search" ELSE "page", QueryOrNew)
  /\ UNCHANGED <<server, conversations, keySearch, tokens, hasSearch, disturbed>>

\* What the pages rely on: the agent does not turn round, and nothing is reset,
\* while a page is on its way; the agent does not scroll in a search bar
\* without a text, nor leaves the screen while searching.
Turning(q) == \E i \in DOMAIN requests : requests[i].query # q
ScrollDisturbs(q) == hasSearch /\ (keySearch = None \/ Turning(q))
ResetDisturbs == requests # << >>

\* The list has messages to scroll.
Scrollable ==
  /\ conversations \notin {None, << >>} /\ Len(conversations) < MaxLength
  /\ Len(requests) < MaxRequests

\* onLoadMoreDataHandler at the old end of the list.
OnLoadMoreData ==
  /\ Scrollable
  /\ IF hasSearch
     THEN /\ query # None
          /\ LET q == [NoQuery EXCEPT !.after = afterSearch]
             IN  /\ Ask("search", q)
                 /\ disturbed' = (disturbed \/ ScrollDisturbs(q))
     ELSE /\ Ask("page", QueryOrNew)
          /\ UNCHANGED disturbed
  /\ UNCHANGED <<server, conversations, keySearch, tokens, hasSearch, fetchDue>>

\* onListBottomEndReached at the new end, with the onLoadMoreDataHandler that
\* the list calls for it.
OnListBottomEndReached ==
  /\ Scrollable
  /\ hasSearch /\ query # None
  /\ LET q == [NoQuery EXCEPT !.before = beforeSearch]
     IN  /\ Ask("search", q)
         /\ disturbed' = (disturbed \/ ScrollDisturbs(q))
  /\ UNCHANGED <<server, conversations, keySearch, tokens, hasSearch, fetchDue>>

-----------------------------------------------------------------------------
(* Answers.                                                                *)

\* The answer of getMessageOfConversations.  It is lost when the query was
\* reset: reading before_token throws.
PageAnswered(i) ==
  /\ requests[i].kind = "page" /\ requests[i].answer # None
  /\ loadingContent' = FALSE
  /\ requests' = RemoveAt(requests, i)
  /\ LET a == requests[i].answer
     IN  IF query = None
         THEN UNCHANGED <<query, conversations>>
         ELSE /\ query' = [query EXCEPT !.before = a.before]
              /\ conversations' =
                   IF query.before = None THEN a.data
                   ELSE IF conversations = None THEN None
                   ELSE conversations \o a.data
  /\ UNCHANGED <<server, keySearch, tokens, hasSearch, fetchDue, disturbed>>

\* The answer of searchMessageOfConversations: the query of the moment says
\* where the page goes.
SearchAnswered(i) ==
  /\ requests[i].kind = "search" /\ requests[i].answer # None
  /\ loadingContent' = FALSE
  /\ requests' = RemoveAt(requests, i)
  /\ LET a == requests[i].answer
     IN  \/ /\ query = None
            /\ UNCHANGED <<conversations, tokens>>
         \/ /\ query # None /\ query.after = None /\ query.before = None
            /\ conversations' = a.data
            /\ beforeSearch' = a.before /\ afterSearch' = a.after
         \/ /\ query # None /\ query.after # None
            /\ IF conversations = None
               THEN UNCHANGED <<conversations, afterSearch>>
               ELSE /\ conversations' = conversations \o a.data
                    /\ afterSearch' = a.after
            /\ UNCHANGED beforeSearch
         \/ /\ query # None /\ query.after = None /\ query.before # None
            /\ beforeSearch' = a.before
            /\ conversations' = IF conversations = None THEN None
                                ELSE a.data \o conversations
            /\ UNCHANGED afterSearch
  /\ UNCHANGED <<server, query, keySearch, hasSearch, fetchDue, disturbed>>

\* Mutant: the flag stays.
RequestFailedLoading(i) ==
  /\ faults < MaxFaults /\ faults' = faults + 1
  /\ requests' = RemoveAt(requests, i)
  /\ UNCHANGED <<newest, conversations, query, loadingContent, keySearch, tokens,
                 hasSearch, fetchDue, disturbed>>

\* The request fails or is answered without data.
RequestFailed(i) ==
  /\ faults < MaxFaults /\ faults' = faults + 1
  /\ loadingContent' = FALSE
  /\ requests' = RemoveAt(requests, i)
  /\ UNCHANGED <<newest, conversations, query, keySearch, tokens, hasSearch,
                 fetchDue, disturbed>>

-----------------------------------------------------------------------------
(* The search bar.                                                         *)

\* "Search" of the menu.
OnSearchContent ==
  /\ ~hasSearch
  /\ hasSearch' = TRUE
  /\ UNCHANGED <<server, conversations, query, loadingContent, keySearch, tokens,
                 fetchDue, requests, disturbed>>

\* resetSearch clears the messages found with a text; it throws when there are
\* none to clear.
CanReset == keySearch # None => conversations # None

\* Mutant: the match is taken for the text.
HandleSearchSwapped(k, m) ==
  /\ hasSearch /\ CanReset
  /\ ~loadingContent /\ keySearch # k
  /\ keySearch' = m
  /\ query' = [NoQuery EXCEPT !.search = m]
  /\ conversations' = None
  /\ beforeSearch' = None /\ afterSearch' = None
  /\ fetchDue' = TRUE
  /\ disturbed' = (disturbed \/ ResetDisturbs)
  /\ UNCHANGED <<server, loadingContent, hasSearch, requests>>

\* handleSearch with a text: m is the first match.
HandleSearch(k, m) ==
  /\ hasSearch /\ CanReset
  /\ ~loadingContent /\ keySearch # k
  /\ keySearch' = k
  /\ query' = [NoQuery EXCEPT !.search = m]
  /\ conversations' = None
  /\ beforeSearch' = None /\ afterSearch' = None
  /\ fetchDue' = TRUE
  /\ disturbed' = (disturbed \/ ResetDisturbs)
  /\ UNCHANGED <<server, loadingContent, hasSearch, requests>>

\* handleSearch without one.
HandleSearchEmpty ==
  /\ hasSearch /\ CanReset
  /\ conversations' = IF keySearch = None THEN conversations ELSE << >>
  /\ keySearch' = None
  /\ query' = None
  /\ beforeSearch' = None /\ afterSearch' = None
  /\ fetchDue' = TRUE
  /\ disturbed' = (disturbed \/ ResetDisturbs)
  /\ UNCHANGED <<server, loadingContent, hasSearch, requests>>

\* handlerChangeIndexSearch: another match m of the same text.
HandlerChangeIndexSearch(m) ==
  /\ hasSearch /\ keySearch # None /\ conversations # None
  /\ ~loadingContent
  /\ conversations' = << >>
  /\ query' = [NoQuery EXCEPT !.search = m]
  /\ beforeSearch' = None /\ afterSearch' = None
  /\ fetchDue' = TRUE
  /\ disturbed' = (disturbed \/ ResetDisturbs)
  /\ UNCHANGED <<server, loadingContent, keySearch, hasSearch, requests>>

\* What refreshData and handleAppStateChange reset.
Refresh ==
  /\ conversations' = None
  /\ query' = None
  /\ loadingContent' = FALSE
  /\ fetchDue' = TRUE
  /\ disturbed' = (disturbed \/ ResetDisturbs)

\* Mutant: the query of the search stays.
CloseSearchQuery ==
  /\ hasSearch
  /\ hasSearch' = FALSE
  /\ keySearch' = None
  /\ conversations' = None
  /\ loadingContent' = FALSE
  /\ fetchDue' = TRUE
  /\ disturbed' = (disturbed \/ ResetDisturbs)
  /\ UNCHANGED <<server, query, tokens, requests>>

CloseSearch ==
  /\ hasSearch
  /\ hasSearch' = FALSE
  /\ keySearch' = None
  /\ Refresh
  /\ UNCHANGED <<server, tokens, requests>>

\* onScrollToBottom in a search closes it and loads the newest page, unless
\* the flag says that a page is on its way: it stays as it is.
OnScrollToBottom ==
  /\ hasSearch
  /\ hasSearch' = FALSE
  /\ keySearch' = None
  /\ query' = None /\ conversations' = None
  /\ fetchDue' = TRUE
  /\ disturbed' = (disturbed \/ ResetDisturbs)
  /\ UNCHANGED <<server, loadingContent, tokens, requests>>

-----------------------------------------------------------------------------
(* The screen.                                                             *)

\* handleAppStateChange("active") of the header, without a socket.
AppActive ==
  /\ Refresh
  /\ UNCHANGED <<server, keySearch, tokens, hasSearch, requests>>

\* The agent leaves the screen and opens the same assignment again: the
\* constructor of the header resets the flag, the rest is as it was.
Reopen ==
  /\ loadingContent' = FALSE
  /\ hasSearch' = FALSE
  /\ fetchDue' = TRUE
  /\ disturbed' = (disturbed \/ ResetDisturbs \/ hasSearch)
  /\ UNCHANGED <<server, conversations, query, keySearch, tokens, requests>>

-----------------------------------------------------------------------------
\* The list calls onLoad as soon as it is told to load: the agent does nothing
\* in between.
Agent ==
  /\ ~fetchDue
  /\ \/ OnLoadMoreData \/ OnListBottomEndReached
     \/ OnSearchContent \/ HandleSearchEmpty \/ CloseSearch
     \/ OnScrollToBottom \/ Reopen
     \/ \E m \in 1..newest :
          HandlerChangeIndexSearch(m) \/ \E k \in Keys : HandleSearch(k, m)

Answers ==
  \E i \in DOMAIN requests : Serve(i) \/ PageAnswered(i) \/ SearchAnswered(i)

Next ==
  \/ Agent \/ AppActive \/ NewMessage
  \/ OnLoadData
  \/ Answers
  \/ \E i \in DOMAIN requests : RequestFailed(i)

Spec == Init /\ [][Next]_vars

-----------------------------------------------------------------------------
(* What the conversation promises.                                         *)

TypeOK ==
  /\ newest \in Nat /\ faults \in Nat
  /\ conversations \in Seq(Nat) \cup {None}
  /\ query \in Query \cup {None}
  /\ loadingContent \in BOOLEAN
  /\ keySearch \in Keys \cup {None}
  /\ beforeSearch \in Token /\ afterSearch \in AfterToken
  /\ hasSearch \in BOOLEAN /\ fetchDue \in BOOLEAN /\ disturbed \in BOOLEAN
  /\ requests \in Seq(Request)

\* The messages on display follow each other: none is missing between two of
\* them and none is there twice, whatever pages were loaded at whichever end,
\* searches made and closed, and requests lost, and while new messages come.
\* It is true as long as nothing disturbs a page on its way.
Contiguous ==
  conversations # None /\ ~disturbed =>
    \A i \in 1..(Len(conversations) - 1) : conversations[i + 1] + 1 = conversations[i]

\* The flag is only set while a request is in flight: otherwise no page would
\* ever be asked for again.
LoadingHasRequest == loadingContent => requests # << >>

\* A conversation that was reset, even with a page on its way whose answer then
\* finds another query, does not stay empty: a page is on its way, or the list
\* is about to ask for one, unless a request failed.
NeverStranded ==
  conversations = None => fetchDue \/ requests # << >> \/ faults > 0

=============================================================================
