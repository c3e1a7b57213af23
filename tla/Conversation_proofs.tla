------------------------- MODULE Conversation_proofs -------------------------
(***************************************************************************)
(* Proofs about Conversation: for any page size, texts and bounds the       *)
(* messages on display follow each other as long as nothing disturbs a page *)
(* on its way, the flag never outlives its request, and a conversation that *)
(* was reset does not stay empty.                                          *)
(***************************************************************************)
EXTENDS Conversation, SequenceTheorems, TLAPS

-----------------------------------------------------------------------------
(* The inductive invariants.                                               *)

\* A conversation that was reset has a query without tokens, or none and then
\* the list is about to load.
EmptyQuery ==
  conversations = None =>
    IF query = None THEN fetchDue ELSE query.before = None /\ query.after = None

StrandInv == LoadingHasRequest /\ NeverStranded /\ EmptyQuery

Follows(s) == \A i \in 1..(Len(s) - 1) : s[i + 1] + 1 = s[i]
StartsAt(s, n) == s # None /\ s # << >> /\ s[1] = n
EndsAt(s, n) == s # None /\ s # << >> /\ s[Len(s)] = n

\* The next page of the messages is the one after the last of them.
PageEnd == query # None /\ query.before \in Nat => EndsAt(conversations, query.before)

\* So are the next pages of a search, at both ends.
SearchEnds ==
  conversations \notin {None, << >>} =>
    /\ afterSearch \in Nat => EndsAt(conversations, afterSearch)
    /\ beforeSearch \in Nat => StartsAt(conversations, beforeSearch)

\* What is known of an answer: the messages from hi to lo, next to the page the
\* query is about, and the token of the page beyond them.
PageOk(q, a, hi, lo) ==
  /\ q.before \in Nat => hi = q.before - 1
  /\ a.before = End \/ (a.before = lo /\ hi >= lo)

SearchOk(q, a, hi, lo) ==
  /\ q.after \in Nat => hi = q.after - 1
  /\ q.after = None /\ q.before \in Nat => lo = q.before + 1
  /\ (q.after = None /\ q.before \in Nat) \/ a.after = End \/ (a.after = lo /\ hi >= lo)
  /\ q.after \in Nat \/ a.before = End \/ a.before = hi
  /\ q.after = None /\ q.before \in Nat /\ a.before = hi => hi >= lo

AnswerOk(r) ==
  r.answer # None =>
    \E hi \in Int, lo \in Nat \ {0} :
      /\ r.answer.data = Messages(hi, lo)
      /\ IF r.kind = "page" THEN PageOk(r.query, r.answer, hi, lo)
                            ELSE SearchOk(r.query, r.answer, hi, lo)

\* The request on its way is about the query of the moment.
InFlight(r) ==
  /\ r.query = query /\ query.before # End
  /\ IF r.kind = "page"
     THEN PageEnd /\ keySearch = None
     ELSE /\ hasSearch /\ query.after # End
          /\ query.after \in Nat => EndsAt(conversations, query.after)
          /\ query.after = None /\ query.before \in Nat =>
               StartsAt(conversations, query.before)
  /\ AnswerOk(r)

Steady ==
  /\ Len(requests) \in {0, 1}
  /\ requests # << >> => loadingContent /\ ~fetchDue
  /\ \A i \in DOMAIN requests : InFlight(requests[i])
  /\ conversations # None => Follows(conversations)
  /\ ~hasSearch => PageEnd /\ keySearch = None
  /\ hasSearch /\ keySearch # None => SearchEnds
  /\ hasSearch /\ fetchDue /\ query # None => query.after = None /\ query.before = None

PagesInv == ~disturbed => Steady

-----------------------------------------------------------------------------
(* Sequences.                                                              *)

\* Removing an element leaves a sequence of the rest.
LEMMA RemoveAtType ==
  ASSUME NEW S, NEW s \in Seq(S), NEW i \in DOMAIN s
  PROVE  RemoveAt(s, i) \in Seq(S)
BY DEF RemoveAt

\* Removing the only element leaves none.
LEMMA RemoveOnly ==
  ASSUME NEW S, NEW s \in Seq(S), Len(s) \in {0, 1}, NEW i \in DOMAIN s
  PROVE  RemoveAt(s, i) = << >>
<1>1. Len(s) = 1 /\ i = 1
  OBVIOUS
<1>2. SubSeq(s, 1, 0) = << >> /\ SubSeq(s, 2, 1) = << >>
  BY <1>1, SubSeqEmpty
<1>3. << >> \o << >> = << >>
  BY EmptySeq, ConcatEmptySeq
<1>4. QED
  BY <1>1, <1>2, <1>3 DEF RemoveAt

\* The messages of a page follow each other, from hi down to lo.
LEMMA MessagesFollow ==
  ASSUME NEW hi \in Int, NEW lo \in Nat
  PROVE  LET s == Messages(hi, lo)
         IN  /\ s \in Seq(Nat) /\ Follows(s)
             /\ hi >= lo => StartsAt(s, hi) /\ EndsAt(s, lo)
             /\ hi < lo => s = << >>
<1> DEFINE n == (hi + 1) - lo
           s == Messages(hi, lo)
<1>1. n \in Int
  OBVIOUS
<1>2. CASE n <= 0
  <2>1. 1..n = {} /\ n # 1
    BY <1>1, <1>2
  <2>2. s = << >>
    BY <2>1 DEF Messages
  <2>3. << >> \in Seq(Nat) /\ Follows(<< >>)
    BY DEF Follows
  <2>4. QED
    BY <1>2, <2>2, <2>3
<1>3. CASE n > 0
  <2>1. \A i \in 1..n : (hi + 1) - i \in Nat
    BY <1>1, <1>3
  <2>2. s \in Seq(Nat) /\ Len(s) = n /\ \A i \in 1..n : s[i] = (hi + 1) - i
    BY <1>1, <1>3, <2>1 DEF Messages
  <2> HIDE DEF s
  <2>3. s # << >> /\ s # None
    BY <1>3, <2>2, NoneAssumption
  <2>4. Follows(s)
    BY <1>1, <1>3, <2>2 DEF Follows
  <2>5. s[1] = hi /\ s[Len(s)] = lo
    BY <1>1, <1>3, <2>2
  <2>6. QED
    BY <1>3, <2>2, <2>3, <2>4, <2>5 DEF StartsAt, EndsAt, s
<1>4. QED
  BY <1>1, <1>2, <1>3

\* Two runs of messages that meet are one run.
LEMMA Joined ==
  ASSUME NEW s \in Seq(Nat), NEW t \in Seq(Nat), Follows(s), Follows(t),
         s # << >>, t # << >>, t[1] + 1 = s[Len(s)]
  PROVE  /\ s \o t \in Seq(Nat) /\ Follows(s \o t)
         /\ StartsAt(s \o t, s[1]) /\ EndsAt(s \o t, t[Len(t)])
<1> DEFINE u == s \o t
<1>1. /\ u \in Seq(Nat) /\ Len(u) = Len(s) + Len(t)
      /\ \A i \in 1..Len(s) : u[i] = s[i]
      /\ \A i \in 1..Len(t) : u[Len(s) + i] = t[i]
  OBVIOUS
<1>2. Len(s) \in Nat \ {0} /\ Len(t) \in Nat \ {0}
  OBVIOUS
<1> HIDE DEF u
<1>3. ASSUME NEW i \in 1..(Len(u) - 1) PROVE u[i + 1] + 1 = u[i]
  <2> DEFINE k == i - Len(s)
  <2>1. CASE i < Len(s)
    <3>1. i \in 1..(Len(s) - 1) /\ i \in 1..Len(s) /\ i + 1 \in 1..Len(s)
      BY <1>2, <2>1
    <3>2. u[i] = s[i] /\ u[i + 1] = s[i + 1]
      BY <1>1, <3>1
    <3>3. s[i + 1] + 1 = s[i]
      BY <3>1 DEF Follows
    <3>4. QED
      BY <3>2, <3>3
  <2>2. CASE i = Len(s)
    BY <1>1, <1>2, <2>2
  <2>3. CASE i > Len(s)
    <3>1. k \in 1..(Len(t) - 1) /\ k \in 1..Len(t) /\ k + 1 \in 1..Len(t)
      <4>1. i \in Nat /\ 1 <= i /\ i <= (Len(s) + Len(t)) - 1
        BY <1>1, <1>2
      <4>2. k \in Int /\ 1 <= k /\ k <= Len(t) - 1
        BY <1>2, <2>3, <4>1
      <4> HIDE DEF k
      <4>3. QED
        BY <1>2, <4>2
    <3>2. Len(s) + k = i /\ Len(s) + (k + 1) = i + 1
      BY <1>2
    <3> HIDE DEF k
    <3>3. u[Len(s) + k] = t[k] /\ u[Len(s) + (k + 1)] = t[k + 1]
      BY <1>1, <3>1
    <3>4. t[k + 1] + 1 = t[k]
      BY <3>1 DEF Follows
    <3>5. QED
      BY <3>2, <3>3, <3>4
  <2>4. QED
    BY <1>2, <2>1, <2>2, <2>3
<1>4. u # << >> /\ u # None
  BY <1>1, <1>2, NoneAssumption
<1>5. u[1] = s[1] /\ u[Len(u)] = t[Len(t)]
  BY <1>1, <1>2
<1>6. QED
  BY <1>1, <1>3, <1>4, <1>5 DEF Follows, StartsAt, EndsAt, u

-----------------------------------------------------------------------------
(* What the server answers.                                                *)

LEMMA LowestIs ==
  ASSUME NEW hi \in Int
  PROVE  /\ Lowest(hi) \in Nat \ {0}
         /\ Lowest(hi) > 1 => hi >= Lowest(hi)
         /\ hi > 0 => hi >= Lowest(hi)
BY BoundAssumption DEF Lowest

LEMMA OlderIs ==
  ASSUME NEW hi \in Int
  PROVE  LET lo == Lowest(hi)
         IN  /\ Older(lo) \in AfterToken
             /\ Older(lo) = End \/ (Older(lo) = lo /\ hi >= lo)
BY LowestIs, NoneAssumption DEF Older, Token, AfterToken

LEMMA NewerIs ==
  ASSUME newest \in Nat, NEW hi \in Nat
  PROVE  /\ Newer(hi) \in Token
         /\ Newer(hi) = End \/ (Newer(hi) = hi /\ hi < newest)
BY DEF Newer, Token

LEMMA PageAnswerIs ==
  ASSUME newest \in Nat, NEW q \in Query
  PROVE  /\ PageAnswer(q) \in Answer
         /\ \E hi \in Int, lo \in Nat \ {0} :
              PageAnswer(q).data = Messages(hi, lo) /\ PageOk(q, PageAnswer(q), hi, lo)
<1> DEFINE hi == IF q.before \in Nat THEN q.before - 1 ELSE newest
           lo == Lowest(hi)
<1>1. hi \in Int /\ (q.before \in Nat => hi = q.before - 1)
  OBVIOUS
<1> HIDE DEF hi
<1>2. lo \in Nat \ {0} /\ Older(lo) \in AfterToken
      /\ (Older(lo) = End \/ (Older(lo) = lo /\ hi >= lo))
  BY <1>1, LowestIs, OlderIs
<1> HIDE DEF lo
<1>3. Messages(hi, lo) \in Seq(Nat)
  BY <1>1, <1>2, MessagesFollow
<1>4. PageAnswer(q) = [data |-> Messages(hi, lo), before |-> Older(lo), after |-> None]
  BY DEF PageAnswer, hi, lo
<1>5. PageAnswer(q) \in Answer
  BY <1>2, <1>3, <1>4, NoneAssumption DEF Answer, Token, AfterToken
<1>6. PageOk(q, PageAnswer(q), hi, lo)
  BY <1>1, <1>2, <1>4 DEF PageOk
<1>7. QED
  BY <1>1, <1>2, <1>4, <1>5, <1>6

LEMMA SearchAnswerIs ==
  ASSUME newest \in Nat, NEW q \in Query
  PROVE  /\ SearchAnswer(q) \in Answer
         /\ \E hi \in Int, lo \in Nat \ {0} :
              SearchAnswer(q).data = Messages(hi, lo) /\ SearchOk(q, SearchAnswer(q), hi, lo)
<1> DEFINE hi == CASE q.after \in Nat                     -> q.after - 1
                   [] q.after = None /\ q.before \in Nat  -> Highest(q.before + 1)
                   [] OTHER -> IF q.search = None THEN newest ELSE q.search
           lo == IF q.after = None /\ q.before \in Nat THEN q.before + 1 ELSE Lowest(hi)
<1>1. q.after \in AfterToken /\ q.before \in Token /\ q.search \in Nat \cup {None}
  BY DEF Query
<1>2. SearchAnswer(q) = [data |-> Messages(hi, lo), before |-> Newer(hi), after |-> Older(lo)]
  BY DEF SearchAnswer
<1> SUFFICES /\ hi \in Int /\ lo \in Nat \ {0}
             /\ Newer(hi) \in Token /\ Older(lo) \in AfterToken
             /\ SearchOk(q, [data |-> Messages(hi, lo), before |-> Newer(hi),
                             after |-> Older(lo)], hi, lo)
  <2>1. ASSUME hi \in Int, lo \in Nat \ {0} PROVE Messages(hi, lo) \in Seq(Nat)
    <3> HIDE DEF hi, lo
    <3>1. QED
      BY <2>1, MessagesFollow
  <2> HIDE DEF hi, lo
  <2>2. QED
    BY <1>2, <2>1 DEF Answer
<1>3. CASE q.after \in Nat
  <2>1. hi = q.after - 1 /\ hi \in Nat /\ q.after # None /\ lo = Lowest(hi)
    BY <1>1, <1>3, NoneAssumption DEF AfterToken
  <2>2. Newer(hi) \in Token
    BY <2>1, <1>3 DEF Newer, Token
  <2> HIDE DEF hi, lo
  <2>3. QED
    BY <1>3, <2>1, <2>2, LowestIs, OlderIs DEF SearchOk
<1>4. CASE q.after = None /\ q.before \in Nat
  <2>1. lo = q.before + 1 /\ hi = Highest(lo) /\ q.after \notin Nat
    BY <1>4, NoneAssumption
  <2> HIDE DEF hi, lo
  <2>2. lo \in Nat \ {0} /\ hi \in Nat /\ (hi < newest => hi >= lo)
    BY <1>4, <2>1, BoundAssumption DEF Highest
  <2>3. Older(lo) \in AfterToken
    BY <2>2, NoneAssumption DEF Older, Token, AfterToken
  <2>4. Newer(hi) \in Token /\ (Newer(hi) = End \/ (Newer(hi) = hi /\ hi < newest))
    BY <2>2, NewerIs
  <2>5. QED
    BY <1>4, <2>1, <2>2, <2>3, <2>4, NoneAssumption DEF SearchOk
<1>5. CASE q.after \notin Nat /\ ~(q.after = None /\ q.before \in Nat)
  <2>1. hi = (IF q.search = None THEN newest ELSE q.search) /\ lo = Lowest(hi)
    BY <1>5
  <2> HIDE DEF hi, lo
  <2>2. hi \in Nat
    BY <1>1, <2>1
  <2>3. QED
    BY <1>5, <2>1, <2>2, LowestIs, OlderIs, NewerIs DEF SearchOk
<1>6. QED
  BY <1>3, <1>4, <1>5

-----------------------------------------------------------------------------
(* Types.                                                                  *)

LEMMA InitTypeOK == Init => TypeOK
<1> SUFFICES ASSUME Init PROVE TypeOK
  OBVIOUS
<1>1. newest \in Nat
  BY BoundAssumption DEF Init
<1>2. beforeSearch \in Token /\ afterSearch \in AfterToken
  BY NoneAssumption DEF Init, Token, AfterToken
<1>3. requests \in Seq(Request)
  BY EmptySeq DEF Init
<1>4. QED
  BY <1>1, <1>2, <1>3 DEF Init, TypeOK

\* Queries the code makes.
LEMMA QueryTypes ==
  ASSUME TypeOK
  PROVE  /\ NoQuery \in Query /\ QueryOrNew \in Query
         /\ [NoQuery EXCEPT !.after = afterSearch] \in Query
         /\ [NoQuery EXCEPT !.before = beforeSearch] \in Query
         /\ \A m \in Nat : [NoQuery EXCEPT !.search = m] \in Query
<1>1. None \in Token /\ None \in AfterToken
  BY NoneAssumption DEF Token, AfterToken
<1>2. NoQuery \in Query
  BY <1>1 DEF NoQuery, Query
<1>3. QED
  BY <1>1, <1>2 DEF TypeOK, NoQuery, Query, QueryOrNew

LEMMA AskType ==
  ASSUME TypeOK, NEW kind \in {"page", "search"}, NEW q \in Query, Ask(kind, q)
  PROVE  query' \in Query /\ loadingContent' \in BOOLEAN /\ requests' \in Seq(Request)
<1> DEFINE r == [kind |-> kind, query |-> q, answer |-> None]
<1>1. r \in Request
  BY DEF Request
<1>2. Append(requests, r) \in Seq(Request)
  BY <1>1 DEF TypeOK
<1>3. QED
  BY <1>2 DEF Ask, TypeOK

LEMMA LoadTypeOK ==
  ASSUME TypeOK, OnLoadData \/ OnLoadMoreData \/ OnListBottomEndReached
  PROVE  TypeOK'
<1>1. CASE OnLoadData
  <2>1. query' \in Query \cup {None} /\ loadingContent' \in BOOLEAN
        /\ requests' \in Seq(Request)
    <3>1. CASE ~hasSearch /\ conversations \notin {None, << >>}
      BY <1>1, <3>1 DEF OnLoadData, TypeOK
    <3>2. CASE ~(~hasSearch /\ conversations \notin {None, << >>})
      <4>1. Ask(IF hasSearch THEN "search" ELSE "page", QueryOrNew)
        BY <1>1, <3>2 DEF OnLoadData
      <4>2. QED
        BY <4>1, QueryTypes, AskType
    <3>3. QED
      BY <3>1, <3>2
  <2>2. QED
    BY <1>1, <2>1 DEF OnLoadData, TypeOK, server, tokens
<1>2. CASE OnLoadMoreData
  <2>1. Ask("search", [NoQuery EXCEPT !.after = afterSearch]) \/ Ask("page", QueryOrNew)
    BY <1>2 DEF OnLoadMoreData
  <2>2. query' \in Query /\ loadingContent' \in BOOLEAN /\ requests' \in Seq(Request)
    BY <2>1, QueryTypes, AskType
  <2>3. disturbed' \in BOOLEAN
    BY <1>2 DEF OnLoadMoreData, TypeOK, ScrollDisturbs, Turning
  <2>4. QED
    BY <1>2, <2>2, <2>3 DEF OnLoadMoreData, TypeOK, server, tokens
<1>3. CASE OnListBottomEndReached
  <2>1. Ask("search", [NoQuery EXCEPT !.before = beforeSearch])
    BY <1>3 DEF OnListBottomEndReached
  <2>2. query' \in Query /\ loadingContent' \in BOOLEAN /\ requests' \in Seq(Request)
    BY <2>1, QueryTypes, AskType
  <2>3. disturbed' \in BOOLEAN
    BY <1>3 DEF OnListBottomEndReached, TypeOK, ScrollDisturbs, Turning
  <2>4. QED
    BY <1>3, <2>2, <2>3 DEF OnListBottomEndReached, TypeOK, server, tokens
<1>4. QED
  BY <1>1, <1>2, <1>3

LEMMA SearchTypeOK ==
  ASSUME TypeOK,
         \/ OnSearchContent \/ HandleSearchEmpty \/ CloseSearch \/ OnScrollToBottom
         \/ \E m \in 1..newest :
              HandlerChangeIndexSearch(m) \/ \E k \in Keys : HandleSearch(k, m)
  PROVE  TypeOK'
<1>1. None \in Token /\ None \in AfterToken /\ << >> \in Seq(Nat)
  BY NoneAssumption DEF Token, AfterToken
<1>2. CASE OnSearchContent
  BY <1>2 DEF OnSearchContent, TypeOK, server, tokens
<1>3. CASE HandleSearchEmpty
  BY <1>1, <1>3 DEF HandleSearchEmpty, TypeOK, server, ResetDisturbs
<1>4. CASE CloseSearch
  BY <1>4 DEF CloseSearch, Refresh, TypeOK, server, tokens, ResetDisturbs
<1>4a. CASE OnScrollToBottom
  BY <1>4a DEF OnScrollToBottom, TypeOK, server, tokens, ResetDisturbs
<1>5. ASSUME NEW m \in 1..newest, HandlerChangeIndexSearch(m) PROVE TypeOK'
  <2>1. m \in Nat
    BY DEF TypeOK
  <2>2. [NoQuery EXCEPT !.search = m] \in Query
    BY <2>1, QueryTypes
  <2>3. QED
    BY <1>1, <1>5, <2>2 DEF HandlerChangeIndexSearch, TypeOK, server, ResetDisturbs
<1>6. ASSUME NEW m \in 1..newest, NEW k \in Keys, HandleSearch(k, m) PROVE TypeOK'
  <2>1. m \in Nat
    BY DEF TypeOK
  <2>2. [NoQuery EXCEPT !.search = m] \in Query
    BY <2>1, QueryTypes
  <2>3. QED
    BY <1>1, <1>6, <2>2 DEF HandleSearch, TypeOK, server, ResetDisturbs
<1>7. QED
  BY <1>2, <1>3, <1>4, <1>4a, <1>5, <1>6

LEMMA ScreenTypeOK == TypeOK /\ (Reopen \/ AppActive \/ NewMessage) => TypeOK'
<1> SUFFICES ASSUME TypeOK, Reopen \/ AppActive \/ NewMessage PROVE TypeOK'
  OBVIOUS
<1>1. CASE Reopen
  BY <1>1 DEF Reopen, TypeOK, server, tokens, ResetDisturbs
<1>2. CASE AppActive
  BY <1>2 DEF AppActive, Refresh, TypeOK, server, tokens, ResetDisturbs
<1>3. CASE NewMessage
  BY <1>3 DEF NewMessage, TypeOK, tokens
<1>4. QED
  BY <1>1, <1>2, <1>3

\* A request that is served is the same request with its answer.
LEMMA Served ==
  ASSUME TypeOK, NEW i \in DOMAIN requests, Serve(i)
  PROVE  LET r == requests[i]
             a == IF r.kind = "page" THEN PageAnswer(r.query) ELSE SearchAnswer(r.query)
         IN  /\ a \in Answer
             /\ requests' = [requests EXCEPT ![i] = [r EXCEPT !.answer = a]]
             /\ [r EXCEPT !.answer = a] \in Request
             /\ requests' \in Seq(Request)
<1> DEFINE r == requests[i]
           a == IF r.kind = "page" THEN PageAnswer(r.query) ELSE SearchAnswer(r.query)
<1>1. requests \in Seq(Request) /\ r \in Request /\ newest \in Nat
  BY DEF TypeOK
<1>2. r.query \in Query
  BY <1>1 DEF Request
<1>3. a \in Answer
  BY <1>1, <1>2, PageAnswerIs, SearchAnswerIs
<1>4. requests' = [requests EXCEPT ![i] = [r EXCEPT !.answer = a]]
  BY DEF Serve
<1> HIDE DEF a
<1>5. [r EXCEPT !.answer = a] \in Request
  BY <1>1, <1>3 DEF Request
<1>6. requests' \in Seq(Request)
  BY <1>1, <1>4, <1>5
<1>7. QED
  BY <1>3, <1>4, <1>5, <1>6 DEF a

LEMMA AnswerTypeOK ==
  ASSUME TypeOK, NEW i \in DOMAIN requests,
         Serve(i) \/ PageAnswered(i) \/ SearchAnswered(i) \/ RequestFailed(i)
  PROVE  TypeOK'
<1>1. requests \in Seq(Request) /\ requests[i] \in Request
  BY DEF TypeOK
<1>2. RemoveAt(requests, i) \in Seq(Request)
  BY <1>1, RemoveAtType
<1>3. requests[i].answer # None =>
        /\ requests[i].answer.data \in Seq(Nat)
        /\ requests[i].answer.before \in Token
        /\ requests[i].answer.after \in AfterToken
  BY <1>1 DEF Request, Answer
<1>4. CASE Serve(i)
  BY <1>4, Served DEF Serve, TypeOK, server, tokens
<1>5. CASE PageAnswered(i)
  <2>1. query' \in Query \cup {None}
    BY <1>3, <1>5 DEF PageAnswered, TypeOK, Query
  <2>2. conversations' \in Seq(Nat) \cup {None}
    <3>1. conversations # None /\ requests[i].answer # None =>
            conversations \o requests[i].answer.data \in Seq(Nat)
      BY <1>3 DEF TypeOK
    <3>2. QED
      BY <1>3, <1>5, <3>1 DEF PageAnswered, TypeOK
  <2>3. QED
    BY <1>2, <1>5, <2>1, <2>2 DEF PageAnswered, TypeOK, server, tokens
<1>6. CASE SearchAnswered(i)
  <2>1. conversations' \in Seq(Nat) \cup {None}
    <3>1. conversations # None /\ requests[i].answer # None =>
            /\ conversations \o requests[i].answer.data \in Seq(Nat)
            /\ requests[i].answer.data \o conversations \in Seq(Nat)
      BY <1>3 DEF TypeOK
    <3>2. QED
      BY <1>3, <1>6, <3>1 DEF SearchAnswered, TypeOK
  <2>2. beforeSearch' \in Token /\ afterSearch' \in AfterToken
    BY <1>3, <1>6 DEF SearchAnswered, TypeOK, tokens
  <2>3. QED
    BY <1>2, <1>6, <2>1, <2>2 DEF SearchAnswered, TypeOK, server
<1>7. CASE RequestFailed(i)
  <2>1. requests' \in Seq(Request) /\ loadingContent' \in BOOLEAN /\ faults' \in Nat
    <3>1. faults \in Nat
      BY DEF TypeOK
    <3>2. requests' = RemoveAt(requests, i) /\ loadingContent' = FALSE
          /\ faults' = faults + 1
      BY <1>7 DEF RequestFailed
    <3>3. faults + 1 \in Nat
      BY <3>1
    <3>4. QED
      BY <1>2, <3>2, <3>3, Zenon
  <2>2. QED
    BY <1>7, <2>1 DEF RequestFailed, TypeOK, tokens
<1>8. QED
  BY <1>4, <1>5, <1>6, <1>7

LEMMA TypeInductive == TypeOK /\ [Next]_vars => TypeOK'
<1> SUFFICES ASSUME TypeOK, [Next]_vars PROVE TypeOK'
  OBVIOUS
<1>1. CASE UNCHANGED vars
  BY <1>1 DEF TypeOK, vars, server, tokens
<1>2. CASE Next
  BY <1>2, LoadTypeOK, SearchTypeOK, ScreenTypeOK, AnswerTypeOK
  DEF Next, Agent, Answers
<1>3. QED
  BY <1>1, <1>2

\* The state keeps its type for any page size, texts and bounds.
THEOREM TypeCorrect == Spec => []TypeOK
<1>1. QED
  BY InitTypeOK, TypeInductive, PTL DEF Spec

-----------------------------------------------------------------------------
(* The flag and the empty conversation.                                    *)

LEMMA InitStrand == Init => StrandInv
BY DEF Init, StrandInv, LoadingHasRequest, NeverStranded, EmptyQuery

\* After asking, a page is on its way unless the query is at its end.
LEMMA AskStrand ==
  ASSUME TypeOK, LoadingHasRequest, NEW kind, NEW q, Ask(kind, q)
  PROVE  /\ query' = q
         /\ loadingContent' => requests' # << >>
         /\ requests # << >> => requests' # << >>
         /\ q.before = None /\ q.after = None => requests' # << >>
<1>1. \A r : Append(requests, r) # << >>
  BY DEF TypeOK
<1>2. None # End
  BY NoneAssumption
<1>3. QED
  BY <1>1, <1>2 DEF Ask, LoadingHasRequest

LEMMA AgentStrand ==
  ASSUME TypeOK, StrandInv, Agent \/ AppActive \/ NewMessage \/ OnLoadData
  PROVE  StrandInv'
<1> USE DEF StrandInv, LoadingHasRequest, NeverStranded, EmptyQuery
<1>1. CASE OnLoadMoreData
  <2>1. \E kind, q : Ask(kind, q)
    BY <1>1 DEF OnLoadMoreData
  <2>2. loadingContent' => requests' # << >>
    BY <2>1, AskStrand
  <2>3. QED
    BY <1>1, <2>2 DEF OnLoadMoreData, Scrollable
<1>2. CASE OnListBottomEndReached
  <2>1. \E kind, q : Ask(kind, q)
    BY <1>2 DEF OnListBottomEndReached
  <2>2. loadingContent' => requests' # << >>
    BY <2>1, AskStrand
  <2>3. QED
    BY <1>2, <2>2 DEF OnListBottomEndReached, Scrollable
<1>3. CASE OnSearchContent
  BY <1>3 DEF OnSearchContent, server
<1>4. CASE HandleSearchEmpty
  BY <1>4, NoneAssumption, EmptySeq DEF HandleSearchEmpty, server
<1>5. CASE CloseSearch
  BY <1>5 DEF CloseSearch, Refresh, server
<1>5a. CASE OnScrollToBottom
  BY <1>5a DEF OnScrollToBottom, server
<1>6. CASE Reopen
  BY <1>6 DEF Reopen, server
<1>7. ASSUME NEW m, HandlerChangeIndexSearch(m) PROVE StrandInv'
  <2>1. conversations' # None
    BY <1>7, NoneAssumption, EmptySeq DEF HandlerChangeIndexSearch
  <2>2. QED
    BY <1>7, <2>1 DEF HandlerChangeIndexSearch, server
<1>8. ASSUME NEW m \in Nat, NEW k, HandleSearch(k, m) PROVE StrandInv'
  <2>1. query'.before = None /\ query'.after = None
    BY <1>8 DEF HandleSearch, NoQuery
  <2>2. QED
    BY <1>8, <2>1, QueryTypes DEF HandleSearch, server, NoQuery
<1>9. CASE AppActive
  BY <1>9 DEF AppActive, Refresh, server
<1>10. CASE NewMessage
  BY <1>10 DEF NewMessage
<1>11. CASE OnLoadData
  <2>1. CASE ~hasSearch /\ conversations \notin {None, << >>}
    BY <1>11, <2>1 DEF OnLoadData, server
  <2>2. CASE ~(~hasSearch /\ conversations \notin {None, << >>})
    <3>1. Ask(IF hasSearch THEN "search" ELSE "page", QueryOrNew)
      BY <1>11, <2>2 DEF OnLoadData
    <3>2. QueryOrNew # None
      BY QueryTypes, NothingAssumption
    <3>3. conversations = None => QueryOrNew.before = None /\ QueryOrNew.after = None
      BY DEF QueryOrNew, NoQuery
    <3>4. /\ query' = QueryOrNew /\ (loadingContent' => requests' # << >>)
          /\ conversations = None => requests' # << >>
      BY <3>1, <3>3, AskStrand
    <3>5. conversations' = conversations
      BY <1>11 DEF OnLoadData
    <3>6. QED
      BY <3>2, <3>3, <3>4, <3>5
  <2>3. QED
    BY <2>1, <2>2
<1>12. ASSUME NEW m \in 1..newest, NEW k \in Keys, HandleSearch(k, m) PROVE StrandInv'
  BY <1>8, <1>12 DEF TypeOK
<1>13. QED
  BY <1>1, <1>2, <1>3, <1>4, <1>5, <1>5a, <1>6, <1>7, <1>9, <1>10, <1>11, <1>12
  DEF Agent

LEMMA AnswerStrand ==
  ASSUME TypeOK, StrandInv, NEW i \in DOMAIN requests,
         Serve(i) \/ PageAnswered(i) \/ SearchAnswered(i) \/ RequestFailed(i)
  PROVE  StrandInv'
<1> USE DEF StrandInv, LoadingHasRequest, NeverStranded, EmptyQuery
<1>1. requests \in Seq(Request) /\ requests # << >> /\ requests[i] \in Request
  BY DEF TypeOK
<1>2. \A s \in Seq(Nat) : s # None
  BY NoneAssumption
<1>3. requests[i].answer # None => requests[i].answer.data \in Seq(Nat)
  BY <1>1 DEF Request, Answer
<1>4. CASE Serve(i)
  <2>1. requests' # << >>
    <3>1. PICK r : requests' = [requests EXCEPT ![i] = r]
      BY <1>4, Served
    <3>2. DOMAIN requests' = DOMAIN requests
      BY <3>1
    <3>3. QED
      BY <3>2
  <2>2. QED
    BY <1>4, <2>1 DEF Serve, server
<1>5. CASE PageAnswered(i)
  <2>1. conversations' = None => conversations = None /\ query = None /\ query' = None
    <3>1. CASE query = None
      BY <1>5, <3>1 DEF PageAnswered
    <3>2. CASE query # None /\ query.before = None
      BY <1>2, <1>3, <1>5, <3>2 DEF PageAnswered
    <3>3. CASE query # None /\ query.before # None
      <4>1. conversations # None
        BY <3>3
      <4>2. conversations' = conversations \o requests[i].answer.data
        BY <1>5, <3>3, <4>1 DEF PageAnswered
      <4>3. conversations \o requests[i].answer.data \in Seq(Nat)
        BY <1>3, <1>5, <4>1 DEF PageAnswered, TypeOK
      <4>4. QED
        BY <1>2, <4>2, <4>3
    <3>4. QED
      BY <3>1, <3>2, <3>3
  <2>2. ~loadingContent' /\ fetchDue' = fetchDue
    BY <1>5 DEF PageAnswered
  <2>3. QED
    BY <2>1, <2>2
<1>6. CASE SearchAnswered(i)
  <2>1. conversations' = None => conversations = None /\ query = None /\ query' = None
    <3>1. CASE query = None
      BY <1>6, <3>1 DEF SearchAnswered
    <3>2. CASE query # None /\ query.before = None /\ query.after = None
      BY <1>2, <1>3, <1>6, <3>2 DEF SearchAnswered
    <3>3. CASE query # None /\ ~(query.before = None /\ query.after = None)
      <4>1. conversations # None
        BY <3>3
      <4>2. \/ conversations' = conversations \o requests[i].answer.data
            \/ conversations' = requests[i].answer.data \o conversations
        BY <1>6, <3>3, <4>1 DEF SearchAnswered
      <4>3. /\ conversations \o requests[i].answer.data \in Seq(Nat)
            /\ requests[i].answer.data \o conversations \in Seq(Nat)
        BY <1>3, <1>6, <4>1 DEF SearchAnswered, TypeOK
      <4>4. QED
        BY <1>2, <4>2, <4>3
    <3>4. QED
      BY <3>1, <3>2, <3>3
  <2>2. ~loadingContent' /\ fetchDue' = fetchDue
    BY <1>6 DEF SearchAnswered
  <2>3. QED
    BY <2>1, <2>2
<1>7. CASE RequestFailed(i)
  <2>1. faults' > 0
    BY <1>7 DEF RequestFailed, TypeOK
  <2>2. QED
    BY <1>7, <2>1 DEF RequestFailed
<1>8. QED
  BY <1>4, <1>5, <1>6, <1>7

LEMMA StrandInductive == TypeOK /\ StrandInv /\ [Next]_vars => StrandInv'
<1> SUFFICES ASSUME TypeOK, StrandInv, [Next]_vars PROVE StrandInv'
  OBVIOUS
<1>1. CASE UNCHANGED vars
  BY <1>1 DEF StrandInv, LoadingHasRequest, NeverStranded, EmptyQuery, vars, server
<1>2. CASE Next
  BY <1>2, AgentStrand, AnswerStrand DEF Next, Answers
<1>3. QED
  BY <1>1, <1>2

\* The flag "a page is being loaded" is set only while one is (Message.tsx
\* 158-172, 221-243), so that the next page can be asked for.
THEOREM FlagHasRequest == Spec => []LoadingHasRequest
<1>1. StrandInv => LoadingHasRequest
  BY DEF StrandInv
<1>2. QED
  BY <1>1, InitTypeOK, TypeInductive, InitStrand, StrandInductive, PTL DEF Spec

\* A conversation that was reset is loaded again unless a request failed, even
\* if an answer comes that finds another query (Message.tsx 376-382).
THEOREM ResetIsLoaded == Spec => []NeverStranded
<1>1. StrandInv => NeverStranded
  BY DEF StrandInv
<1>2. QED
  BY <1>1, InitTypeOK, TypeInductive, InitStrand, StrandInductive, PTL DEF Spec

-----------------------------------------------------------------------------
(* The pages.                                                              *)

LEMMA InitPages == Init => PagesInv
<1> SUFFICES ASSUME Init PROVE Steady
  BY DEF PagesInv
<1>1. Len(requests) = 0 /\ DOMAIN requests = {}
  BY DEF Init
<1>2. QED
  BY <1>1 DEF Init, Steady, PageEnd

\* Nothing is on its way when nothing is disturbed by a reset.
LEMMA NoRequest ==
  ASSUME TypeOK, Steady, ~loadingContent \/ ~ResetDisturbs
  PROVE  requests = << >> /\ Len(requests) = 0 /\ DOMAIN requests = {}
<1>1. requests = << >>
  BY DEF Steady, ResetDisturbs
<1>2. QED
  BY <1>1

LEMMA ResetPages ==
  ASSUME TypeOK, PagesInv,
         \/ HandleSearchEmpty \/ CloseSearch \/ OnScrollToBottom \/ Reopen \/ AppActive
         \/ \E m : HandlerChangeIndexSearch(m)
         \/ \E k, m : HandleSearch(k, m)
  PROVE  PagesInv'
<1> SUFFICES ASSUME ~disturbed' PROVE Steady'
  BY DEF PagesInv
<1>1. ~disturbed /\ ~ResetDisturbs /\ UNCHANGED requests
  BY DEF HandleSearchEmpty, CloseSearch, OnScrollToBottom, Reopen, AppActive, Refresh,
         HandlerChangeIndexSearch, HandleSearch
<1>2. Steady
  BY <1>1 DEF PagesInv
<1>3. requests' = << >> /\ Len(requests') = 0 /\ DOMAIN requests' = {}
  BY <1>1, <1>2, NoRequest
<1>4. Follows(<< >>) /\ << >> # None
  <2>1. Follows(<< >>)
    BY DEF Follows
  <2>2. << >> \in Seq(Nat)
    OBVIOUS
  <2>3. QED
    BY <2>1, <2>2, NoneAssumption
<1>5. CASE HandleSearchEmpty
  BY <1>2, <1>3, <1>4, <1>5 DEF HandleSearchEmpty, Steady
<1>6. CASE CloseSearch
  BY <1>2, <1>3, <1>6 DEF CloseSearch, Refresh, Steady, PageEnd
<1>6a. CASE OnScrollToBottom
  BY <1>2, <1>3, <1>6a DEF OnScrollToBottom, Steady, PageEnd
<1>7. CASE Reopen
  <2>1. ~hasSearch
    BY <1>7 DEF Reopen
  <2>2. QED
    BY <1>2, <1>3, <1>7, <2>1 DEF Reopen, Steady, PageEnd, EndsAt
<1>8. CASE AppActive
  BY <1>2, <1>3, <1>8 DEF AppActive, Refresh, Steady, PageEnd, SearchEnds
<1>9. ASSUME NEW m, HandlerChangeIndexSearch(m) PROVE Steady'
  <2>1. query' # None => query'.after = None /\ query'.before = None
    BY <1>9 DEF HandlerChangeIndexSearch, NoQuery
  <2>2. QED
    BY <1>2, <1>3, <1>4, <1>9, <2>1 DEF HandlerChangeIndexSearch, Steady, SearchEnds
<1>10. ASSUME NEW k, NEW m, HandleSearch(k, m) PROVE Steady'
  <2>1. query' # None => query'.after = None /\ query'.before = None
    BY <1>10 DEF HandleSearch, NoQuery
  <2>2. QED
    BY <1>2, <1>3, <1>10, <2>1 DEF HandleSearch, Steady, SearchEnds
<1>11. QED
  BY <1>5, <1>6, <1>6a, <1>7, <1>8, <1>9, <1>10

\* A page that is asked for is the one next to the messages.
LEMMA AskPages ==
  ASSUME TypeOK, Steady, NEW kind \in {"page", "search"}, NEW q \in Query, Ask(kind, q),
         requests # << >> => q = query,
         IF kind = "page"
         THEN /\ q.before \in Nat => EndsAt(conversations, q.before)
              /\ keySearch = None
         ELSE /\ hasSearch
              /\ q.after \in Nat => EndsAt(conversations, q.after)
              /\ q.after = None /\ q.before \in Nat => StartsAt(conversations, q.before),
         UNCHANGED <<conversations, keySearch, hasSearch>>
  PROVE  /\ Len(requests') \in {0, 1} /\ (requests' # << >> => loadingContent')
         /\ (\A i \in DOMAIN requests : InFlight(requests[i]))'
         /\ query' = q
<1>1. query' = q
  BY DEF Ask
<1>2. CASE requests' = requests /\ loadingContent' = loadingContent
  <2>1. CASE requests = << >>
    BY <1>1, <1>2, <2>1
  <2>2. CASE requests # << >>
    <3>1. query' = query
      BY <1>1, <2>2
    <3>2. QED
      BY <1>1, <1>2, <3>1 DEF Steady, InFlight, AnswerOk, PageEnd, EndsAt, StartsAt
  <2>3. QED
    BY <2>1, <2>2
<1>3. CASE ~(requests' = requests /\ loadingContent' = loadingContent)
  <2> DEFINE r == [kind |-> kind, query |-> q, answer |-> None]
  <2>1. /\ ~loadingContent /\ q.before # End /\ (kind = "search" => q.after # End)
        /\ loadingContent' /\ requests' = Append(requests, r)
    BY <1>3 DEF Ask
  <2>2. requests = << >>
    BY <2>1 DEF Steady
  <2>3. requests' = <<r>>
    BY <2>1, <2>2
  <2>4. Len(requests') = 1 /\ DOMAIN requests' = {1} /\ requests'[1] = r
    BY <2>3
  <2>5. r.query = q /\ r.kind = kind /\ r.answer = None
    OBVIOUS
  <2>6. q # None
    BY NothingAssumption
  <2> HIDE DEF r
  <2>7. InFlight(requests[1])'
    <3>1. CASE kind = "page"
      BY <1>1, <2>1, <2>4, <2>5, <3>1 DEF InFlight, AnswerOk, PageEnd, EndsAt
    <3>2. CASE kind = "search"
      BY <1>1, <2>1, <2>4, <2>5, <3>2 DEF InFlight, AnswerOk, EndsAt, StartsAt
    <3>3. QED
      BY <3>1, <3>2
  <2>8. QED
    BY <1>1, <2>1, <2>4, <2>7
<1>4. QED
  BY <1>2, <1>3

\* With a request on its way there is a query.
LEMMA QueryInFlight ==
  ASSUME TypeOK, Steady, requests # << >>
  PROVE  query # None /\ QueryOrNew = query
<1>1. PICK i \in DOMAIN requests : InFlight(requests[i])
  BY DEF TypeOK, Steady
<1>2. requests[i] \in Request
  BY DEF TypeOK
<1>3. query \in Query
  BY <1>1, <1>2 DEF InFlight, Request
<1>4. QED
  BY <1>3, NothingAssumption DEF QueryOrNew

LEMMA LoadPages ==
  ASSUME TypeOK, PagesInv, OnLoadData
  PROVE  PagesInv'
<1> SUFFICES ASSUME ~disturbed' PROVE Steady'
  BY DEF PagesInv
<1>1. Steady /\ UNCHANGED <<conversations, keySearch, hasSearch, beforeSearch, afterSearch>>
      /\ ~fetchDue'
  BY DEF OnLoadData, PagesInv, tokens
<1>2. CASE ~hasSearch /\ conversations \notin {None, << >>}
  <2>1. UNCHANGED <<query, loadingContent, requests>>
    BY <1>2 DEF OnLoadData
  <2>2. QED
    BY <1>1, <2>1 DEF Steady, InFlight, AnswerOk, PageEnd, SearchEnds, EndsAt, StartsAt
<1>3. CASE ~(~hasSearch /\ conversations \notin {None, << >>})
  <2> DEFINE kind == IF hasSearch THEN "search" ELSE "page"
  <2>1. Ask(kind, QueryOrNew) /\ QueryOrNew \in Query
    BY <1>3, QueryTypes DEF OnLoadData
  <2>2. requests # << >> => QueryOrNew = query
    BY <1>1, QueryInFlight
  <2>3. hasSearch => QueryOrNew.after = None /\ QueryOrNew.before = None
    BY <1>1 DEF Steady, QueryOrNew, NoQuery, OnLoadData
  <2>4. ~hasSearch => /\ keySearch = None
                      /\ QueryOrNew.before \in Nat =>
                           EndsAt(conversations, QueryOrNew.before)
    BY <1>1, NoneAssumption DEF Steady, PageEnd, QueryOrNew, NoQuery
  <2>5. /\ Len(requests') \in {0, 1} /\ (requests' # << >> => loadingContent')
        /\ (\A i \in DOMAIN requests : InFlight(requests[i]))'
        /\ query' = QueryOrNew
    <3>1. CASE hasSearch
      BY <1>1, <2>1, <2>2, <2>3, <3>1, AskPages, NoneAssumption
    <3>2. CASE ~hasSearch
      BY <1>1, <2>1, <2>2, <2>4, <3>2, AskPages
    <3>3. QED
      BY <3>1, <3>2
  <2>6. ~hasSearch => PageEnd'
    BY <1>1, <2>4, <2>5 DEF PageEnd, EndsAt
  <2>7. QED
    BY <1>1, <2>5, <2>6 DEF Steady, SearchEnds, EndsAt, StartsAt
<1>4. QED
  BY <1>2, <1>3

LEMMA MorePages ==
  ASSUME TypeOK, PagesInv, ~fetchDue, OnLoadMoreData \/ OnListBottomEndReached
  PROVE  PagesInv'
<1> SUFFICES ASSUME ~disturbed' PROVE Steady'
  BY DEF PagesInv
<1>1. /\ Steady /\ ~fetchDue' /\ conversations \notin {None, << >>}
      /\ UNCHANGED <<conversations, keySearch, hasSearch, beforeSearch, afterSearch>>
  <2>1. CASE OnLoadMoreData
    <3>1. ~disturbed
      BY <2>1, Zenon DEF OnLoadMoreData
    <3>2. QED
      BY <2>1, <3>1 DEF OnLoadMoreData, PagesInv, tokens, Scrollable
  <2>2. CASE OnListBottomEndReached
    <3>1. ~disturbed
      BY <2>2, Zenon DEF OnListBottomEndReached
    <3>2. QED
      BY <2>2, <3>1 DEF OnListBottomEndReached, PagesInv, tokens, Scrollable
  <2>3. QED
    BY <2>1, <2>2
<1>2. CASE ~hasSearch
  <2>1. Ask("page", QueryOrNew) /\ QueryOrNew \in Query
    BY <1>2, QueryTypes DEF OnLoadMoreData, OnListBottomEndReached
  <2>2. requests # << >> => QueryOrNew = query
    BY <1>1, QueryInFlight
  <2>3. /\ keySearch = None
        /\ QueryOrNew.before \in Nat => EndsAt(conversations, QueryOrNew.before)
    BY <1>1, <1>2, NoneAssumption DEF Steady, PageEnd, QueryOrNew, NoQuery
  <2>4. /\ Len(requests') \in {0, 1} /\ (requests' # << >> => loadingContent')
        /\ (\A i \in DOMAIN requests : InFlight(requests[i]))'
        /\ query' = QueryOrNew
    BY <1>1, <2>1, <2>2, <2>3, AskPages
  <2>5. PageEnd'
    BY <1>1, <2>3, <2>4 DEF PageEnd, EndsAt
  <2>6. QED
    BY <1>1, <1>2, <2>3, <2>4, <2>5 DEF Steady
<1>3. CASE hasSearch
  <2>1. PICK q \in {[NoQuery EXCEPT !.after = afterSearch],
                    [NoQuery EXCEPT !.before = beforeSearch]} :
          Ask("search", q) /\ ~ScrollDisturbs(q)
    <3>1. CASE OnLoadMoreData
      BY <1>3, <3>1, Zenon DEF OnLoadMoreData
    <3>2. CASE OnListBottomEndReached
      BY <1>3, <3>2, Zenon DEF OnListBottomEndReached
    <3>3. QED
      BY <3>1, <3>2
  <2>2. q \in Query
    BY QueryTypes
  <2>3. keySearch # None /\ ~Turning(q)
    BY <1>3, <2>1 DEF ScrollDisturbs
  <2>4. requests # << >> => q = query
    <3>1. SUFFICES ASSUME requests # << >> PROVE q = query
      OBVIOUS
    <3>2. PICK i \in DOMAIN requests : InFlight(requests[i])
      BY <1>1, <3>1 DEF TypeOK, Steady
    <3>3. QED
      BY <2>3, <3>2 DEF Turning, InFlight
  <2>5. SearchEnds
    BY <1>1, <1>3, <2>3 DEF Steady
  <2>6. /\ q.after \in Nat => EndsAt(conversations, q.after)
        /\ q.after = None /\ q.before \in Nat => StartsAt(conversations, q.before)
    BY <1>1, <2>5, NoneAssumption DEF SearchEnds, NoQuery
  <2>7. /\ Len(requests') \in {0, 1} /\ (requests' # << >> => loadingContent')
        /\ (\A i \in DOMAIN requests : InFlight(requests[i]))'
        /\ query' = q
    BY <1>1, <1>3, <2>1, <2>2, <2>4, <2>6, AskPages
  <2>8. SearchEnds'
    BY <1>1, <2>5 DEF SearchEnds, EndsAt, StartsAt
  <2>9. QED
    BY <1>1, <1>3, <2>7, <2>8 DEF Steady
<1>4. QED
  BY <1>2, <1>3

\* Nothing of the pages depends on what was not asked yet.
LEMMA OtherPages ==
  ASSUME TypeOK, PagesInv, (~fetchDue /\ OnSearchContent) \/ NewMessage
  PROVE  PagesInv'
<1> SUFFICES ASSUME ~disturbed' PROVE Steady'
  BY DEF PagesInv
<1>1. /\ Steady
      /\ UNCHANGED <<conversations, query, loadingContent, keySearch, beforeSearch,
                     afterSearch, fetchDue, requests>>
  BY DEF OnSearchContent, NewMessage, PagesInv, tokens
<1>2. CASE ~fetchDue /\ OnSearchContent
  <2>1. ~hasSearch /\ hasSearch' /\ keySearch = None /\ PageEnd
    BY <1>1, <1>2 DEF OnSearchContent, Steady
  <2>2. (\A i \in DOMAIN requests : InFlight(requests[i]))'
    BY <1>1, <2>1 DEF Steady, InFlight, AnswerOk, PageEnd
  <2>3. QED
    BY <1>1, <1>2, <2>1, <2>2 DEF Steady
<1>3. CASE NewMessage
  <2>1. hasSearch' = hasSearch
    BY <1>3 DEF NewMessage
  <2>2. (\A i \in DOMAIN requests : InFlight(requests[i]))'
    BY <1>1, <2>1 DEF Steady, InFlight, AnswerOk, PageEnd
  <2>3. QED
    BY <1>1, <2>1, <2>2 DEF Steady, PageEnd, SearchEnds
<1>4. QED
  BY <1>2, <1>3

LEMMA ServePages ==
  ASSUME TypeOK, PagesInv, NEW i \in DOMAIN requests, Serve(i)
  PROVE  PagesInv'
<1> SUFFICES ASSUME ~disturbed' PROVE Steady'
  BY DEF PagesInv
<1>1. /\ Steady
      /\ UNCHANGED <<conversations, query, loadingContent, keySearch, beforeSearch,
                     afterSearch, hasSearch, fetchDue>>
  BY DEF Serve, PagesInv, tokens
<1>2. requests \in Seq(Request) /\ requests[i] \in Request /\ newest \in Nat
  BY DEF TypeOK
<1> DEFINE a == IF requests[i].kind = "page" THEN PageAnswer(requests[i].query)
                                             ELSE SearchAnswer(requests[i].query)
<1>3. requests' = [requests EXCEPT ![i].answer = a]
  BY DEF Serve
<1>4. requests[i].query \in Query
  <2>1. InFlight(requests[i])
    BY <1>1 DEF Steady
  <2>2. QED
    BY <1>2 DEF Request
<1>5. \E hi \in Int, lo \in Nat \ {0} :
        /\ a.data = Messages(hi, lo)
        /\ IF requests[i].kind = "page" THEN PageOk(requests[i].query, a, hi, lo)
                                        ELSE SearchOk(requests[i].query, a, hi, lo)
  <2>1. CASE requests[i].kind = "page"
    BY <1>2, <1>4, <2>1, PageAnswerIs
  <2>2. CASE requests[i].kind # "page"
    BY <1>2, <1>4, <2>2, SearchAnswerIs
  <2>3. QED
    BY <2>1, <2>2
<1> HIDE DEF a
<1>6. DOMAIN requests' = DOMAIN requests /\ Len(requests') = Len(requests)
      /\ requests # << >>
  BY <1>2, <1>3
<1>7. ASSUME NEW j \in DOMAIN requests PROVE InFlight(requests[j])'
  <2>1. InFlight(requests[j])
    BY <1>1 DEF Steady
  <2>2. requests'[j].query = requests[j].query /\ requests'[j].kind = requests[j].kind
    BY <1>2, <1>3, <1>7 DEF Request
  <2>3. AnswerOk(requests[j])'
    <3>1. CASE j = i
      <4>1. requests'[j].answer = a
        BY <1>2, <1>3, <1>7, <3>1 DEF Request
      <4>2. QED
        BY <1>5, <2>2, <3>1, <4>1 DEF AnswerOk
    <3>2. CASE j # i
      <4>1. requests'[j] = requests[j]
        BY <1>2, <1>3, <1>7, <3>2
      <4>2. QED
        BY <2>1, <4>1 DEF InFlight, AnswerOk
    <3>3. QED
      BY <3>1, <3>2
  <2>4. QED
    BY <1>1, <2>1, <2>2, <2>3 DEF InFlight, PageEnd
<1>8. (\A j \in DOMAIN requests : InFlight(requests[j]))'
  BY <1>6, <1>7
<1>9. QED
  BY <1>1, <1>6, <1>8 DEF Steady, PageEnd, SearchEnds

\* An older page is added at the end.
LEMMA OlderAdded ==
  ASSUME NEW c \in Seq(Nat), Follows(c), NEW n \in Nat, EndsAt(c, n),
         NEW lo \in Nat
  PROVE  LET s == c \o Messages(n - 1, lo)
         IN  /\ s \in Seq(Nat) /\ Follows(s) /\ StartsAt(s, c[1])
             /\ n - 1 >= lo => EndsAt(s, lo)
<1> DEFINE t == Messages(n - 1, lo)
<1>1. /\ t \in Seq(Nat) /\ Follows(t)
      /\ n - 1 >= lo => StartsAt(t, n - 1) /\ EndsAt(t, lo)
      /\ n - 1 < lo => t = << >>
  <2>1. n - 1 \in Int
    OBVIOUS
  <2>2. QED
    BY <2>1, MessagesFollow
<1> HIDE DEF t
<1>2. CASE n - 1 >= lo
  BY <1>1, <1>2, Joined DEF StartsAt, EndsAt, t
<1>3. CASE n - 1 < lo
  <2>1. c \o t = c
    BY <1>1, <1>3, ConcatEmptySeq
  <2>2. c \o t \in Seq(Nat) /\ Follows(c \o t) /\ StartsAt(c \o t, c[1])
    BY <2>1 DEF StartsAt, EndsAt
  <2>3. QED
    BY <1>3, <2>2 DEF t
<1>4. QED
  BY <1>2, <1>3

\* A newer page is added at the front.
LEMMA NewerAdded ==
  ASSUME NEW c \in Seq(Nat), Follows(c), NEW n \in Nat, StartsAt(c, n),
         NEW hi \in Int
  PROVE  LET s == Messages(hi, n + 1) \o c
         IN  /\ s \in Seq(Nat) /\ Follows(s) /\ EndsAt(s, c[Len(c)])
             /\ hi >= n + 1 => StartsAt(s, hi)
<1> DEFINE t == Messages(hi, n + 1)
<1>1. /\ t \in Seq(Nat) /\ Follows(t)
      /\ hi >= n + 1 => StartsAt(t, hi) /\ EndsAt(t, n + 1)
      /\ hi < n + 1 => t = << >>
  <2>1. n + 1 \in Nat
    OBVIOUS
  <2>2. QED
    BY <2>1, MessagesFollow
<1> HIDE DEF t
<1>2. CASE hi >= n + 1
  BY <1>1, <1>2, Joined DEF StartsAt, EndsAt, t
<1>3. CASE hi < n + 1
  <2>1. t \o c = c
    BY <1>1, <1>3, ConcatEmptySeq
  <2>2. t \o c \in Seq(Nat) /\ Follows(t \o c) /\ EndsAt(t \o c, c[Len(c)])
    BY <2>1 DEF StartsAt, EndsAt
  <2>3. QED
    BY <1>3, <2>2 DEF t
<1>4. QED
  BY <1>2, <1>3

\* With its answer, no request is left.
LEMMA LastRequest ==
  ASSUME TypeOK, Steady, NEW i \in DOMAIN requests, requests' = RemoveAt(requests, i)
  PROVE  requests' = << >> /\ Len(requests') = 0 /\ DOMAIN requests' = {}
<1>1. requests' = << >>
  BY RemoveOnly DEF TypeOK, Steady
<1>2. QED
  BY <1>1

LEMMA PageAnsweredPages ==
  ASSUME TypeOK, PagesInv, NEW i \in DOMAIN requests, PageAnswered(i)
  PROVE  PagesInv'
<1> SUFFICES ASSUME ~disturbed' PROVE Steady'
  BY DEF PagesInv
<1> DEFINE a == requests[i].answer
<1>1. Steady /\ UNCHANGED <<keySearch, hasSearch, beforeSearch, afterSearch, fetchDue>>
  BY DEF PageAnswered, PagesInv, tokens
<1>2. requests' = << >> /\ Len(requests') = 0 /\ DOMAIN requests' = {}
  BY <1>1, LastRequest DEF PageAnswered
<1>3. InFlight(requests[i]) /\ requests[i].kind = "page" /\ requests[i].answer # None
  BY <1>1 DEF Steady, PageAnswered
<1>4. requests # << >> /\ query # None /\ query \in Query
  <2>1. requests # << >>
    OBVIOUS
  <2>2. QED
    BY <1>1, <2>1, QueryInFlight DEF TypeOK
<1>5. PICK hi \in Int, lo \in Nat \ {0} :
        a.data = Messages(hi, lo) /\ PageOk(query, a, hi, lo)
  BY <1>3 DEF InFlight, AnswerOk
<1>6. /\ PageEnd /\ keySearch = None /\ query.before \in Nat \cup {None}
  BY <1>3, <1>4 DEF InFlight, Query, Token
<1>7. query'.before = a.before
  BY <1>4 DEF PageAnswered, Query
<1> HIDE DEF a
<1>8. /\ conversations' # None => Follows(conversations')
      /\ a.before \in Nat => EndsAt(conversations', a.before)
  <2>1. a.before \in Nat => a.before = lo /\ hi >= lo
    BY <1>5, NoneAssumption DEF PageOk
  <2>2. CASE query.before = None
    <3>1. conversations' = Messages(hi, lo)
      BY <1>4, <1>5, <2>2 DEF PageAnswered, a
    <3>2. QED
      BY <2>1, <3>1, MessagesFollow
  <2>3. CASE query.before \in Nat
    <3>1. EndsAt(conversations, query.before) /\ hi = query.before - 1
      BY <1>4, <1>5, <1>6, <2>3 DEF PageEnd, PageOk
    <3>2. conversations \in Seq(Nat) /\ Follows(conversations)
      BY <1>1, <3>1 DEF TypeOK, Steady, EndsAt
    <3>3. conversations' = conversations \o Messages(query.before - 1, lo)
      BY <1>4, <1>5, <2>3, <3>1, NoneAssumption DEF PageAnswered, EndsAt, a
    <3>4. QED
      BY <2>1, <2>3, <3>1, <3>2, <3>3, OlderAdded
  <2>4. QED
    BY <1>6, <2>2, <2>3
<1>9. PageEnd'
  BY <1>7, <1>8 DEF PageEnd
<1>10. QED
  BY <1>1, <1>2, <1>4, <1>6, <1>8, <1>9 DEF Steady

LEMMA SearchAnsweredPages ==
  ASSUME TypeOK, PagesInv, NEW i \in DOMAIN requests, SearchAnswered(i)
  PROVE  PagesInv'
<1> SUFFICES ASSUME ~disturbed' PROVE Steady'
  BY DEF PagesInv
<1> DEFINE a == requests[i].answer
<1>1. Steady /\ UNCHANGED <<query, keySearch, hasSearch, fetchDue>>
  BY DEF SearchAnswered, PagesInv
<1>2. requests' = << >> /\ Len(requests') = 0 /\ DOMAIN requests' = {}
  BY <1>1, LastRequest DEF SearchAnswered
<1>3. InFlight(requests[i]) /\ requests[i].kind = "search" /\ requests[i].answer # None
  BY <1>1 DEF Steady, SearchAnswered
<1>4. requests # << >> /\ query # None /\ query \in Query
  <2>1. requests # << >>
    OBVIOUS
  <2>2. QED
    BY <1>1, <2>1, QueryInFlight DEF TypeOK
<1>5. PICK hi \in Int, lo \in Nat \ {0} :
        a.data = Messages(hi, lo) /\ SearchOk(query, a, hi, lo)
  BY <1>3 DEF InFlight, AnswerOk
<1>6. /\ hasSearch /\ ~fetchDue
      /\ query.before \in Nat \cup {None} /\ query.after \in Nat \cup {None}
      /\ query.after \in Nat => EndsAt(conversations, query.after)
      /\ query.after = None /\ query.before \in Nat =>
           StartsAt(conversations, query.before)
  BY <1>1, <1>3, <1>4 DEF InFlight, Query, Token, AfterToken, Steady
<1> HIDE DEF a
<1>7. /\ conversations' # None => Follows(conversations')
      /\ keySearch # None => SearchEnds'
  <2>1. CASE query.after = None /\ query.before = None
    <3>1. /\ conversations' = Messages(hi, lo)
          /\ beforeSearch' = a.before /\ afterSearch' = a.after
      BY <1>4, <1>5, <2>1 DEF SearchAnswered, a
    <3>2. /\ a.after \in Nat => a.after = lo /\ hi >= lo
          /\ a.before \in Nat => a.before = hi
      BY <1>5, <2>1, NoneAssumption DEF SearchOk
    <3>3. /\ Follows(conversations')
          /\ hi >= lo => StartsAt(conversations', hi) /\ EndsAt(conversations', lo)
          /\ hi < lo => conversations' = << >>
      BY <3>1, MessagesFollow
    <3>4. hi >= lo \/ hi < lo
      OBVIOUS
    <3>5. SearchEnds'
      BY <3>1, <3>2, <3>3, <3>4 DEF SearchEnds
    <3>6. QED
      BY <3>3, <3>5
  <2>2. CASE query.after \in Nat
    <3>1. EndsAt(conversations, query.after) /\ hi = query.after - 1
      BY <1>5, <1>6, <2>2 DEF SearchOk
    <3>2. conversations \in Seq(Nat) /\ Follows(conversations)
      BY <1>1, <3>1 DEF TypeOK, Steady, EndsAt
    <3>3. /\ conversations' = conversations \o Messages(query.after - 1, lo)
          /\ afterSearch' = a.after /\ beforeSearch' = beforeSearch
      BY <1>4, <1>5, <2>2, <3>1, NoneAssumption DEF SearchAnswered, EndsAt, a
    <3>4. a.after \in Nat => a.after = lo /\ query.after - 1 >= lo
      BY <1>5, <2>2, <3>1, NoneAssumption DEF SearchOk
    <3>5. /\ Follows(conversations') /\ StartsAt(conversations', conversations[1])
          /\ a.after \in Nat => EndsAt(conversations', a.after)
      BY <2>2, <3>1, <3>2, <3>3, <3>4, OlderAdded
    <3>6. conversations \notin {None, << >>}
      BY <3>1 DEF EndsAt
    <3>7. QED
      BY <1>1, <1>6, <3>3, <3>5, <3>6 DEF Steady, SearchEnds, StartsAt
  <2>3. CASE query.after = None /\ query.before \in Nat
    <3>1. /\ StartsAt(conversations, query.before) /\ lo = query.before + 1
          /\ query.after \notin Nat
      BY <1>5, <1>6, <2>3, NoneAssumption DEF SearchOk
    <3>2. conversations \in Seq(Nat) /\ Follows(conversations)
      BY <1>1, <3>1 DEF TypeOK, Steady, StartsAt
    <3>3. /\ conversations' = Messages(hi, query.before + 1) \o conversations
          /\ beforeSearch' = a.before /\ afterSearch' = afterSearch
      BY <1>4, <1>5, <2>3, <3>1, NoneAssumption DEF SearchAnswered, StartsAt, a
    <3>4. a.before \in Nat => a.before = hi /\ hi >= query.before + 1
      BY <1>5, <2>3, <3>1, NoneAssumption DEF SearchOk
    <3>5. /\ Follows(conversations')
          /\ EndsAt(conversations', conversations[Len(conversations)])
          /\ a.before \in Nat => StartsAt(conversations', a.before)
      BY <2>3, <3>1, <3>2, <3>3, <3>4, NewerAdded
    <3>6. conversations \notin {None, << >>}
      BY <3>1 DEF StartsAt
    <3>7. QED
      BY <1>1, <1>6, <3>3, <3>5, <3>6 DEF Steady, SearchEnds, EndsAt
  <2>4. QED
    BY <1>6, <2>1, <2>2, <2>3
<1>8. QED
  BY <1>1, <1>2, <1>6, <1>7 DEF Steady

LEMMA FailedPages ==
  ASSUME TypeOK, PagesInv, NEW i \in DOMAIN requests, RequestFailed(i)
  PROVE  PagesInv'
<1> SUFFICES ASSUME ~disturbed' PROVE Steady'
  BY DEF PagesInv
<1>1. /\ Steady
      /\ UNCHANGED <<conversations, query, keySearch, beforeSearch, afterSearch,
                     hasSearch, fetchDue>>
  BY DEF RequestFailed, PagesInv, tokens
<1>2. requests' = << >> /\ Len(requests') = 0 /\ DOMAIN requests' = {}
  BY <1>1, LastRequest DEF RequestFailed
<1>3. QED
  BY <1>1, <1>2 DEF Steady, PageEnd, SearchEnds

LEMMA PagesInductive == TypeOK /\ PagesInv /\ [Next]_vars => PagesInv'
<1> SUFFICES ASSUME TypeOK, PagesInv, [Next]_vars PROVE PagesInv'
  OBVIOUS
<1>1. CASE UNCHANGED vars
  BY <1>1 DEF PagesInv, Steady, InFlight, AnswerOk, PageEnd, SearchEnds, vars, server, tokens
<1>2. CASE Agent
  <2>1. ~fetchDue
    BY <1>2 DEF Agent
  <2>2. CASE OnLoadMoreData \/ OnListBottomEndReached
    BY <2>1, <2>2, MorePages
  <2>3. CASE OnSearchContent
    BY <2>1, <2>3, OtherPages
  <2>4. CASE HandleSearchEmpty \/ CloseSearch \/ OnScrollToBottom \/ Reopen
    BY <2>4, ResetPages
  <2>5. CASE \E m \in 1..newest :
               HandlerChangeIndexSearch(m) \/ \E k \in Keys : HandleSearch(k, m)
    BY <2>5, ResetPages
  <2>6. QED
    BY <1>2, <2>2, <2>3, <2>4, <2>5 DEF Agent
<1>3. CASE AppActive \/ NewMessage \/ OnLoadData
  BY <1>3, ResetPages, OtherPages, LoadPages
<1>4. CASE Answers
  BY <1>4, ServePages, PageAnsweredPages, SearchAnsweredPages DEF Answers
<1>5. CASE \E i \in DOMAIN requests : RequestFailed(i)
  BY <1>5, FailedPages
<1>6. QED
  BY <1>1, <1>2, <1>3, <1>4, <1>5 DEF Next

\* The messages on display follow each other as long as nothing disturbs a page
\* on its way (Message.tsx 174-213, 243-265).
THEOREM MessagesContiguous == Spec => []Contiguous
<1>1. PagesInv => Contiguous
  BY DEF PagesInv, Steady, Contiguous, Follows
<1>2. QED
  BY <1>1, InitTypeOK, TypeInductive, InitPages, PagesInductive, PTL DEF Spec

=============================================================================
