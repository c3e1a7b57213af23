-------------------------- MODULE TabSummary_proofs --------------------------
(***************************************************************************)
(* Proofs about TabSummary: for any tabs, features, filters and bounds, one *)
(* request is in flight at a time, so a badge never goes back, and a badge  *)
(* that is behind the server is asked for again; a list that missed events  *)
(* is reloaded or its tab is marked.                                       *)
(***************************************************************************)
EXTENDS TabSummary, SequenceTheorems, TLAPS

-----------------------------------------------------------------------------
(* The inductive invariant.                                                *)

\* isCallTabCount is set exactly while the only request is in flight.
OneCount(f) ==
  /\ Len(countCalls[f]) \in {0, 1}
  /\ isCallTabCount[f] <=> Len(countCalls[f]) = 1
  /\ TabOf[f] \notin mounted => Len(countCalls[f]) = 0

\* Unless something else will make it ask, the request in flight, or the
\* badge when there is none, is current.
AskAgain(f) == lost[f] \/ arriving[f] > 0 \/ isReCallTabCount[f]
CallIsCurrent(f) == /\ countCalls[f][1].filter = filter[f]
                    /\ countCalls[f][1].rev \in {None, rev[f]}
CountCovered(f) ==
  TabOf[f] \in mounted /\ ~AskAgain(f) =>
    IF Len(countCalls[f]) = 0 THEN CountIsCurrent(f) ELSE CallIsCurrent(f)

\* The badge is not newer than the answer in flight, the answer not newer
\* than the server.
CountOrdered(f) ==
  /\ badge[f] # None => badge[f].rev \in Nat /\ badge[f].rev <= rev[f]
  /\ \A i \in DOMAIN countCalls[f] :
       countCalls[f][i].rev # None =>
         /\ countCalls[f][i].rev <= rev[f]
         /\ badge[f] # None => badge[f].rev <= countCalls[f][i].rev

CountInv(f) == OneCount(f) /\ CountCovered(f) /\ CountOrdered(f)
FeatureInv == \A f \in Features : CountInv(f)

\* The same for the summary.
OneSummary == /\ Len(summaryCalls) \in {0, 1}
              /\ isCall <=> Len(summaryCalls) = 1
SummarizeAgain == \/ lostSummary
                  \/ isReCall
                  \/ \E f \in Features : arriving[f] > 0
SummaryCovered ==
  ~SummarizeAgain =>
    IF Len(summaryCalls) = 0 THEN SummaryIsCurrent
                             ELSE summaryCalls[1] \in {None, rev}
SummaryOrdered ==
  \A f \in Features :
    /\ summary # None => summary[f] <= rev[f]
    /\ \A i \in DOMAIN summaryCalls :
         summaryCalls[i] # None =>
           /\ summaryCalls[i][f] <= rev[f]
           /\ summary # None => summary[f] <= summaryCalls[i][f]
SummaryInv == OneSummary /\ SummaryCovered /\ SummaryOrdered

\* Only mounted lists miss events.
OwedInv == /\ OwedReloadIsMarked
           /\ \A f \in Features : owed[f] => f \in loaded

IInv == FeatureInv /\ SummaryInv /\ OwedInv

-----------------------------------------------------------------------------
(* Sequences of at most one request.                                       *)

\* Removing a request leaves a sequence of requests.
LEMMA RemoveAtType ==
  ASSUME NEW S, NEW s \in Seq(S), NEW i \in DOMAIN s
  PROVE  RemoveAt(s, i) \in Seq(S)
BY DEF RemoveAt

\* Removing the only request leaves none.
LEMMA RemoveOnly ==
  ASSUME NEW S, NEW s \in Seq(S), Len(s) \in {0, 1}, NEW i \in DOMAIN s
  PROVE  RemoveAt(s, i) = <<>>
<1>1. Len(s) = 1 /\ i = 1
  OBVIOUS
<1>2. SubSeq(s, 1, 0) = <<>> /\ SubSeq(s, 2, 1) = <<>>
  BY <1>1, SubSeqEmpty
<1>3. <<>> \o <<>> = <<>>
  BY EmptySeq, ConcatEmptySeq
<1>4. QED
  BY <1>1, <1>2, <1>3 DEF RemoveAt

\* What getTabCount does to the requests of one feature.
LEMMA GetTabCountOf ==
  ASSUME TypeOK, NEW S \in SUBSET Features, GetTabCount(S),
         NEW f \in Features
  PROVE  /\ isCallTabCount' \in [Features -> BOOLEAN]
         /\ countCalls' \in [Features -> Seq(CountCall)]
         /\ f \in S /\ ~isCallTabCount[f] =>
              /\ isCallTabCount'[f]
              /\ countCalls'[f] =
                   Append(countCalls[f], [filter |-> filter[f], rev |-> None])
         /\ f \notin S \/ isCallTabCount[f] =>
              /\ isCallTabCount'[f] = isCallTabCount[f]
              /\ countCalls'[f] = countCalls[f]
<1>1. \A g \in Features :
        Append(countCalls[g], [filter |-> filter[g], rev |-> None]) \in Seq(CountCall)
  <2>1. \A g \in Features : [filter |-> filter[g], rev |-> None] \in CountCall
    BY DEF TypeOK, CountCall
  <2>2. QED
    BY <2>1 DEF TypeOK
<1>2. QED
  BY <1>1 DEF TypeOK, GetTabCount

\* What the server's answer does to the requests of one feature.
LEMMA AnswerCountOf ==
  ASSUME TypeOK, NEW f \in Features, NEW i \in DOMAIN countCalls[f],
         AnswerCount(f, i)
  PROVE  /\ countCalls' \in [Features -> Seq(CountCall)]
         /\ \A g \in Features \ {f} : countCalls'[g] = countCalls[g]
         /\ Len(countCalls'[f]) = Len(countCalls[f])
         /\ \A j \in DOMAIN countCalls[f] :
              /\ countCalls'[f][j].filter = countCalls[f][j].filter
              /\ countCalls'[f][j].rev = IF j = i THEN rev[f]
                                                  ELSE countCalls[f][j].rev
<1> DEFINE new == [countCalls[f] EXCEPT ![i] = [countCalls[f][i] EXCEPT !.rev = rev[f]]]
<1>1. countCalls[f] \in Seq(CountCall) /\ rev[f] \in Nat
  BY DEF TypeOK
<1>2. countCalls[f][i] \in CountCall
  BY <1>1
<1>3. [countCalls[f][i] EXCEPT !.rev = rev[f]] \in CountCall
  BY <1>1, <1>2 DEF CountCall
<1>4. new \in Seq(CountCall) /\ Len(new) = Len(countCalls[f])
  BY <1>1, <1>3
<1>5. countCalls' = [countCalls EXCEPT ![f] = new]
  BY DEF AnswerCount
<1>6. \A j \in DOMAIN countCalls[f] :
        /\ new[j].filter = countCalls[f][j].filter
        /\ new[j].rev = IF j = i THEN rev[f] ELSE countCalls[f][j].rev
  BY <1>1, <1>2 DEF CountCall
<1> HIDE DEF new
<1>7. QED
  BY <1>4, <1>5, <1>6 DEF TypeOK

-----------------------------------------------------------------------------
(* Types.                                                                  *)

LEMMA InitTyped == Init => TypeOK
<1> SUFFICES ASSUME Init PROVE TypeOK
  OBVIOUS
<1>1. summaryCalls \in Seq([Features -> Nat] \cup {None})
  <2>1. /\ <<None>> \in Seq([Features -> Nat] \cup {None})
        /\ << >> \in Seq([Features -> Nat] \cup {None})
    OBVIOUS
  <2>2. QED
    BY <2>1 DEF Init
<1>2. /\ isCall \in BOOLEAN /\ isReCall \in BOOLEAN /\ times \in BOOLEAN
      /\ connected \in BOOLEAN /\ lostSummary \in BOOLEAN
  BY DEF Init
<1>3. countCalls \in [Features -> Seq(CountCall)]
  BY DEF Init
<1>4. /\ selected \in Tabs /\ mounted \subseteq Tabs
      /\ loaded \subseteq Features /\ detail \in Features \cup {None}
      /\ summary \in [Features -> Nat] \cup {None}
      /\ badge \in [Features -> CountCall \cup {None}]
  BY DEF Init
<1>5. QED
  BY <1>1, <1>2, <1>3, <1>4 DEF Init, TypeOK

LEMMA NextTyped == TypeOK /\ [Next]_vars => TypeOK'
<1> SUFFICES ASSUME TypeOK, [Next]_vars PROVE TypeOK'
  OBVIOUS
<1> USE DEF TypeOK
<1>1. ASSUME Disconnect \/ Connect \/ LoadTimes \/ HandleRecallTabCount
      PROVE  TypeOK'
  <2>1. CASE Disconnect
    <3>1. lostSummary' \in BOOLEAN
      BY <2>1 DEF Disconnect
    <3>2. lost' \in [Features -> BOOLEAN]
      BY <2>1 DEF Disconnect
    <3>3. /\ arriving' = [g \in Features |-> 0]
          /\ faults' = faults + 1 /\ connected' = FALSE
          /\ UNCHANGED <<rev, changes, times, home, tabs, filter, counts, owed>>
      BY <2>1, Zenon DEF Disconnect
    <3>4. arriving' \in [Features -> Nat] /\ faults' \in Nat
      BY <3>3
    <3>5. connected' \in BOOLEAN
      BY <3>3
    <3>6. UNCHANGED <<rev, changes, times, home, tabs, filter, counts, owed>>
      BY <3>3, Zenon
    <3>7. QED
      BY <3>1, <3>2, <3>4, <3>5, <3>6 DEF home, tabs, counts
  <2>2. CASE Connect
    BY <2>2 DEF Connect, home, tabs, counts
  <2>3. CASE LoadTimes
    BY <2>3 DEF LoadTimes, home, tabs, counts
  <2>4. CASE HandleRecallTabCount
    BY <2>4 DEF HandleRecallTabCount, ReSummarize, server, tabs, counts
  <2>5. QED
    BY <1>1, <2>1, <2>2, <2>3, <2>4
<1>2. CASE AppActive
  <2>1. isReCall' \in BOOLEAN /\ lostSummary' \in BOOLEAN
    BY <1>2 DEF AppActive, ReSummarize
  <2>2. /\ isReCallTabCount' \in [Features -> BOOLEAN]
        /\ lost' \in [Features -> BOOLEAN]
        /\ owed' \in [Features -> BOOLEAN]
    BY <1>2 DEF AppActive, ReCount
  <2>3. needReload' \in [Tabs -> BOOLEAN]
    BY <1>2 DEF AppActive
  <2>4. QED
    BY <1>2, <2>1, <2>2, <2>3 DEF AppActive, server
<1>3. CASE BackToList
  BY <1>3 DEF BackToList, OnFilter, ReCount, server, home
<1>4. CASE Mount
  <2>1. FeaturesOf(selected) \in SUBSET Features
    BY DEF FeaturesOf
  <2>2. GetTabCount(FeaturesOf(selected))
    BY <1>4 DEF Mount
  <2>3. isCallTabCount' \in [Features -> BOOLEAN]
    BY <2>1, <2>2 DEF GetTabCount
  <2>4. countCalls' \in [Features -> Seq(CountCall)]
    <3>1. \A f \in Features : [filter |-> filter[f], rev |-> None] \in CountCall
      BY DEF CountCall
    <3>2. \A f \in Features :
            Append(countCalls[f], [filter |-> filter[f], rev |-> None]) \in Seq(CountCall)
      BY <3>1
    <3>3. QED
      BY <2>2, <3>2 DEF GetTabCount
  <2>5. QED
    BY <1>4, <2>3, <2>4 DEF Mount, server, home
<1>5. ASSUME NEW t \in Tabs, PressTab(t) PROVE TypeOK'
  BY <1>5 DEF PressTab, OnFilter, ReCount, server, home
<1>6. ASSUME NEW f \in Features,
             Change(f) \/ ShowFeature(f) \/ ListChanged(f) \/ OpenDetail(f)
      PROVE  TypeOK'
  <2>1. CASE Change(f)
    <3>1. lostSummary' \in BOOLEAN
      BY <2>1 DEF Change
    <3>2. lost' \in [Features -> BOOLEAN]
      BY <2>1 DEF Change
    <3>3. arriving' \in [Features -> Nat]
      <4>1. arriving' = [arriving EXCEPT ![f] = @ + 1] \/ arriving' = arriving
        BY <2>1 DEF Change
      <4>2. arriving[f] + 1 \in Nat
        OBVIOUS
      <4>3. QED
        BY <4>1, <4>2, Zenon
    <3>4. /\ rev' = [rev EXCEPT ![f] = @ + 1] /\ changes' = changes + 1
          /\ UNCHANGED <<faults, connected, times, home, tabs, filter, counts, owed>>
      BY <2>1 DEF Change
    <3>5. QED
      BY <3>1, <3>2, <3>3, <3>4 DEF home, tabs, counts
  <2>2. CASE ShowFeature(f)
    BY <2>2 DEF ShowFeature, server, home, counts
  <2>3. CASE ListChanged(f)
    BY <2>3 DEF ListChanged, ReCount, server, home, tabs
  <2>4. CASE OpenDetail(f)
    BY <2>4 DEF OpenDetail, server, home, counts
  <2>5. QED
    BY <1>6, <2>1, <2>2, <2>3, <2>4
<1>7. ASSUME NEW f \in Features, NEW x \in Filters, ApplyFilter(f, x)
      PROVE  TypeOK'
  BY <1>7 DEF ApplyFilter, OnFilter, ReCount, home, tabs
<1>8. ASSUME NEW f \in Features, NEW i \in DOMAIN countCalls[f], CountFailed(f, i)
      PROVE  TypeOK'
  <2>1. RemoveAt(countCalls[f], i) \in Seq(CountCall)
    BY <1>8, RemoveAtType
  <2>2. QED
    BY <1>8, <2>1 DEF CountFailed, home, tabs
<1>9. ASSUME NEW i \in DOMAIN summaryCalls,
             SummaryFailed(i) \/ AnswerSummary(i) \/ SummaryAnswered(i)
      PROVE  TypeOK'
  <2>1. RemoveAt(summaryCalls, i) \in Seq([Features -> Nat] \cup {None})
    BY <1>9, RemoveAtType
  <2>2. CASE SummaryFailed(i)
    <3>1. lostSummary' \in BOOLEAN /\ isCall' \in BOOLEAN
      BY <2>2 DEF SummaryFailed
    <3>2. QED
      BY <2>1, <2>2, <3>1 DEF SummaryFailed, tabs, counts
  <2>3. CASE AnswerSummary(i)
    <3>1. summaryCalls' \in Seq([Features -> Nat] \cup {None})
      BY <2>3 DEF AnswerSummary
    <3>2. QED
      BY <2>3, <3>1 DEF AnswerSummary, server, tabs, counts
  <2>4. CASE SummaryAnswered(i)
    <3>1. isCall' \in BOOLEAN /\ summary' \in [Features -> Nat]
      <4>1. summaryCalls[i] \in [Features -> Nat] \cup {None}
        BY <1>9
      <4>2. QED
        BY <2>4, <4>1 DEF SummaryAnswered
    <3>2. QED
      BY <2>1, <2>4, <3>1 DEF SummaryAnswered, server, tabs, counts
  <2>5. QED
    BY <1>9, <2>2, <2>3, <2>4
<1>10. CASE CheckSummarySocial
  <2>1. summaryCalls' \in Seq([Features -> Nat] \cup {None})
    BY <1>10 DEF CheckSummarySocial
  <2>2. isCall' \in BOOLEAN /\ isReCall' \in BOOLEAN
    BY <1>10 DEF CheckSummarySocial
  <2>3. QED
    BY <1>10, <2>1, <2>2 DEF CheckSummarySocial, server, tabs, counts
<1>11. ASSUME NEW f \in Features, SocketNotification(f) PROVE TypeOK'
  <2>1. isReCall' \in BOOLEAN /\ lostSummary' \in BOOLEAN
    BY <1>11 DEF SocketNotification, ReSummarize
  <2>2. /\ isReCallTabCount' \in [Features -> BOOLEAN]
        /\ lost' \in [Features -> BOOLEAN]
        /\ arriving' \in [Features -> Nat]
    BY <1>11 DEF SocketNotification, ReCount
  <2>3. QED
    BY <1>11, <2>1, <2>2 DEF SocketNotification, tabs
<1>12. ASSUME NEW f \in Features, IntervalTabCount(f) PROVE TypeOK'
  BY <1>12, GetTabCountOf DEF IntervalTabCount, server, home, tabs
<1>13. ASSUME NEW f \in Features, NEW i \in DOMAIN countCalls[f],
              AnswerCount(f, i)
       PROVE  TypeOK'
  BY <1>13, AnswerCountOf DEF AnswerCount, server, home, tabs
<1>14. ASSUME NEW f \in Features, NEW i \in DOMAIN countCalls[f],
              CountAnswered(f, i)
       PROVE  TypeOK'
  <2>1. RemoveAt(countCalls[f], i) \in Seq(CountCall)
    BY <1>14, RemoveAtType
  <2>2. countCalls[f][i] \in CountCall
    BY <1>14
  <2>3. QED
    BY <1>14, <2>1, <2>2 DEF CountAnswered, server, home, tabs
<1>15. CASE UNCHANGED vars
  BY <1>15 DEF vars, server, home, tabs, counts
<1>16. QED
  BY <1>1, <1>2, <1>3, <1>4, <1>5, <1>6, <1>7, <1>8, <1>9, <1>10, <1>11,
     <1>12, <1>13, <1>14, <1>15
  DEF Next, Environment, HomeAnswers, CountAnswers

\* Every reachable state is well typed.
THEOREM TypeCorrect == Spec => []TypeOK
<1>1. Init => TypeOK
  BY InitTyped
<1>2. TypeOK /\ [Next]_vars => TypeOK'
  BY NextTyped
<1>3. QED
  BY <1>1, <1>2, PTL DEF Spec

-----------------------------------------------------------------------------
(* One count at a time.                                                    *)

LEMMA InitCounts == Init => FeatureInv
<1> SUFFICES ASSUME Init, NEW f \in Features PROVE CountInv(f)
  BY DEF FeatureInv
<1>1. countCalls[f] = << >> /\ ~isCallTabCount[f] /\ badge[f] = None
      /\ TabOf[f] \notin mounted
  BY DEF Init
<1>2. QED
  BY <1>1 DEF CountInv, OneCount, CountCovered, CountOrdered

\* A step that leaves the requests and the badge of g alone, and lets g ask
\* again whenever it changes what is current.
LEMMA CountFrame ==
  ASSUME NEW g \in Features, TypeOK, TypeOK', CountInv(g),
         countCalls'[g] = countCalls[g],
         isCallTabCount'[g] = isCallTabCount[g],
         badge'[g] = badge[g],
         TabOf[g] \in mounted' <=> TabOf[g] \in mounted,
         rev'[g] >= rev[g],
         TabOf[g] \in mounted /\ AskAgain(g) => AskAgain(g)',
         AskAgain(g)' \/ (rev'[g] = rev[g] /\ filter'[g] = filter[g])
  PROVE  CountInv(g)'
<1>1. OneCount(g)'
  BY DEF CountInv, OneCount
<1>2. CountCovered(g)'
  BY DEF CountInv, CountCovered, CountIsCurrent, Current, CallIsCurrent
<1>3. CountOrdered(g)'
  <2>1. rev[g] \in Nat /\ rev'[g] \in Nat
        /\ countCalls[g] \in Seq(CountCall)
    BY DEF TypeOK
  <2>2. ASSUME badge'[g] # None
        PROVE  badge'[g].rev \in Nat /\ badge'[g].rev <= rev'[g]
    BY <2>1, <2>2 DEF CountInv, CountOrdered
  <2>3. ASSUME NEW i \in DOMAIN countCalls'[g], countCalls'[g][i].rev # None
        PROVE  /\ countCalls'[g][i].rev <= rev'[g]
               /\ badge'[g] # None => badge'[g].rev <= countCalls'[g][i].rev
    <3>1. countCalls[g][i] \in CountCall
      BY <2>1, <2>3
    <3>2. countCalls[g][i].rev \in Nat
      BY <2>3, <3>1 DEF CountCall
    <3>3. QED
      BY <2>1, <2>3, <3>2 DEF CountInv, CountOrdered
  <2>4. QED
    BY <2>2, <2>3 DEF CountOrdered
<1>4. QED
  BY <1>1, <1>2, <1>3 DEF CountInv

\* Asking for the counts of S makes them ask again, and none forgets to.
LEMMA ReCountOf ==
  ASSUME NEW S \in SUBSET Features, ReCount(S), NEW g \in Features
  PROVE  /\ isReCallTabCount[g] => isReCallTabCount'[g]
         /\ g \in S => isReCallTabCount'[g]
         /\ lost[g] \/ isReCallTabCount[g] => lost'[g] \/ isReCallTabCount'[g]
BY DEF ReCount

\* getTabCount: the new request, if one is made, will be answered with what
\* is then current.
LEMMA CountAsked ==
  ASSUME NEW g \in Features, TypeOK, CountInv(g), ~isCallTabCount[g],
         isCallTabCount'[g],
         countCalls'[g] =
           Append(countCalls[g], [filter |-> filter[g], rev |-> None]),
         TabOf[g] \in mounted',
         UNCHANGED <<badge, rev, filter>>
  PROVE  CountInv(g)'
<1>1. countCalls[g] = << >>
  BY DEF CountInv, OneCount, TypeOK
<1>2. countCalls'[g] = << [filter |-> filter[g], rev |-> None] >>
  BY <1>1
<1>3. /\ Len(countCalls'[g]) = 1 /\ DOMAIN countCalls'[g] = {1}
      /\ countCalls'[g][1] = [filter |-> filter[g], rev |-> None]
  BY <1>2
<1>4. OneCount(g)'
  BY <1>3 DEF OneCount
<1>5. CountCovered(g)'
  BY <1>3 DEF CountCovered, CallIsCurrent
<1>6. CountOrdered(g)'
  BY <1>3 DEF CountOrdered, CountInv
<1>7. QED
  BY <1>4, <1>5, <1>6 DEF CountInv

LEMMA NextCounts == TypeOK /\ TypeOK' /\ FeatureInv /\ [Next]_vars => FeatureInv'
<1> SUFFICES ASSUME TypeOK, TypeOK', [Next]_vars,
                    NEW g \in Features, CountInv(g)
             PROVE  CountInv(g)'
  BY DEF FeatureInv
<1> USE DEF AskAgain
<1>0. rev[g] \in Nat /\ arriving[g] \in Nat /\ countCalls[g] \in Seq(CountCall)
  BY DEF TypeOK
<1>1. ASSUME \/ Connect \/ LoadTimes \/ CheckSummarySocial
             \/ HandleRecallTabCount
      PROVE  CountInv(g)'
  BY <1>0, <1>1, CountFrame
  DEF Connect, LoadTimes, CheckSummarySocial, HandleRecallTabCount, tabs, counts,
      server
<1>2. CASE Disconnect
  <2>1. AskAgain(g) => AskAgain(g)'
    BY <1>0, <1>2 DEF Disconnect, counts
  <2>2. QED
    BY <1>0, <1>2, <2>1, CountFrame DEF Disconnect, tabs, counts
<1>3. CASE AppActive
  <2>1. AskAgain(g) => AskAgain(g)'
    <3>1. PICK S \in SUBSET Features : ReCount(S)
      BY <1>3 DEF AppActive, TypeOK, FeaturesOf
    <3>2. QED
      BY <1>3, <3>1, ReCountOf DEF AppActive, server
  <2>2. QED
    BY <1>0, <1>3, <2>1, CountFrame DEF AppActive, server
<1>4. CASE BackToList
  <2>1. AskAgain(g) => AskAgain(g)'
    <3>1. PICK S \in SUBSET Features : ReCount(S)
      BY <1>4 DEF BackToList, OnFilter, TypeOK
    <3>2. QED
      BY <1>4, <3>1, ReCountOf DEF BackToList, server
  <2>2. QED
    BY <1>0, <1>4, <2>1, CountFrame DEF BackToList, server
<1>5. ASSUME NEW t \in Tabs, PressTab(t) PROVE CountInv(g)'
  <2>1. AskAgain(g) => AskAgain(g)'
    <3>1. PICK S \in SUBSET Features : ReCount(S)
      BY <1>5 DEF PressTab, OnFilter, TypeOK, FeaturesOf
    <3>2. QED
      BY <1>5, <3>1, ReCountOf DEF PressTab, server
  <2>2. QED
    BY <1>0, <1>5, <2>1, CountFrame DEF PressTab, server
<1>6. ASSUME NEW f \in Features, ShowFeature(f) \/ OpenDetail(f)
      PROVE  CountInv(g)'
  BY <1>0, <1>6, CountFrame DEF ShowFeature, OpenDetail, counts, server
<1>7. ASSUME NEW f \in Features, ListChanged(f) PROVE CountInv(g)'
  <2>1. AskAgain(g) => AskAgain(g)'
    BY <1>7, ReCountOf DEF ListChanged, server
  <2>2. QED
    BY <1>0, <1>7, <2>1, CountFrame DEF ListChanged, server, tabs
<1>8. ASSUME NEW f \in Features, Change(f) PROVE CountInv(g)'
  <2>1. /\ rev'[g] = IF g = f THEN rev[g] + 1 ELSE rev[g]
        /\ UNCHANGED <<tabs, filter, counts>>
    BY <1>8 DEF Change, TypeOK
  <2>2. g = f => AskAgain(g)'
    BY <1>0, <1>8 DEF Change, TypeOK, counts
  <2>3. AskAgain(g) => AskAgain(g)'
    BY <1>0, <1>8 DEF Change, TypeOK, counts
  <2>4. QED
    BY <1>0, <2>1, <2>2, <2>3, CountFrame DEF tabs, counts
<1>9. ASSUME NEW f \in Features, NEW x \in Filters, ApplyFilter(f, x)
      PROVE  CountInv(g)'
  <2>1. ReCount({f})
    BY <1>9 DEF ApplyFilter, OnFilter
  <2>2. /\ AskAgain(g) => AskAgain(g)'
        /\ g = f => AskAgain(g)'
    BY <1>9, <2>1, ReCountOf DEF ApplyFilter
  <2>3. g # f => filter'[g] = filter[g]
    BY <1>9 DEF ApplyFilter, TypeOK
  <2>4. QED
    BY <1>0, <1>9, <2>2, <2>3, CountFrame DEF ApplyFilter, tabs
<1>10. ASSUME NEW f \in Features, SocketNotification(f) PROVE CountInv(g)'
  <2>1. TabOf[g] \in mounted /\ AskAgain(g) => AskAgain(g)'
    <3>1. CASE g = f /\ TabOf[g] \in mounted
      <4>1. isReCallTabCount'[g]
        BY <1>10, <3>1, ReCountOf DEF SocketNotification
      <4>2. QED
        BY <4>1
    <3>2. CASE g # f
      <4>1. arriving'[g] = arriving[g]
        BY <1>10, <3>2 DEF SocketNotification, TypeOK
      <4>2. lost[g] \/ isReCallTabCount[g] => lost'[g] \/ isReCallTabCount'[g]
        BY <1>10, ReCountOf DEF SocketNotification
      <4>3. QED
        BY <4>1, <4>2
    <3>3. QED
      BY <3>1, <3>2
  <2>2. QED
    BY <1>0, <1>10, <2>1, CountFrame DEF SocketNotification, tabs
<1>11. ASSUME NEW i \in DOMAIN summaryCalls,
              AnswerSummary(i) \/ SummaryAnswered(i) \/ SummaryFailed(i)
       PROVE  CountInv(g)'
  <2>1. UNCHANGED <<rev, arriving, mounted, filter, counts, lost>>
    BY <1>11 DEF AnswerSummary, SummaryAnswered, SummaryFailed, server, tabs
  <2>2. QED
    BY <1>0, <2>1, CountFrame DEF counts
<1>12. CASE Mount
  <2>1. GetTabCount(FeaturesOf(selected))
    BY <1>12 DEF Mount
  <2>2. FeaturesOf(selected) \in SUBSET Features
    BY DEF FeaturesOf
  <2>3. CASE g \in FeaturesOf(selected)
    <3>1. ~isCallTabCount[g] /\ TabOf[g] \in mounted'
      BY <1>12, <2>3 DEF Mount, FeaturesOf, CountInv, OneCount
    <3>2. QED
      BY <1>12, <2>1, <2>2, <2>3, <3>1, GetTabCountOf, CountAsked DEF Mount, server
  <2>4. CASE g \notin FeaturesOf(selected)
    <3>1. TabOf[g] \in mounted' <=> TabOf[g] \in mounted
      BY <1>12, <2>4 DEF Mount, FeaturesOf
    <3>2. /\ countCalls'[g] = countCalls[g]
          /\ isCallTabCount'[g] = isCallTabCount[g]
      BY <2>1, <2>2, <2>4, GetTabCountOf
    <3>3. QED
      BY <1>0, <1>12, <3>1, <3>2, CountFrame DEF Mount, server
  <2>5. QED
    BY <2>3, <2>4
<1>13. ASSUME NEW f \in Features, IntervalTabCount(f) PROVE CountInv(g)'
  <2>1. GetTabCount({f}) /\ UNCHANGED <<server, home, tabs, filter, badge, lost>>
    BY <1>13 DEF IntervalTabCount
  <2>2. CASE g = f
    BY <1>13, <2>1, <2>2, GetTabCountOf, CountAsked
    DEF IntervalTabCount, server, tabs
  <2>3. CASE g # f
    <3>1. isReCallTabCount'[g] = isReCallTabCount[g]
      BY <1>13, <2>3 DEF IntervalTabCount, TypeOK
    <3>2. /\ countCalls'[g] = countCalls[g]
          /\ isCallTabCount'[g] = isCallTabCount[g]
      <4>1. {f} \in SUBSET Features /\ g \notin {f}
        BY <2>3
      <4>2. QED
        BY <2>1, <4>1, GetTabCountOf
    <3>3. QED
      BY <1>0, <2>1, <3>1, <3>2, CountFrame DEF server, tabs
  <2>4. QED
    BY <2>2, <2>3
<1>14. CASE UNCHANGED vars
  <2>1. UNCHANGED <<rev, arriving, mounted, filter, lost>>
    BY <1>14 DEF vars, server, tabs
  <2>2. UNCHANGED counts
    BY <1>14 DEF vars
  <2>3. QED
    BY <1>0, <2>1, <2>2, CountFrame DEF counts
<1>15. ASSUME NEW f \in Features, NEW i \in DOMAIN countCalls[f],
              AnswerCount(f, i)
       PROVE  CountInv(g)'
  <2>1. UNCHANGED <<server, tabs, filter, isCallTabCount, isReCallTabCount,
                    badge, lost>>
    BY <1>15 DEF AnswerCount
  <2>2. CASE g # f
    BY <1>0, <1>15, <2>1, <2>2, AnswerCountOf, CountFrame DEF server, tabs
  <2>3. CASE g = f
    <3>0. Len(countCalls[g]) = 1 /\ i = 1 /\ i \in DOMAIN countCalls[g]
      BY <1>0, <1>15, <2>3 DEF CountInv, OneCount
    <3>1. /\ Len(countCalls[g]) = 1 /\ i = 1 /\ Len(countCalls'[g]) = 1
          /\ countCalls[g][1].rev = None
          /\ countCalls'[g][1].rev = rev[g]
          /\ countCalls'[g][1].filter = countCalls[g][1].filter
      <4>1. countCalls[g][1].rev = None
        BY <1>15, <2>3, <3>0 DEF AnswerCount
      <4>2. QED
        BY <1>15, <2>3, <3>0, <4>1, AnswerCountOf
    <3>2. DOMAIN countCalls'[g] = {1}
      BY <3>1 DEF TypeOK
    <3>3. OneCount(g)'
      BY <2>1, <3>1 DEF OneCount, CountInv, tabs
    <3>4. CountCovered(g)'
      BY <2>1, <3>1 DEF CountCovered, CountInv, CallIsCurrent, tabs, server
    <3>5. CountOrdered(g)'
      BY <1>0, <2>1, <3>1, <3>2 DEF CountOrdered, CountInv, server
    <3>6. QED
      BY <3>3, <3>4, <3>5 DEF CountInv
  <2>4. QED
    BY <2>2, <2>3
<1>16. ASSUME NEW f \in Features, NEW i \in DOMAIN countCalls[f],
              CountAnswered(f, i)
       PROVE  CountInv(g)'
  <2>1. UNCHANGED <<server, tabs, filter, isReCallTabCount, lost>>
    BY <1>16 DEF CountAnswered
  <2>2. CASE g # f
    <3>1. /\ countCalls'[g] = countCalls[g] /\ badge'[g] = badge[g]
          /\ isCallTabCount'[g] = isCallTabCount[g]
      BY <1>16, <2>2 DEF CountAnswered, TypeOK
    <3>2. QED
      BY <1>0, <2>1, <3>1, CountFrame DEF server, tabs
  <2>3. CASE g = f
    <3>1. Len(countCalls[g]) = 1 /\ i = 1
      BY <1>0, <1>16, <2>3 DEF CountInv, OneCount
    <3>2. RemoveAt(countCalls[g], i) = << >>
      BY <1>0, <1>16, <2>3, <3>1, RemoveOnly
    <3>3. /\ countCalls'[g] = << >> /\ badge'[g] = countCalls[g][1]
          /\ ~isCallTabCount'[g] /\ countCalls[g][1].rev # None
      BY <1>16, <2>3, <3>1, <3>2 DEF CountAnswered, TypeOK
    <3>4. countCalls[g][1] \in CountCall
      BY <1>0, <3>1
    <3>5. OneCount(g)'
      BY <3>3 DEF OneCount
    <3>6. CountCovered(g)'
      <4>1. CallIsCurrent(g) => countCalls[g][1] = Current(g)
        BY <3>3, <3>4 DEF CallIsCurrent, Current, CountCall
      <4>2. Current(g)' = Current(g)
        BY <2>1 DEF Current, server
      <4>3. QED
        BY <2>1, <3>1, <3>3, <4>1, <4>2
        DEF CountCovered, CountInv, CountIsCurrent, server, tabs
    <3>7. CountOrdered(g)'
      <4>1. countCalls[g][1].rev \in Nat /\ countCalls[g][1].rev <= rev[g]
        BY <1>0, <3>1, <3>3, <3>4 DEF CountInv, CountOrdered, CountCall
      <4>2. QED
        BY <2>1, <3>3, <4>1 DEF CountOrdered, server
    <3>8. QED
      BY <3>5, <3>6, <3>7 DEF CountInv
  <2>4. QED
    BY <2>2, <2>3
<1>17. ASSUME NEW f \in Features, NEW i \in DOMAIN countCalls[f],
              CountFailed(f, i)
       PROVE  CountInv(g)'
  <2>1. UNCHANGED <<rev, arriving, tabs, filter, isReCallTabCount, badge>>
    BY <1>17 DEF CountFailed
  <2>2. CASE g # f
    <3>1. /\ countCalls'[g] = countCalls[g] /\ lost'[g] = lost[g]
          /\ isCallTabCount'[g] = isCallTabCount[g]
      BY <1>17, <2>2 DEF CountFailed, TypeOK
    <3>2. QED
      BY <1>0, <2>1, <3>1, CountFrame DEF tabs
  <2>3. CASE g = f
    <3>1. RemoveAt(countCalls[g], i) = << >>
      BY <1>0, <1>17, <2>3, RemoveOnly DEF CountInv, OneCount
    <3>2. /\ countCalls'[g] = << >> /\ ~isCallTabCount'[g]
          /\ lost'[g] \/ isReCallTabCount'[g]
      BY <1>17, <2>1, <2>3, <3>1 DEF CountFailed, TypeOK
    <3>3. OneCount(g)' /\ CountCovered(g)'
      BY <3>2 DEF OneCount, CountCovered
    <3>4. CountOrdered(g)'
      BY <2>1, <3>2 DEF CountOrdered, CountInv
    <3>5. QED
      BY <3>3, <3>4 DEF CountInv
  <2>4. QED
    BY <2>2, <2>3
<1>18. QED
  BY <1>1, <1>2, <1>3, <1>4, <1>5, <1>6, <1>7, <1>8, <1>9, <1>10, <1>11,
     <1>12, <1>13, <1>14, <1>15, <1>16, <1>17
  DEF Next, Environment, HomeAnswers, CountAnswers

-----------------------------------------------------------------------------
(* The summary.                                                            *)

LEMMA InitSummary == Init => SummaryInv
<1> SUFFICES ASSUME Init PROVE SummaryInv
  OBVIOUS
<1>1. CASE times
  <2>1. summaryCalls = << None >> /\ isCall
    BY <1>1 DEF Init
  <2>2. Len(summaryCalls) = 1 /\ DOMAIN summaryCalls = {1} /\ summaryCalls[1] = None
    BY <2>1
  <2>3. summary = None
    BY DEF Init
  <2>4. QED
    BY <2>1, <2>2, <2>3 DEF SummaryInv, OneSummary, SummaryCovered, SummaryOrdered
<1>2. CASE ~times
  <2>1. summaryCalls = << >> /\ ~isCall /\ isReCall
    BY <1>2 DEF Init
  <2>2. summary = None
    BY DEF Init
  <2>3. QED
    BY <2>1, <2>2
    DEF SummaryInv, OneSummary, SummaryCovered, SummarizeAgain, SummaryOrdered
<1>3. QED
  BY <1>1, <1>2

\* A step that leaves the requests and the summary alone, and lets Home ask
\* again whenever a count changes.
LEMMA SummaryFrame ==
  ASSUME TypeOK, TypeOK', SummaryInv,
         UNCHANGED <<summaryCalls, summary, isCall>>,
         \A f \in Features : rev'[f] >= rev[f],
         SummarizeAgain => SummarizeAgain',
         SummarizeAgain' \/ rev' = rev
  PROVE  SummaryInv'
<1>1. OneSummary'
  BY DEF SummaryInv, OneSummary
<1>2. SummaryCovered'
  BY DEF SummaryInv, SummaryCovered, SummaryIsCurrent
<1>3. SummaryOrdered'
  <2> SUFFICES ASSUME NEW f \in Features
               PROVE  /\ summary # None => summary[f] <= rev'[f]
                      /\ \A i \in DOMAIN summaryCalls :
                           summaryCalls[i] # None =>
                             /\ summaryCalls[i][f] <= rev'[f]
                             /\ summary # None => summary[f] <= summaryCalls[i][f]
    BY DEF SummaryOrdered
  <2>1. rev[f] \in Nat /\ rev'[f] \in Nat
    BY DEF TypeOK
  <2>2. summary # None => summary[f] \in Nat
    BY DEF TypeOK
  <2>3. \A i \in DOMAIN summaryCalls :
          summaryCalls[i] # None => summaryCalls[i][f] \in Nat
    <3>1. \A i \in DOMAIN summaryCalls : summaryCalls[i] \in [Features -> Nat] \cup {None}
      BY DEF TypeOK
    <3>2. QED
      BY <3>1
  <2>4. QED
    BY <2>1, <2>2, <2>3 DEF SummaryInv, SummaryOrdered
<1>4. QED
  BY <1>1, <1>2, <1>3 DEF SummaryInv

LEMMA NextSummary == TypeOK /\ TypeOK' /\ SummaryInv /\ [Next]_vars => SummaryInv'
<1> SUFFICES ASSUME TypeOK, TypeOK', SummaryInv, [Next]_vars
             PROVE  SummaryInv'
  OBVIOUS
<1>0. /\ \A f \in Features : rev[f] \in Nat /\ arriving[f] \in Nat
      /\ summaryCalls \in Seq([Features -> Nat] \cup {None})
  BY DEF TypeOK
<1> USE DEF SummarizeAgain
<1>1. ASSUME UNCHANGED <<rev, arriving, home, lostSummary>> PROVE SummaryInv'
  BY <1>0, <1>1, SummaryFrame DEF home
<1>2. ASSUME Connect \/ LoadTimes \/ BackToList \/ Mount PROVE SummaryInv'
  BY <1>1, <1>2 DEF Connect, LoadTimes, BackToList, Mount, server
<1>3. ASSUME NEW t \in Tabs, PressTab(t) PROVE SummaryInv'
  BY <1>1, <1>3 DEF PressTab, server
<1>4. ASSUME NEW f \in Features,
             \/ ShowFeature(f) \/ ListChanged(f) \/ OpenDetail(f)
             \/ IntervalTabCount(f)
             \/ \E x \in Filters : ApplyFilter(f, x)
             \/ \E i \in DOMAIN countCalls[f] :
                  AnswerCount(f, i) \/ CountAnswered(f, i) \/ CountFailed(f, i)
      PROVE  SummaryInv'
  BY <1>1, <1>4 DEF ShowFeature, ListChanged, OpenDetail, IntervalTabCount,
     ApplyFilter, AnswerCount, CountAnswered, CountFailed, server
<1>5. CASE UNCHANGED vars
  BY <1>1, <1>5 DEF vars, server
<1>6. CASE Disconnect
  <2>1. SummarizeAgain => SummarizeAgain'
    BY <1>0, <1>6 DEF Disconnect, home
  <2>2. QED
    BY <1>0, <1>6, <2>1, SummaryFrame DEF Disconnect, home
<1>7. ASSUME \/ AppActive \/ HandleRecallTabCount
             \/ \E f \in Features : SocketNotification(f)
      PROVE  SummaryInv'
  <2>1. isReCall' /\ UNCHANGED <<rev, summaryCalls, summary, isCall>>
    BY <1>7 DEF AppActive, HandleRecallTabCount, SocketNotification,
       ReSummarize, server
  <2>2. QED
    BY <1>0, <2>1, SummaryFrame
<1>8. ASSUME NEW f \in Features, Change(f) PROVE SummaryInv'
  <2>1. /\ \A g \in Features : rev'[g] >= rev[g]
        /\ UNCHANGED home
    BY <1>0, <1>8 DEF Change, TypeOK
  <2>2. SummarizeAgain'
    <3>1. CASE connected
      <4>1. arriving'[f] = arriving[f] + 1
        BY <1>8, <3>1 DEF Change, TypeOK
      <4>2. QED
        BY <1>0, <4>1
    <3>2. CASE ~connected
      <4>1. lostSummary' \/ isReCall'
        BY <1>8, <3>2 DEF Change, home
      <4>2. QED
        BY <4>1
    <3>3. QED
      BY <3>1, <3>2
  <2>3. UNCHANGED <<summaryCalls, summary, isCall>>
    BY <2>1 DEF home
  <2> HIDE DEF SummarizeAgain
  <2>4. QED
    BY <2>1, <2>2, <2>3, SummaryFrame
<1>9. CASE CheckSummarySocial
  <2>1. summaryCalls = << >>
    BY <1>0, <1>9 DEF CheckSummarySocial, SummaryInv, OneSummary
  <2>2. /\ summaryCalls' = << None >> /\ isCall'
        /\ UNCHANGED <<summary, rev>>
    BY <1>9, <2>1 DEF CheckSummarySocial, server
  <2>3. Len(summaryCalls') = 1 /\ DOMAIN summaryCalls' = {1} /\ summaryCalls'[1] = None
    BY <2>2
  <2>4. OneSummary' /\ SummaryCovered'
    BY <2>2, <2>3 DEF OneSummary, SummaryCovered
  <2>5. SummaryOrdered'
    BY <2>2, <2>3 DEF SummaryOrdered, SummaryInv
  <2>6. QED
    BY <2>4, <2>5 DEF SummaryInv
<1>10. ASSUME NEW i \in DOMAIN summaryCalls,
              AnswerSummary(i) \/ SummaryAnswered(i) \/ SummaryFailed(i)
       PROVE  SummaryInv'
  <2>1. Len(summaryCalls) = 1 /\ i = 1 /\ DOMAIN summaryCalls = {1} /\ isCall
    BY <1>0, <1>10 DEF SummaryInv, OneSummary
  <2>2. RemoveAt(summaryCalls, i) = << >>
    BY <1>0, <1>10, <2>1, RemoveOnly
  <2>3. summaryCalls[1] \in [Features -> Nat] \cup {None}
    <3>1. summaryCalls[i] \in [Features -> Nat] \cup {None}
      BY <1>0, <1>10
    <3>2. QED
      BY <2>1, <3>1
  <2>4. CASE AnswerSummary(i)
    <3>1. /\ summaryCalls[1] = None
          /\ summaryCalls' = [summaryCalls EXCEPT ![1] = rev]
          /\ UNCHANGED <<rev, arriving, isCall, isReCall, summary, lostSummary>>
      BY <2>1, <2>4 DEF AnswerSummary, server
    <3>2. Len(summaryCalls') = 1 /\ DOMAIN summaryCalls' = {1} /\ summaryCalls'[1] = rev
      BY <1>0, <2>1, <3>1
    <3>3. OneSummary'
      BY <2>1, <3>1, <3>2 DEF OneSummary
    <3>4. SummaryCovered'
      BY <3>1, <3>2 DEF SummaryCovered
    <3>5. SummaryOrdered'
      BY <1>0, <3>1, <3>2 DEF SummaryOrdered, SummaryInv
    <3>6. QED
      BY <3>3, <3>4, <3>5 DEF SummaryInv
  <2>5. CASE SummaryAnswered(i)
    <3>1. /\ summaryCalls[1] # None
          /\ summary' = summaryCalls[1]
          /\ summaryCalls' = << >>
          /\ isCall' = FALSE
          /\ UNCHANGED <<rev, arriving, isReCall, lostSummary>>
      BY <2>1, <2>2, <2>5 DEF SummaryAnswered, server
    <3>2. OneSummary'
      BY <3>1 DEF OneSummary
    <3>3. SummaryCovered'
      <4>1. SummarizeAgain \/ summaryCalls[1] = rev
        BY <2>1, <3>1 DEF SummaryInv, SummaryCovered
      <4>2. QED
        BY <3>1, <4>1 DEF SummaryCovered, SummaryIsCurrent
    <3>4. SummaryOrdered'
      BY <2>1, <3>1 DEF SummaryOrdered, SummaryInv
    <3>5. QED
      BY <3>2, <3>3, <3>4 DEF SummaryInv
  <2>6. CASE SummaryFailed(i)
    <3>1. /\ summaryCalls' = << >>
          /\ isCall' = FALSE
          /\ lostSummary' \/ isReCall'
          /\ UNCHANGED <<rev, summary>>
      BY <2>2, <2>6 DEF SummaryFailed
    <3>2. OneSummary' /\ SummaryCovered'
      BY <3>1 DEF OneSummary, SummaryCovered
    <3>3. SummaryOrdered'
      BY <3>1 DEF SummaryOrdered, SummaryInv
    <3>4. QED
      BY <3>2, <3>3 DEF SummaryInv
  <2>7. QED
    BY <1>10, <2>4, <2>5, <2>6
<1>11. QED
  BY <1>2, <1>3, <1>4, <1>5, <1>6, <1>7, <1>8, <1>9, <1>10
  DEF Next, Environment, HomeAnswers, CountAnswers

-----------------------------------------------------------------------------
(* The lists.                                                              *)

LEMMA InitOwed == Init => OwedInv
BY DEF Init, OwedInv, OwedReloadIsMarked

LEMMA NextOwed == TypeOK /\ OwedInv /\ [Next]_vars => OwedInv'
<1> SUFFICES ASSUME TypeOK, OwedInv, [Next]_vars, NEW f \in Features
             PROVE  /\ FeaturesOf(TabOf[f]) = {f} /\ owed'[f] => needReload'[TabOf[f]]
                    /\ owed'[f] => f \in loaded'
  BY DEF OwedInv, OwedReloadIsMarked
<1> DEFINE Goal == /\ FeaturesOf(TabOf[f]) = {f} /\ owed'[f] => needReload'[TabOf[f]]
                   /\ owed'[f] => f \in loaded'
<1>0. /\ FeaturesOf(TabOf[f]) = {f} /\ owed[f] => needReload[TabOf[f]]
      /\ owed[f] => f \in loaded
      /\ TabOf[f] \in Tabs /\ f \in FeaturesOf(TabOf[f])
  BY TabAssumption DEF OwedInv, OwedReloadIsMarked, FeaturesOf
<1>1. ASSUME owed' = owed, needReload' = needReload, loaded \subseteq loaded'
      PROVE  Goal
  BY <1>0, <1>1
<1>2. ASSUME \/ Disconnect \/ Connect \/ LoadTimes \/ CheckSummarySocial
             \/ Mount \/ HandleRecallTabCount \/ UNCHANGED vars
             \/ \E i \in DOMAIN summaryCalls :
                  AnswerSummary(i) \/ SummaryAnswered(i) \/ SummaryFailed(i)
      PROVE  Goal
  BY <1>1, <1>2 DEF Disconnect, Connect, LoadTimes, CheckSummarySocial, Mount,
     HandleRecallTabCount, AnswerSummary, SummaryAnswered, SummaryFailed, vars, tabs
<1>3. ASSUME NEW g \in Features,
             \/ Change(g) \/ ShowFeature(g) \/ ListChanged(g) \/ OpenDetail(g)
             \/ SocketNotification(g) \/ IntervalTabCount(g)
             \/ \E i \in DOMAIN countCalls[g] :
                  AnswerCount(g, i) \/ CountAnswered(g, i) \/ CountFailed(g, i)
      PROVE  Goal
  BY <1>1, <1>3 DEF Change, ShowFeature, ListChanged, OpenDetail,
     SocketNotification, IntervalTabCount, AnswerCount, CountAnswered,
     CountFailed, tabs
<1>4. ASSUME NEW g \in Features, NEW x \in Filters, ApplyFilter(g, x) PROVE Goal
  <2>1. owed'[f] => owed[f]
    BY <1>4 DEF ApplyFilter, OnFilter
  <2>2. QED
    BY <1>0, <1>4, <2>1 DEF ApplyFilter, tabs
<1>5. ASSUME NEW t \in Tabs, PressTab(t) PROVE Goal
  <2>1. /\ owed'[f] => owed[f]
        /\ needReload[t] /\ f \in FeaturesOf(t) /\ f \in loaded => ~owed'[f]
        /\ loaded' = loaded
        /\ t # TabOf[f] => needReload'[TabOf[f]] = needReload[TabOf[f]]
    BY <1>0, <1>5 DEF PressTab, OnFilter, TypeOK
  <2>2. QED
    BY <1>0, <2>1
<1>6. CASE AppActive
  <2>1. /\ loaded' = loaded
        /\ owed'[f] => f \in loaded
        /\ owed'[f] => TabOf[f] # selected \/ detail # None
    BY <1>0, <1>6 DEF AppActive, FeaturesOf
  <2>2. TabOf[f] # selected \/ detail # None => needReload'[TabOf[f]]
    BY <1>0, <1>6 DEF AppActive
  <2>3. QED
    BY <2>1, <2>2
<1>7. CASE BackToList
  <2> DEFINE here == {g \in loaded : /\ CodeOf[g] = CodeOf[detail]
                                     /\ TabOf[g] = selected
                                     /\ needReload[selected]}
  <2>1. /\ loaded' = loaded
        /\ owed'[f] <=> f \notin here /\ owed[f]
        /\ needReload' = [needReload EXCEPT ![selected] = @ /\ here = {}]
    BY <1>7 DEF BackToList, OnFilter
  <2>2. CASE TabOf[f] # selected \/ here = {}
    BY <1>0, <2>1, <2>2 DEF TypeOK
  <2>3. CASE TabOf[f] = selected /\ here # {}
    <3>1. FeaturesOf(TabOf[f]) = {f} => f \in here
      BY <2>3 DEF FeaturesOf, TypeOK
    <3>2. QED
      BY <1>0, <2>1, <3>1
  <2>4. QED
    BY <2>2, <2>3
<1>8. QED
  BY <1>2, <1>3, <1>4, <1>5, <1>6, <1>7
  DEF Next, Environment, HomeAnswers, CountAnswers

-----------------------------------------------------------------------------
(* The theorems.                                                           *)

LEMMA Invariance == Spec => [](TypeOK /\ IInv)
<1>1. Init => TypeOK /\ IInv
  BY InitTyped, InitCounts, InitSummary, InitOwed DEF IInv
<1>2. TypeOK /\ IInv /\ [Next]_vars => (TypeOK /\ IInv)'
  BY NextTyped, NextCounts, NextSummary, NextOwed DEF IInv
<1>3. QED
  BY <1>1, <1>2, PTL DEF Spec

\* A count that is behind the server is asked for again, unless its event was
\* lost with the socket or its request failed.
THEOREM CountsAreAskedFor == Spec => []StaleCountIsAskedFor
<1>1. TypeOK /\ IInv => StaleCountIsAskedFor
  <2> SUFFICES ASSUME TypeOK, IInv, NEW f \in Features,
                      TabOf[f] \in mounted, ~CountIsCurrent(f), ~AskAgain(f)
               PROVE  \E i \in DOMAIN countCalls[f] :
                        /\ countCalls[f][i].filter = filter[f]
                        /\ countCalls[f][i].rev \in {None, rev[f]}
    BY DEF StaleCountIsAskedFor, AskAgain
  <2>1. Len(countCalls[f]) = 1 /\ CallIsCurrent(f)
    BY DEF IInv, FeatureInv, CountInv, OneCount, CountCovered
  <2>2. 1 \in DOMAIN countCalls[f]
    BY <2>1 DEF TypeOK
  <2>3. QED
    BY <2>1, <2>2 DEF CallIsCurrent
<1>2. QED
  BY <1>1, Invariance, PTL

\* The marks of the tabs are asked for again too.
THEOREM SummaryIsAskedFor == Spec => []StaleSummaryIsAskedFor
<1>1. TypeOK /\ IInv => StaleSummaryIsAskedFor
  <2> SUFFICES ASSUME TypeOK, IInv, ~SummaryIsCurrent, ~SummarizeAgain
               PROVE  \E i \in DOMAIN summaryCalls : summaryCalls[i] \in {None, rev}
    BY DEF StaleSummaryIsAskedFor, SummarizeAgain
  <2>1. Len(summaryCalls) = 1 /\ summaryCalls[1] \in {None, rev}
    BY DEF IInv, SummaryInv, OneSummary, SummaryCovered
  <2>2. 1 \in DOMAIN summaryCalls
    BY <2>1 DEF TypeOK
  <2>3. QED
    BY <2>1, <2>2
<1>2. QED
  BY <1>1, Invariance, PTL

\* A list that missed events is reloaded or its tab is marked.
THEOREM OwedReloadsAreMarked == Spec => []OwedReloadIsMarked
<1>1. IInv => OwedReloadIsMarked
  BY DEF IInv, OwedInv
<1>2. QED
  BY <1>1, Invariance, PTL

-----------------------------------------------------------------------------
(* The refinement: the badges, and the marks of the tabs, are lagging       *)
(* copies of the server's counts.                                          *)

\* Only three actions concern the copies.
Other == UNCHANGED <<rev, badge, summary>>

LEMMA StepKinds ==
  ASSUME [Next]_vars
  PROVE  \/ Other
         \/ \E f \in Features : Change(f)
         \/ \E f \in Features : \E i \in DOMAIN countCalls[f] : CountAnswered(f, i)
         \/ \E i \in DOMAIN summaryCalls : SummaryAnswered(i)
<1>1. ASSUME \/ Disconnect \/ Connect \/ LoadTimes \/ AppActive \/ BackToList
             \/ Mount \/ CheckSummarySocial \/ HandleRecallTabCount
             \/ UNCHANGED vars
             \/ \E t \in Tabs : PressTab(t)
             \/ \E i \in DOMAIN summaryCalls : AnswerSummary(i) \/ SummaryFailed(i)
      PROVE  Other
  BY <1>1 DEF Disconnect, Connect, LoadTimes, AppActive, BackToList, Mount,
     CheckSummarySocial, HandleRecallTabCount, PressTab, AnswerSummary,
     SummaryFailed, Other, vars, server, home, counts
<1>2. ASSUME NEW g \in Features,
             \/ ShowFeature(g) \/ ListChanged(g) \/ OpenDetail(g)
             \/ SocketNotification(g) \/ IntervalTabCount(g)
             \/ \E x \in Filters : ApplyFilter(g, x)
             \/ \E i \in DOMAIN countCalls[g] : AnswerCount(g, i) \/ CountFailed(g, i)
      PROVE  Other
  BY <1>2 DEF ShowFeature, ListChanged, OpenDetail, SocketNotification,
     IntervalTabCount, ApplyFilter, AnswerCount, CountFailed, Other,
     server, home, counts
<1>3. QED
  BY <1>1, <1>2 DEF Next, Environment, HomeAnswers, CountAnswers

\* The revision of the count on display, as the refinement maps it.
ShownCount == [f \in Features |-> IF badge[f] = None THEN None ELSE badge[f].rev]
ShownMarks == IF summary = None THEN [f \in Features |-> None] ELSE summary

\* A step of the application is a step of the lagging copy of the counts.
LEMMA CountsStep ==
  ASSUME TypeOK, TypeOK', IInv, [Next]_vars
  PROVE  [Badges!Next]_<<rev, ShownCount>>
<1>1. CASE Other
  BY <1>1 DEF Other, ShownCount
<1>2. ASSUME NEW f \in Features, Change(f)
      PROVE  Badges!Change(f)
  BY <1>2 DEF Change, counts, Badges!Change
<1>3. ASSUME NEW f \in Features, NEW i \in DOMAIN countCalls[f], CountAnswered(f, i)
      PROVE  Badges!Refresh({f})
  <2> DEFINE new == countCalls[f][i]
  <2>1. /\ rev' = rev
        /\ badge' = [badge EXCEPT ![f] = new]
        /\ new.rev # None
    BY <1>3 DEF CountAnswered, server
  <2>2. new \in CountCall /\ new.rev \in Nat /\ new # None
    <3>1. new \in CountCall
      BY DEF TypeOK
    <3>2. QED
      BY <2>1, <3>1, NoneAssumption DEF CountCall
  <2>3. badge \in [Features -> CountCall \cup {None}]
    BY DEF TypeOK
  <2>4. /\ new.rev <= rev[f]
        /\ badge[f] # None => badge[f].rev <= new.rev /\ badge[f].rev \in Nat
    BY <2>1 DEF IInv, FeatureInv, CountInv, CountOrdered
  <2>5. ShownCount' \in [Features -> Nat \cup {None}]
    <3>1. \A g \in Features : badge'[g] \in CountCall \cup {None}
      BY DEF TypeOK
    <3>2. \A g \in Features : badge'[g] # None => badge'[g].rev \in Nat \cup {None}
      BY <3>1 DEF CountCall
    <3>3. QED
      BY <3>2 DEF ShownCount
  <2>6. \A g \in Features \ {f} : ShownCount'[g] = ShownCount[g]
    BY <2>1, <2>3 DEF ShownCount
  <2>7. /\ badge'[f] = new
        /\ ShownCount'[f] = new.rev
        /\ ShownCount[f] = IF badge[f] = None THEN None ELSE badge[f].rev
    BY <2>1, <2>2, <2>3 DEF ShownCount
  <2>8. /\ ShownCount'[f] # None
        /\ ShownCount'[f] <= rev[f]
        /\ ShownCount[f] # None => ShownCount'[f] >= ShownCount[f]
    BY <2>2, <2>4, <2>7, NoneAssumption
  <2>9. QED
    BY <2>1, <2>5, <2>6, <2>8 DEF Badges!Refresh, ShownCount
<1>4. ASSUME NEW i \in DOMAIN summaryCalls, SummaryAnswered(i)
      PROVE  UNCHANGED <<rev, ShownCount>>
  BY <1>4 DEF SummaryAnswered, server, counts, ShownCount
<1>5. QED
  BY <1>1, <1>2, <1>3, <1>4, StepKinds DEF Badges!Next, ShownCount

\* And of the lagging copy of the marks.
LEMMA MarksStep ==
  ASSUME TypeOK, TypeOK', IInv, [Next]_vars
  PROVE  [Marks!Next]_<<rev, ShownMarks>>
<1>1. CASE Other
  BY <1>1 DEF Other, ShownMarks
<1>2. ASSUME NEW f \in Features, Change(f)
      PROVE  Marks!Change(f)
  BY <1>2 DEF Change, home, Marks!Change
<1>3. ASSUME NEW f \in Features, NEW i \in DOMAIN countCalls[f], CountAnswered(f, i)
      PROVE  UNCHANGED <<rev, ShownMarks>>
  BY <1>3 DEF CountAnswered, server, home, ShownMarks
<1>4. ASSUME NEW i \in DOMAIN summaryCalls, SummaryAnswered(i)
      PROVE  Marks!Refresh(Features)
  <2> DEFINE new == summaryCalls[i]
  <2>1. rev' = rev /\ summary' = new /\ new # None
    BY <1>4 DEF SummaryAnswered, server
  <2>2. new \in [Features -> Nat]
    BY <2>1 DEF TypeOK
  <2>3. ShownMarks' = new
    BY <2>1 DEF ShownMarks
  <2>4. \A f \in Features :
          /\ new[f] <= rev[f]
          /\ summary # None => summary[f] <= new[f] /\ summary[f] \in Nat
    BY <2>1 DEF IInv, SummaryInv, SummaryOrdered, TypeOK
  <2>5. \A f \in Features :
          /\ new[f] \in Nat /\ new[f] # None
          /\ ShownMarks[f] # None => new[f] >= ShownMarks[f]
    BY <2>2, <2>4, NoneAssumption DEF ShownMarks
  <2>6. QED
    BY <2>1, <2>2, <2>3, <2>4, <2>5 DEF Marks!Refresh, ShownMarks
<1>5. QED
  BY <1>1, <1>2, <1>3, <1>4, StepKinds DEF Marks!Next, ShownMarks

\* The badges and the marks of the tabs lag behind the server's counts but
\* never go back, whatever is lost, fails or is delayed.
THEOREM BadgesAreLaggingCopies == Spec => BadgesLag
<1>1. Init => Badges!Init /\ Marks!Init
  BY DEF Init, Badges!Init, Marks!Init
<1>2. TypeOK /\ IInv /\ TypeOK' /\ [Next]_vars =>
        [Badges!Next]_<<rev, ShownCount>> /\ [Marks!Next]_<<rev, ShownMarks>>
  BY CountsStep, MarksStep
<1>3. QED
  BY <1>1, <1>2, Invariance, PTL
  DEF Spec, BadgesLag, Badges!Spec, Marks!Spec, ShownCount, ShownMarks
=============================================================================
