-------------------------- MODULE Comments_proofs --------------------------
(***************************************************************************)
(* Proofs about Comments, for any pages, replies, screens and bounds: the  *)
(* state keeps its type, a reply shown as being sent is on its way, no     *)
(* reply comes to be shown twice and none vanishes.                        *)
(***************************************************************************)
EXTENDS Comments, FiniteSetTheorems, SequenceTheorems, WellFoundedInduction, TLAPS

-----------------------------------------------------------------------------
(* The inductive invariants.                                               *)

\* The events on their way and in the queues.
Events == socket \cup UNION {Range(queues[l][t]) : l \in Listeners, t \in Types}

\* A page older than `from': replies the server had made, each once.
OfPage(p, from) ==
  /\ p.next < from
  /\ \A i \in DOMAIN p.data : p.data[i] \in 1..(from - 1)
  /\ \A i, j \in DOMAIN p.data : p.data[i] = p.data[j] => i = j

\* What the handlers change: replies that the server has made, for a comment
\* that is there.
Fits(s) ==
  /\ s \in [tree : Seq(Item), details : SUBSET Detail]
  /\ gen = 0 => s.tree = << >>
  /\ \A i \in DOMAIN s.tree : s.tree[i].id <= posted
  /\ \A r \in s.details : r.id # 0 /\ r.id <= posted /\ r.gen # 0

\* Events tell of replies that the server has made, or deleted, or refused.
Tells(e) ==
  /\ e.id <= posted
  /\ e.type = "sub" => e.id # 0
  /\ e.type = "delete" => e.id \in deleted
  /\ e.type # "reply" => e.detect = 0

\* The comments that were loaded and those that are being loaded belong to
\* screens that were opened.
CountInv ==
  /\ IsFiniteSet(loads) /\ gen + Cardinality(loads) <= opened
  /\ open => opened # 0
  /\ more \/ pages # {} => gen # 0

EventsMade == \A e \in Events : Tells(e)
QueuesMade ==
  \A l \in Listeners, t \in Types : \A e \in Range(queues[l][t]) : e.type = t
LoadMade(r) == OfPage(r.answer, posted + 1)
PageMade(r) ==
  r.gen # 0 /\ r.from # 0 /\ r.from <= posted /\ OfPage(r.answer, r.from)
DeletionMade(r) == r.id # 0 /\ r.id <= posted /\ (r.answer = "done" => r.id \in deleted)
MadeInv ==
  /\ Fits(Now) /\ next <= posted
  /\ EventsMade /\ QueuesMade
  /\ \A r \in loads : LoadMade(r)
  /\ \A r \in pages : PageMade(r)
  /\ \A r \in deletes : DeletionMade(r)

TypeInv == TypeOK /\ CountInv /\ MadeInv

\* A reply of the agent that is shown as being sent still waits for the server
\* or for its event.
Awaited(d) ==
  \/ \E r \in sends : r.detect = d /\ r.answer # "done"
  \/ About(d, socket)
  \/ About(d, Range(queues[List]["reply"]))
AwaitedInv == \A d \in 1..MaxOwn : Sending(d) => Awaited(d)

\* One number is told of a reply from this device, and no other event tells of
\* that number, but its deletion.
SameReply(e, f) ==
  e.type # "delete" /\ f.type # "delete" /\ e.id # 0 /\ f.id # 0 =>
    /\ e.id = f.id => e.detect = f.detect
    /\ e.detect = f.detect /\ e.detect # 0 => e.id = f.id
NumberInv ==
  /\ \A e, f \in Events : SameReply(e, f)
  /\ \A e \in Events : e.detect <= own
  /\ \A i \in DOMAIN tree : tree[i].detect <= own
  /\ \A r \in sends : r.detect # 0 /\ r.detect <= own
  /\ \A r, q \in sends : r.detect = q.detect => r = q
  /\ \A r \in sends : r.answer = "waiting" =>
       /\ \A e \in Events : e.detect # r.detect
       /\ \A i \in DOMAIN tree : tree[i].detect = r.detect => tree[i].id = 0

\* As long as a reply of the agent is shown by its detect id, its number is
\* nowhere else: on no other reply, and not among those being fetched.
Mine(e, i, s) == e.id # 0 /\ e.detect # 0 /\ s.tree[i].detect = e.detect
Apart(s) ==
  /\ \A i, j \in DOMAIN s.tree :
       s.tree[i].detect = s.tree[j].detect /\ s.tree[i].detect # 0 => i = j
  /\ \A e \in Events, i \in DOMAIN s.tree : Mine(e, i, s) =>
       /\ s.tree[i].id \in {0, e.id}
       /\ \A j \in DOMAIN s.tree : j # i => s.tree[j].id # e.id
       /\ \A r \in s.details : r.gen = gen => r.id # e.id
\* It is newer than the pages of the comment.
Newer ==
  \A e \in Events, i \in DOMAIN tree : Mine(e, i, Now) =>
    next < e.id /\ \A r \in pages : r.gen = gen => r.from < e.id
PlaceInv == NumberInv /\ Apart(Now) /\ Newer

-----------------------------------------------------------------------------
(* Sequences and orders.                                                   *)

\* A set of numbers has a least member.
LEMMA LeastNumber ==
  ASSUME NEW S \in SUBSET Nat, S # {}
  PROVE  \E m \in S : \A x \in S : m <= x
<1>1. IsWellFoundedOn(OpToRel(<, Nat), Nat)
  BY NatLessThanWellFounded
<1>2. PICK m \in S : \A x \in S : ~ (<<x, m>> \in OpToRel(<, Nat))
  BY <1>1, WFMin
<1>3. \A x \in S : ~ (x < m)
  BY <1>2 DEF OpToRel
<1>4. QED
  BY <1>3

Increasing(f) == \A i, j \in DOMAIN f : i < j => f[i] < f[j]

\* The members of a finite set of numbers can be put in order: a least number
\* of members for which they cannot loses its least member.
LEMMA IncreasingExists ==
  ASSUME NEW S \in SUBSET Nat, IsFiniteSet(S)
  PROVE  \E f \in [1..Cardinality(S) -> S] : Increasing(f)
<1> DEFINE Ordered(U) == \E f \in [1..Cardinality(U) -> U] : Increasing(f)
           Bad == {n \in Nat : \E U \in SUBSET Nat :
                     IsFiniteSet(U) /\ Cardinality(U) = n /\ ~Ordered(U)}
<1>1. SUFFICES ASSUME ~Ordered(S) PROVE FALSE
  OBVIOUS
<1>2. Cardinality(S) \in Bad
  BY <1>1, FS_CardinalityType
<1> HIDE DEF Ordered
<1>3. PICK n \in Bad : \A x \in Bad : n <= x
  BY <1>2, LeastNumber
<1>4. PICK U \in SUBSET Nat : IsFiniteSet(U) /\ Cardinality(U) = n /\ ~Ordered(U)
  BY <1>3
<1>5. U # {}
  <2>1. SUFFICES ASSUME U = {} PROVE FALSE
    OBVIOUS
  <2>2. Cardinality(U) = 0
    BY <2>1, FS_EmptySet
  <2>3. 1..0 = {}
    OBVIOUS
  <2>4. [i \in {} |-> 0] \in [1..Cardinality(U) -> U] /\ Increasing([i \in {} |-> 0])
    BY <2>2, <2>3 DEF Increasing
  <2>5. QED
    BY <1>4, <2>4 DEF Ordered
<1>6. PICK m \in U : \A x \in U : m <= x
  BY <1>5, LeastNumber
<1> DEFINE V == U \ {m}
<1>7. IsFiniteSet(V) /\ Cardinality(V) = n - 1 /\ n \in Nat
  BY <1>4, FS_RemoveElement, FS_CardinalityType
<1>8. n - 1 \in Nat
  BY <1>7, FS_CardinalityType
<1>9. Ordered(V)
  <2>1. n - 1 \notin Bad
    BY <1>3, <1>7
  <2>2. V \in SUBSET Nat
    OBVIOUS
  <2>3. QED
    BY <1>7, <1>8, <2>1, <2>2
<1>10. PICK g \in [1..(n - 1) -> V] : Increasing(g)
  BY <1>7, <1>9 DEF Ordered
<1> DEFINE f == [i \in 1..n |-> IF i = 1 THEN m ELSE g[i - 1]]
<1>11. f \in [1..n -> U]
  BY <1>7, <1>8
<1>12. ASSUME NEW i \in 1..n, NEW j \in 1..n, i < j
       PROVE  f[i] < f[j]
  <2>1. f[j] = g[j - 1] /\ j - 1 \in 1..(n - 1)
    BY <1>7, <1>12
  <2>2. f[j] \in U /\ f[j] # m /\ m <= f[j]
    BY <1>6, <2>1
  <2>3. CASE i = 1
    <3>1. f[i] = m /\ m \in Nat /\ f[j] \in Nat
      BY <2>2, <2>3
    <3>2. QED
      BY <2>2, <3>1
  <2>4. CASE i # 1
    <3>1. f[i] = g[i - 1] /\ i - 1 \in 1..(n - 1) /\ i - 1 < j - 1
      BY <1>7, <1>12, <2>4
    <3>2. QED
      BY <1>10, <2>1, <3>1 DEF Increasing
  <2>5. QED
    BY <2>3, <2>4
<1>13. Ordered(U)
  <2> HIDE DEF f
  <2>1. Increasing(f)
    BY <1>11, <1>12 DEF Increasing
  <2>2. QED
    BY <1>4, <1>11, <2>1 DEF Ordered
<1>14. QED
  BY <1>4, <1>13

\* InOrder goes through all members, each once.
LEMMA InOrderGoesThrough ==
  ASSUME NEW S \in SUBSET Nat, IsFiniteSet(S)
  PROVE  /\ Cardinality(S) \in Nat
         /\ InOrder(S) \in [1..Cardinality(S) -> S]
         /\ \A i, j \in 1..Cardinality(S) : i < j => InOrder(S)[i] < InOrder(S)[j]
         /\ \A i, j \in 1..Cardinality(S) : InOrder(S)[i] = InOrder(S)[j] => i = j
         /\ \A x \in S : \E i \in 1..Cardinality(S) : InOrder(S)[i] = x
<1> DEFINE n == Cardinality(S)
           f == InOrder(S)
<1>1. n \in Nat
  BY FS_CardinalityType
<1>2. f \in [1..n -> S] /\ Increasing(f)
  <2>1. \E h \in [1..n -> S] : \A i, j \in DOMAIN h : i < j => h[i] < h[j]
    BY IncreasingExists DEF Increasing
  <2>2. QED
    BY <2>1 DEF InOrder, Increasing
<1> HIDE DEF f
<1>3. \A i, j \in 1..n : i < j => f[i] < f[j]
  BY <1>2 DEF Increasing
<1>4. ASSUME NEW i \in 1..n, NEW j \in 1..n, f[i] = f[j]
      PROVE  i = j
  <2>1. ~ (i < j) /\ ~ (j < i)
    <3>1. f[i] \in Nat /\ f[j] \in Nat
      BY <1>2
    <3>2. QED
      BY <1>3, <1>4, <3>1
  <2>2. QED
    BY <1>1, <2>1
<1>5. f \in Surjection(1..n, S)
  <2>1. f \in Injection(1..n, S)
    BY <1>2, <1>4 DEF Injection, IsInjective
  <2>2. Cardinality(1..n) = n
    BY <1>1, FS_Interval
  <2>3. QED
    BY <2>1, <2>2, FS_Injection
<1>6. \A x \in S : \E i \in 1..n : f[i] = x
  BY <1>5 DEF Surjection
<1>7. QED
  BY <1>1, <1>2, <1>3, <1>4, <1>6 DEF f

\* Removing an item moves the others up.
LEMMA RemoveAtItems ==
  ASSUME NEW S, NEW s \in Seq(S), NEW i \in DOMAIN s
  PROVE  /\ RemoveAt(s, i) \in Seq(S)
         /\ DOMAIN RemoveAt(s, i) = 1..(Len(s) - 1)
         /\ \A k \in 1..(Len(s) - 1) : RemoveAt(s, i)[k] = IF k < i THEN s[k] ELSE s[k + 1]
<1> DEFINE front == SubSeq(s, 1, i - 1)
           back == SubSeq(s, i + 1, Len(s))
<1>1. i \in 1..Len(s) /\ Len(s) \in Nat
  OBVIOUS
<1>2. /\ front \in Seq(S) /\ Len(front) = i - 1
      /\ \A m \in 1..(i - 1) : front[m] = s[m]
  BY <1>1
<1>3. /\ back \in Seq(S) /\ Len(back) = Len(s) - i
      /\ \A m \in 1..(Len(s) - i) : back[m] = s[m + i]
  BY <1>1
<1>4. RemoveAt(s, i) = front \o back
  BY DEF RemoveAt
<1> HIDE DEF front, back
<1>5. DOMAIN RemoveAt(s, i) = 1..(Len(s) - 1) /\ RemoveAt(s, i) \in Seq(S)
  BY <1>1, <1>2, <1>3, <1>4
<1>6. ASSUME NEW k \in 1..(Len(s) - 1)
      PROVE  RemoveAt(s, i)[k] = IF k < i THEN s[k] ELSE s[k + 1]
  <2>1. CASE k < i
    BY <1>1, <1>2, <1>3, <1>4, <2>1
  <2>2. CASE ~ (k < i)
    <3>1. k > Len(front) /\ k <= Len(front) + Len(back) /\ k \in Nat
      BY <1>1, <1>2, <1>3, <2>2
    <3>2. RemoveAt(s, i)[k] = back[k - Len(front)]
      BY <1>2, <1>3, <1>4, <3>1, ConcatProperties
    <3>3. back[k - Len(front)] = s[k + 1]
      BY <1>1, <1>2, <1>3, <2>2
    <3>4. QED
      BY <2>2, <3>2, <3>3
  <2>3. QED
    BY <2>1, <2>2
<1>7. QED
  BY <1>5, <1>6

-----------------------------------------------------------------------------
(* What the operators of the model return.                                 *)

LEMMA PageBeforeOlder ==
  ASSUME posted \in Id, NEW from \in 1..(posted + 1)
  PROVE  PageBefore(from) \in Page /\ OfPage(PageBefore(from), from)
<1> DEFINE live == {id \in 1..posted : id < from /\ id \notin deleted}
           n == Cardinality(live)
           f == InOrder(live)
           p == PageBefore(from)
<1>1. posted \in Nat /\ PageSize \in Nat \ {0} /\ MaxComments \in Nat /\ posted <= MaxComments
  BY BoundAssumption DEF Id
<1>2. live \in SUBSET Nat /\ IsFiniteSet(live)
  <2>1. IsFiniteSet(1..posted)
    BY <1>1, FS_Interval
  <2>2. QED
    BY <1>1, <2>1, FS_Subset
<1>3. \A x \in live : x \in Id /\ x \in 1..(from - 1)
  BY <1>1 DEF Id
<1>4. /\ n \in Nat /\ f \in [1..n -> live]
      /\ \A i, j \in 1..n : f[i] = f[j] => i = j
  BY <1>2, InOrderGoesThrough
<1> DEFINE m == IF n <= PageSize THEN n ELSE PageSize
           data == [i \in 1..m |-> f[n + 1 - i]]
<1>5. /\ p.data = data
      /\ p.next = IF n <= PageSize THEN 0 ELSE f[n + 1 - PageSize]
      /\ p = [data |-> p.data, next |-> p.next]
  BY DEF PageBefore
<1> HIDE DEF p, live, f, n
<1>6. m \in Nat /\ \A i \in 1..m : n + 1 - i \in 1..n
  BY <1>1, <1>4
<1>7. \A i \in 1..m : data[i] \in live
  BY <1>4, <1>6
<1>8. \A i, j \in 1..m : data[i] = data[j] => i = j
  <2> SUFFICES ASSUME NEW i \in 1..m, NEW j \in 1..m, data[i] = data[j]
               PROVE  i = j
    OBVIOUS
  <2>1. f[n + 1 - i] = f[n + 1 - j]
    OBVIOUS
  <2>2. n + 1 - i = n + 1 - j
    BY <1>4, <1>6, <2>1
  <2>3. QED
    BY <1>4, <1>6, <2>2
<1>9. data \in Seq(Id) /\ DOMAIN data = 1..m
  <2>1. \A i \in 1..m : f[n + 1 - i] \in Id
    BY <1>3, <1>7
  <2>2. QED
    BY <1>6, <2>1
<1>10. p.next \in Id /\ p.next < from
  <2>1. CASE n <= PageSize
    BY <1>1, <1>5, <2>1 DEF Id
  <2>2. CASE ~ (n <= PageSize)
    <3>1. n + 1 - PageSize \in 1..n
      BY <1>1, <1>4, <2>2
    <3>2. p.next \in live
      BY <1>4, <1>5, <2>2, <3>1
    <3>3. QED
      BY <1>1, <1>3, <3>2
  <2>3. QED
    BY <2>1, <2>2
<1> HIDE DEF data, m
<1>11. p \in Page
  BY <1>5, <1>9, <1>10 DEF Page
<1>12. OfPage(p, from)
  BY <1>3, <1>5, <1>7, <1>8, <1>9, <1>10 DEF OfPage
<1>13. QED
  BY <1>11, <1>12 DEF p

\* t has the items of s, some removed, and all but those with the number id.
Leaves(t, s, id) ==
  /\ t \in Seq(Item)
  /\ \E g \in [DOMAIN t -> DOMAIN s] :
       /\ \A i, j \in DOMAIN t : g[i] = g[j] => i = j
       /\ \A i \in DOMAIN t : t[i] = s[g[i]]
  /\ \A k \in DOMAIN s : s[k].id # id => \E i \in DOMAIN t : t[i] = s[k]

LEMMA AllLeft ==
  ASSUME NEW s \in Seq(Item), NEW id
  PROVE  Leaves(s, s, id)
<1>1. [i \in DOMAIN s |-> i] \in [DOMAIN s -> DOMAIN s]
  OBVIOUS
<1>2. QED
  BY <1>1 DEF Leaves

LEMMA WithoutLeaves ==
  ASSUME NEW s \in Seq(Item), NEW id
  PROVE  Leaves(Without(s, id), s, id)
<1> DEFINE left == {i \in DOMAIN s : s[i].id # id}
           g == InOrder(left)
           n == Cardinality(left)
           t == [i \in DOMAIN g |-> s[g[i]]]
<1>1. DOMAIN s = 1..Len(s) /\ Len(s) \in Nat
  OBVIOUS
<1>2. left \in SUBSET Nat /\ IsFiniteSet(left)
  <2>1. IsFiniteSet(1..Len(s))
    BY <1>1, FS_Interval
  <2>2. QED
    BY <1>1, <2>1, FS_Subset
<1>3. /\ n \in Nat /\ g \in [1..n -> left]
      /\ \A i, j \in 1..n : g[i] = g[j] => i = j
      /\ \A x \in left : \E i \in 1..n : g[i] = x
  BY <1>2, InOrderGoesThrough
<1>4. Without(s, id) = t
  BY DEF Without
<1> HIDE DEF n, g
<1>5. DOMAIN t = 1..n /\ \A i \in 1..n : g[i] \in DOMAIN s /\ t[i] = s[g[i]]
  BY <1>3
<1>6. t \in Seq(Item)
  <2>1. \A i \in 1..n : t[i] \in Item
    BY <1>1, <1>5, ElementOfSeq
  <2>2. QED
    BY <1>3, <1>5, <2>1
<1>7. g \in [DOMAIN t -> DOMAIN s]
  BY <1>3, <1>5
<1>8. ASSUME NEW k \in DOMAIN s, s[k].id # id
      PROVE  \E i \in DOMAIN t : t[i] = s[k]
  BY <1>3, <1>5, <1>8
<1> HIDE DEF t
<1>9. /\ \A i, j \in DOMAIN t : g[i] = g[j] => i = j
      /\ \A i \in DOMAIN t : t[i] = s[g[i]]
  BY <1>3, <1>5
<1>10. QED
  BY <1>4, <1>6, <1>7, <1>8, <1>9 DEF Leaves

LEMMA RemovedLeaves ==
  ASSUME NEW s \in Seq(Item), NEW i \in DOMAIN s
  PROVE  Leaves(RemoveAt(s, i), s, s[i].id)
<1> DEFINE t == RemoveAt(s, i)
           g == [k \in DOMAIN t |-> IF k < i THEN k ELSE k + 1]
<1>1. DOMAIN s = 1..Len(s) /\ Len(s) \in Nat /\ i \in 1..Len(s)
  OBVIOUS
<1>2. /\ t \in Seq(Item) /\ DOMAIN t = 1..(Len(s) - 1)
      /\ \A k \in DOMAIN t : t[k] = IF k < i THEN s[k] ELSE s[k + 1]
  BY RemoveAtItems
<1> HIDE DEF t
<1>3. g \in [DOMAIN t -> DOMAIN s]
  BY <1>1, <1>2
<1>4. \A k, m \in DOMAIN t : g[k] = g[m] => k = m
  BY <1>1, <1>2
<1>5. \A k \in DOMAIN t : t[k] = s[g[k]]
  BY <1>2
<1>6. ASSUME NEW k \in DOMAIN s, s[k].id # s[i].id
      PROVE  \E j \in DOMAIN t : t[j] = s[k]
  <2>1. CASE k < i
    <3>1. k \in DOMAIN t /\ t[k] = s[k]
      BY <1>1, <1>2, <2>1
    <3>2. QED
      BY <3>1
  <2>2. CASE ~ (k < i)
    <3>1. k - 1 \in DOMAIN t /\ t[k - 1] = s[k]
      BY <1>1, <1>2, <1>6, <2>2
    <3>2. QED
      BY <3>1
  <2>3. QED
    BY <2>1, <2>2
<1> HIDE DEF g
<1>7. QED
  BY <1>2, <1>3, <1>4, <1>5, <1>6 DEF Leaves, t

\* The handler of a deletion leaves all replies but the one that was deleted.
LEMMA UpdateCommentLeaves ==
  ASSUME NEW s \in [tree : Seq(Item), details : SUBSET Detail], NEW e
  PROVE  Leaves(UpdateComment(e, s).tree, s.tree, e.id)
<1> DEFINE I == {i \in 1..Len(s.tree) : s.tree[i].id = e.id}
<1>1. CASE e.id \in Ids(s.tree)
  <2>1. I # {} /\ I \in SUBSET Nat
    BY <1>1 DEF Ids
  <2>2. PICK m \in I : \A x \in I : m <= x
    BY <2>1, LeastNumber
  <2> DEFINE k == SelectInSeq(s.tree, LAMBDA item : item.id = e.id)
  <2>3. k = Min(I)
    BY <2>1 DEF SelectInSeq
  <2>4. Min(I) \in I
    BY <2>2 DEF Min
  <2>5. k \in DOMAIN s.tree /\ s.tree[k].id = e.id
    <3>1. k \in I
      BY <2>3, <2>4
    <3>2. QED
      BY <3>1
  <2>6. UpdateComment(e, s).tree = RemoveAt(s.tree, k)
    BY <1>1 DEF UpdateComment
  <2> HIDE DEF k
  <2>7. QED
    BY <2>5, <2>6, RemovedLeaves
<1>2. CASE e.id \notin Ids(s.tree)
  BY <1>2, AllLeft DEF UpdateComment
<1>3. QED
  BY <1>1, <1>2

-----------------------------------------------------------------------------
(* Types.                                                                  *)

LEMMA Bounds ==
  /\ PageSize \in Nat \ {0} /\ MaxComments \in Nat /\ MaxOwn \in Nat
  /\ MaxScreens \in Nat /\ MaxFaults \in Nat
  /\ Id \subseteq Nat /\ Detect \subseteq Nat /\ 0 \in Id /\ 0 \in Detect
  /\ Listeners \subseteq Nat /\ List \in Listeners
BY BoundAssumption DEF Id, Detect, Listeners, List

LEMMA InitTypeInv == Init => TypeInv
<1> SUFFICES ASSUME Init PROVE TypeInv
  OBVIOUS
<1>1. NoQueues \in [Types -> Seq(Event)] /\ \A t \in Types : NoQueues[t] = << >>
  BY DEF NoQueues
<1>2. Events = {}
  BY <1>1 DEF Events, Init, Range
<1>3. TypeOK
  <2>1. /\ posted \in Id /\ faults \in 0..MaxFaults /\ gen \in 0..MaxScreens
        /\ next \in Id /\ opened \in 0..MaxScreens /\ shown \in 0..gen
        /\ own \in Detect
    BY Bounds DEF Init
  <2>2. /\ deleted \subseteq 1..posted /\ socket \subseteq Event
        /\ loads \subseteq Load /\ details \subseteq Detail /\ pages \subseteq More
        /\ sends \subseteq Sent /\ deletes \subseteq Deletion
    BY DEF Init
  <2>3. queues \in [Listeners -> [Types -> Seq(Event)]]
    BY <1>1 DEF Init
  <2>4. open \in BOOLEAN /\ more \in BOOLEAN /\ filling \in BOOLEAN
    BY DEF Init
  <2>5. tree \in Seq(Item) /\ (gen = 0 => tree = << >>)
    BY DEF Init
  <2>6. QED
    BY <2>1, <2>2, <2>3, <2>4, <2>5 DEF TypeOK
<1>4. CountInv
  <2>1. IsFiniteSet({}) /\ Cardinality({}) = 0
    BY FS_EmptySet
  <2>2. QED
    BY <2>1 DEF CountInv, Init
<1>5. Fits(Now)
  BY DEF Fits, Now, Init
<1>6. MadeInv
  BY <1>1, <1>2, <1>5 DEF MadeInv, Init, EventsMade, QueuesMade, Range
<1>7. QED
  BY <1>3, <1>4, <1>6 DEF TypeInv

\* The events of the queues of a listener.
LEMMA EventIn ==
  /\ \A e \in socket : e \in Events
  /\ \A l \in Listeners, t \in Types : \A e \in Range(queues[l][t]) : e \in Events
  /\ \A e \in Events :
       e \in socket \/ \E l \in Listeners, t \in Types : e \in Range(queues[l][t])
BY DEF Events

LEMMA EventTypes ==
  ASSUME TypeOK
  PROVE  Events \subseteq Event
<1> SUFFICES ASSUME NEW e \in Events PROVE e \in Event
  OBVIOUS
<1>1. CASE e \in socket
  BY <1>1 DEF TypeOK
<1>2. CASE \E l \in Listeners, t \in Types : e \in Range(queues[l][t])
  <2>1. PICK l \in Listeners, t \in Types : e \in Range(queues[l][t])
    BY <1>2
  <2>2. queues[l][t] \in Seq(Event)
    BY DEF TypeOK
  <2>3. PICK i \in DOMAIN queues[l][t] : e = queues[l][t][i]
    BY <2>1 DEF Range
  <2>4. QED
    BY <2>2, <2>3
<1>3. QED
  BY <1>1, <1>2, EventIn

\* A new event on its way is the only new one.
LEMMA EventsAdded ==
  ASSUME NEW e, socket' \subseteq socket \cup {e}, UNCHANGED queues
  PROVE  Events' \subseteq Events \cup {e}
BY DEF Events

LEMMA EventsSame ==
  ASSUME socket' \subseteq socket, UNCHANGED queues
  PROVE  Events' \subseteq Events
BY DEF Events

\* The server makes and deletes replies; what was made stays made.
LEMMA MadeKept ==
  ASSUME TypeOK, MadeInv, posted' \in Nat, posted <= posted', deleted \subseteq deleted'
  PROVE  /\ UNCHANGED <<gen, tree, details>> => Fits(Now)'
         /\ UNCHANGED next => next' <= posted'
         /\ \A e \in Events : Tells(e)'
         /\ UNCHANGED queues => QueuesMade'
         /\ \A r \in loads : LoadMade(r)'
         /\ \A r \in pages : PageMade(r)'
         /\ \A r \in deletes : DeletionMade(r)'
<1>1. posted \in Nat /\ next \in Nat
  BY Bounds DEF TypeOK
<1>2. ASSUME UNCHANGED <<gen, tree, details>>
      PROVE  Fits(Now)'
  <2>1. \A i \in DOMAIN tree : tree[i].id \in Nat
    <3>1. tree \in Seq(Item)
      BY DEF TypeOK
    <3>2. \A i \in DOMAIN tree : tree[i] \in Item
      BY <3>1
    <3>3. QED
      BY <3>2, Bounds DEF Item
  <2>2. \A r \in details : r.id \in Nat
    BY Bounds DEF TypeOK, Detail
  <2>3. QED
    BY <1>1, <1>2, <2>1, <2>2 DEF MadeInv, Fits, Now
<1>3. ASSUME UNCHANGED next PROVE next' <= posted'
  BY <1>1, <1>3 DEF MadeInv
<1>4. ASSUME NEW e \in Events PROVE Tells(e)'
  <2>1. e \in Event
    BY EventTypes
  <2>2. e.id \in Nat
    BY <2>1, Bounds DEF Event
  <2>3. QED
    BY <1>1, <2>2 DEF MadeInv, EventsMade, Tells
<1>5. ASSUME UNCHANGED queues PROVE QueuesMade'
  BY <1>5 DEF MadeInv, QueuesMade
<1>6. ASSUME NEW r \in loads PROVE LoadMade(r)'
  <2>1. r.answer.next \in Nat
    <3>1. r.answer \in Page
      BY DEF TypeOK, Load
    <3>2. QED
      BY <3>1, Bounds DEF Page
  <2>2. LoadMade(r)
    BY DEF MadeInv
  <2>3. QED
    BY <1>1, <2>1, <2>2 DEF LoadMade, OfPage
<1>7. ASSUME NEW r \in pages PROVE PageMade(r)'
  <2>1. r.from \in Nat
    BY Bounds DEF TypeOK, More
  <2>2. QED
    BY <1>1, <2>1 DEF MadeInv, PageMade, OfPage
<1>8. ASSUME NEW r \in deletes PROVE DeletionMade(r)'
  <2>1. r.id \in Nat
    BY Bounds DEF TypeOK, Deletion
  <2>2. QED
    BY <1>1, <2>1 DEF MadeInv, DeletionMade
<1>9. QED
  BY <1>2, <1>3, <1>4, <1>5, <1>6, <1>7, <1>8

\* getCommentFB, and so every handler, keeps to replies that were made.
LEMMA ProcessedFits ==
  ASSUME TypeInv, NEW s, Fits(s), NEW l \in Listeners, NEW e \in Events
  PROVE  Fits(Processed(l, e, s))
<1>1. e \in Event /\ Tells(e) /\ e.id \in Nat /\ posted \in Nat /\ e.id \in Id
  BY EventTypes, Bounds DEF TypeInv, TypeOK, MadeInv, EventsMade, Event
<1>2. /\ s \in [tree : Seq(Item), details : SUBSET Detail]
      /\ s = [tree |-> s.tree, details |-> s.details]
      /\ s.tree \in Seq(Item) /\ \A i \in DOMAIN s.tree : s.tree[i] \in Item
  BY DEF Fits
<1>3. CASE gen = 0
  BY <1>3 DEF Processed
<1>4. ASSUME gen # 0, e.id # 0
      PROVE  Fits(GetCommentFB(l, e.id, s))
  <2> DEFINE r == [listener |-> l, id |-> e.id, gen |-> gen, answer |-> "waiting"]
  <2>1. r \in Detail
    BY <1>1 DEF Detail, TypeInv, TypeOK
  <2>2. CASE e.id \in Ids(s.tree)
    BY <2>2 DEF GetCommentFB
  <2>3. CASE e.id \notin Ids(s.tree)
    <3>1. GetCommentFB(l, e.id, s) = [s EXCEPT !.details = s.details \cup {r}]
      BY <2>3 DEF GetCommentFB
    <3> HIDE DEF r
    <3>2. GetCommentFB(l, e.id, s) = [tree |-> s.tree, details |-> s.details \cup {r}]
      BY <1>2, <3>1
    <3>3. r.id # 0 /\ r.id <= posted /\ r.gen # 0
      BY <1>1, <1>4 DEF r, Tells
    <3>4. QED
      BY <1>2, <2>1, <3>2, <3>3 DEF Fits
  <2>4. QED
    BY <2>2, <2>3
<1>5. CASE gen # 0 /\ e.type = "sub"
  BY <1>1, <1>4, <1>5 DEF Processed, Tells
<1>6. CASE gen # 0 /\ e.type = "reply"
  <2>1. Processed(l, e, s) = ReplyCommentTopic(l, e, s)
    BY <1>6 DEF Processed
  <2> DEFINE mine == Indices(s.tree, e.detect)
  <2>2. CASE mine # {}
    <3> DEFINE told(i) == Settled(s.tree[i], e)
               t == [i \in DOMAIN s.tree |-> IF i \in mine THEN told(i) ELSE s.tree[i]]
    <3>1. ReplyCommentTopic(l, e, s) = [s EXCEPT !.tree = t]
      BY <2>2 DEF ReplyCommentTopic
    <3>2. ASSUME NEW i \in DOMAIN s.tree
          PROVE  t[i] \in Item /\ t[i].id <= posted
      <4>1. s.tree[i] \in Item /\ s.tree[i].id <= posted
        BY <1>2 DEF Fits
      <4>2. told(i) \in Item /\ told(i).id <= posted
        BY <1>1, <4>1 DEF Item, Event, Tells, Settled
      <4>3. QED
        BY <4>1, <4>2
    <3>3. DOMAIN t = DOMAIN s.tree
      OBVIOUS
    <3> HIDE DEF t
    <3>4. t \in Seq(Item)
      <4>1. DOMAIN s.tree = 1..Len(s.tree) /\ Len(s.tree) \in Nat
        BY <1>2
      <4>2. t = [i \in 1..Len(s.tree) |-> t[i]]
        BY <3>3, <4>1 DEF t
      <4>3. QED
        BY <3>2, <4>1, <4>2
    <3>5. ReplyCommentTopic(l, e, s) = [tree |-> t, details |-> s.details]
      BY <1>2, <3>1
    <3>6. QED
      BY <1>2, <1>6, <2>1, <3>2, <3>3, <3>4, <3>5 DEF Fits
  <2>3. CASE mine = {} /\ e.id = 0
    BY <2>1, <2>3 DEF ReplyCommentTopic
  <2>4. CASE mine = {} /\ e.id # 0
    BY <1>4, <1>6, <2>1, <2>4 DEF ReplyCommentTopic
  <2>5. QED
    BY <2>2, <2>3, <2>4
<1>7. CASE gen # 0 /\ e.type = "delete"
  <2> DEFINE u == UpdateComment(e, s)
  <2>1. Processed(l, e, s) = u
    BY <1>7 DEF Processed
  <2>2. Leaves(u.tree, s.tree, e.id)
    BY <1>2, UpdateCommentLeaves
  <2>3. u = [tree |-> u.tree, details |-> s.details]
    BY <1>2 DEF UpdateComment
  <2> HIDE DEF u
  <2>4. \A i \in DOMAIN u.tree : u.tree[i].id <= posted
    BY <2>2 DEF Leaves, Fits
  <2>5. u.tree \in Seq(Item)
    BY <2>2 DEF Leaves
  <2>6. QED
    BY <1>2, <1>7, <2>1, <2>3, <2>4, <2>5 DEF Fits
<1>8. e.type \in {"sub", "reply", "delete"}
  BY <1>1 DEF Event, Types
<1>9. QED
  BY <1>3, <1>5, <1>6, <1>7, <1>8

\* What the counts have to show: where the loads and the screens are as they were.
LEMMA CountKept ==
  ASSUME CountInv, UNCHANGED <<gen, opened, open, more, loads>>,
         pages' # {} => pages # {}
  PROVE  CountInv'
BY DEF CountInv

LEMMA ReplacedCount ==
  ASSUME NEW S, IsFiniteSet(S), NEW r \in S, NEW q
  PROVE  /\ IsFiniteSet((S \ {r}) \cup {q}) /\ IsFiniteSet(S \ {r})
         /\ Cardinality(S) \in Nat
         /\ Cardinality((S \ {r}) \cup {q}) \in Nat
         /\ Cardinality((S \ {r}) \cup {q}) <= Cardinality(S)
         /\ Cardinality(S \ {r}) = Cardinality(S) - 1
<1>1. IsFiniteSet(S \ {r}) /\ Cardinality(S \ {r}) = Cardinality(S) - 1
  BY FS_RemoveElement
<1>2. /\ IsFiniteSet((S \ {r}) \cup {q})
      /\ Cardinality((S \ {r}) \cup {q}) =
           IF q \in S \ {r} THEN Cardinality(S \ {r}) ELSE Cardinality(S \ {r}) + 1
  BY <1>1, FS_AddElement
<1>3. Cardinality(S) \in Nat /\ Cardinality(S \ {r}) \in Nat
  BY <1>1, FS_CardinalityType
<1>4. QED
  BY <1>1, <1>2, <1>3

\* The server tells, by an event, of what it made or deleted.
LEMMA AnnouncedMade ==
  ASSUME TypeInv, posted' \in Id, posted <= posted',
         deleted \subseteq deleted', deleted' \subseteq 1..posted',
         NEW e \in Event, Tells(e)', socket' \subseteq socket \cup {e},
         UNCHANGED <<faults, comments, screen, queues, own, loads, details, pages>>
  PROVE  /\ sends' \subseteq Sent /\ deletes' \subseteq Deletion => TypeOK'
         /\ CountInv'
         /\ (\A r \in deletes' : DeletionMade(r)') => MadeInv'
<1> USE DEF comments, screen, TypeInv
<1>1. posted \in Nat /\ posted' \in Nat
  BY Bounds DEF TypeOK
<1>2. ASSUME sends' \subseteq Sent, deletes' \subseteq Deletion
      PROVE  TypeOK'
  BY <1>2 DEF TypeOK
<1>3. CountInv'
  BY CountKept
<1>4. Events' \subseteq Events \cup {e}
  BY EventsAdded
<1>5. EventsMade'
  BY <1>1, <1>4, MadeKept DEF EventsMade
<1>6. /\ Fits(Now)' /\ next' <= posted' /\ QueuesMade'
      /\ \A r \in loads' : LoadMade(r)'
      /\ \A r \in pages' : PageMade(r)'
  BY <1>1, MadeKept
<1>7. QED
  BY <1>2, <1>3, <1>5, <1>6 DEF MadeInv

\* Nothing changes at the server, nor in the queues.
LEMMA ClientMade ==
  ASSUME TypeInv, UNCHANGED <<posted, deleted, socket, queues>>
  PROVE  /\ EventsMade' /\ QueuesMade'
         /\ UNCHANGED <<gen, tree, details>> => Fits(Now)'
         /\ UNCHANGED next => next' <= posted'
         /\ \A r \in loads : LoadMade(r)'
         /\ \A r \in pages : PageMade(r)'
         /\ \A r \in deletes : DeletionMade(r)'
<1>1. Events' \subseteq Events
  BY EventsSame
<1>2. EventsMade'
  BY <1>1 DEF TypeInv, MadeInv, EventsMade, Tells
<1>3. QED
  BY <1>2 DEF TypeInv, MadeInv, QueuesMade, Fits, Now, LoadMade, PageMade, DeletionMade

LEMMA PostType ==
  ASSUME TypeInv, Post
  PROVE  TypeInv'
<1>1. /\ posted \in Nat /\ posted' = posted + 1 /\ posted' \in Id /\ posted' # 0
      /\ deleted \subseteq 1..posted'
  BY Bounds DEF TypeInv, TypeOK, Post, Id
<1>2. PICK e \in {SubEvent(posted + 1), ReplyEvent(posted + 1, 0, "delivered")} :
        socket' = socket \cup {e}
  BY DEF Post
<1>3. e \in Event /\ Tells(e)'
  BY <1>1, <1>2, Bounds DEF SubEvent, ReplyEvent, Event, Types, Tells
<1>4. UNCHANGED <<deleted, faults, comments, screen, queues, own, loads, details, pages,
                  sends, deletes>>
  BY DEF Post, requests
<1>5. sends' \subseteq Sent /\ deletes' \subseteq Deletion
  BY <1>4 DEF TypeInv, TypeOK
<1>6. \A r \in deletes' : DeletionMade(r)'
  BY <1>1, <1>4, MadeKept DEF TypeInv
<1>7. QED
  BY <1>1, <1>2, <1>3, <1>4, <1>5, <1>6, AnnouncedMade DEF TypeInv

LEMMA DeleteElsewhereType ==
  ASSUME TypeInv, NEW id \in 1..MaxComments, DeleteElsewhere(id)
  PROVE  TypeInv'
<1> DEFINE e == DeleteEvent(id)
<1>1. /\ posted \in Nat /\ posted' = posted /\ posted' \in Id /\ id \in Id
      /\ deleted' = deleted \cup {id} /\ deleted' \subseteq 1..posted' /\ id <= posted
  BY Bounds DEF TypeInv, TypeOK, DeleteElsewhere, Id
<1>2. e \in Event /\ Tells(e)'
  BY <1>1, Bounds DEF DeleteEvent, Event, Types, Tells
<1>3. socket' = socket \cup {e}
  BY DEF DeleteElsewhere
<1>4. UNCHANGED <<faults, comments, screen, queues, own, loads, details, pages,
                  sends, deletes>>
  BY DEF DeleteElsewhere, requests
<1>5. sends' \subseteq Sent /\ deletes' \subseteq Deletion
  BY <1>4 DEF TypeInv, TypeOK
<1>6. \A r \in deletes' : DeletionMade(r)'
  BY <1>1, <1>4, MadeKept DEF TypeInv
<1> HIDE DEF e
<1>7. QED
  BY <1>1, <1>2, <1>3, <1>4, <1>5, <1>6, AnnouncedMade DEF TypeInv

LEMMA ServeSendType ==
  ASSUME TypeInv, NEW r \in sends, ServeSend(r)
  PROVE  TypeInv'
<1>1. /\ posted \in Nat /\ posted \in Id /\ r \in Sent /\ r.detect \in Detect
      /\ deleted \subseteq 1..posted
  BY Bounds DEF TypeInv, TypeOK, Sent
<1>2. UNCHANGED <<deleted, faults, comments, screen, queues, own, loads, details, pages,
                  deletes>>
  BY DEF ServeSend
<1>3. /\ [r EXCEPT !.answer = "done"] \in Sent /\ [r EXCEPT !.answer = "refused"] \in Sent
  BY <1>1 DEF Sent
<1>4. sends' \subseteq Sent
  BY <1>3 DEF ServeSend, TypeInv, TypeOK
<1>5. deletes' \subseteq Deletion
  BY <1>2 DEF TypeInv, TypeOK
<1>6. ASSUME posted' \in Nat, posted <= posted'
      PROVE  \A q \in deletes' : DeletionMade(q)'
  BY <1>2, <1>6, MadeKept DEF TypeInv
<1>7. CASE posted < MaxComments /\ posted' = posted + 1
           /\ socket' = socket \cup {ReplyEvent(posted + 1, r.detect, "delivered")}
  <2> PICK e : e = ReplyEvent(posted + 1, r.detect, "delivered")
    OBVIOUS
  <2>1. posted' \in Id /\ posted' \in Nat /\ posted <= posted' /\ deleted \subseteq 1..posted'
    BY <1>1, <1>7, Bounds DEF Id
  <2>2. e \in Event /\ Tells(e)'
    BY <1>1, <1>7, <2>1 DEF ReplyEvent, Event, Types, Tells
  <2>3. socket' = socket \cup {e}
    BY <1>7
  <2>4. QED
    BY <1>2, <1>4, <1>5, <1>6, <2>1, <2>2, <2>3, AnnouncedMade DEF TypeInv
<1>8. CASE posted' = posted /\ socket' \subseteq socket \cup {ReplyEvent(0, r.detect, "failed")}
  <2> DEFINE e == ReplyEvent(0, r.detect, "failed")
  <2>1. e \in Event /\ Tells(e)'
    BY <1>1, <1>8, Bounds DEF ReplyEvent, Event, Types, Tells
  <2> HIDE DEF e
  <2>2. socket' \subseteq socket \cup {e}
    BY <1>8 DEF e
  <2>3. posted' \in Id /\ posted <= posted' /\ posted' \in Nat /\ deleted' \subseteq 1..posted'
    BY <1>1, <1>2, <1>8
  <2>4. QED
    BY <1>2, <1>4, <1>5, <1>6, <2>1, <2>2, <2>3, AnnouncedMade DEF TypeInv
<1>9. QED
  BY <1>7, <1>8 DEF ServeSend

LEMMA ServeDeleteType ==
  ASSUME TypeInv, NEW r \in deletes, ServeDelete(r)
  PROVE  TypeInv'
<1> DEFINE e == DeleteEvent(r.id)
           q == [r EXCEPT !.answer = "done"]
<1>1. /\ r \in Deletion /\ r.id \in Id /\ r.id \in Nat /\ r.id # 0 /\ r.id <= posted
      /\ posted \in Nat /\ posted \in Id /\ deleted \subseteq 1..posted
  BY Bounds DEF TypeInv, TypeOK, MadeInv, DeletionMade, Deletion
<1>2. /\ posted' = posted /\ deleted' = deleted \cup {r.id} /\ deleted' \subseteq 1..posted'
      /\ socket' = socket \cup {e} /\ deletes' = (deletes \ {r}) \cup {q}
  BY <1>1 DEF ServeDelete
<1>3. UNCHANGED <<faults, comments, screen, queues, own, loads, details, pages, sends>>
  BY DEF ServeDelete
<1>4. e \in Event /\ Tells(e)'
  BY <1>1, <1>2, Bounds DEF DeleteEvent, Event, Types, Tells
<1>5. q \in Deletion /\ q.id = r.id /\ DeletionMade(q)'
  BY <1>1, <1>2 DEF Deletion, DeletionMade
<1>6. sends' \subseteq Sent /\ deletes' \subseteq Deletion
  BY <1>2, <1>3, <1>5 DEF TypeInv, TypeOK
<1>7. \A x \in deletes : DeletionMade(x)'
  BY <1>1, <1>2, MadeKept DEF TypeInv
<1> HIDE DEF e, q
<1>8. \A x \in deletes' : DeletionMade(x)'
  BY <1>2, <1>5, <1>7
<1>9. QED
  BY <1>1, <1>2, <1>3, <1>4, <1>6, <1>8, AnnouncedMade DEF TypeInv

LEMMA ServeLoadType ==
  ASSUME TypeInv, NEW r \in loads, ServeLoad(r)
  PROVE  TypeInv'
<1> DEFINE q == [r EXCEPT !.served = TRUE, !.answer = PageBefore(posted + 1)]
<1>1. /\ loads' = (loads \ {r}) \cup {q} /\ r \in Load /\ posted \in Id
      /\ posted + 1 \in 1..(posted + 1)
  BY Bounds DEF ServeLoad, TypeInv, TypeOK
<1>2. UNCHANGED <<server, comments, screen, queues, own, details, pages, sends, deletes>>
  BY DEF ServeLoad
<1> USE DEF server, comments, screen
<1>3. PageBefore(posted + 1) \in Page /\ OfPage(PageBefore(posted + 1), posted + 1)
  BY <1>1, PageBeforeOlder
<1>4. q \in Load /\ q.answer = PageBefore(posted + 1)
  BY <1>1, <1>3 DEF Load
<1> HIDE DEF q
<1>5. TypeOK'
  BY <1>1, <1>2, <1>4 DEF TypeInv, TypeOK
<1>6. CountInv'
  <2>1. /\ IsFiniteSet(loads') /\ Cardinality(loads') \in Nat /\ Cardinality(loads) \in Nat
        /\ Cardinality(loads') <= Cardinality(loads)
    BY <1>1, ReplacedCount DEF TypeInv, CountInv
  <2>2. gen \in Nat /\ opened \in Nat
    BY Bounds DEF TypeInv, TypeOK
  <2>3. gen + Cardinality(loads') <= opened
    BY <2>1, <2>2 DEF TypeInv, CountInv
  <2>4. QED
    BY <1>2, <2>1, <2>3 DEF TypeInv, CountInv
<1>7. \A x \in loads' : LoadMade(x)'
  <2> SUFFICES ASSUME NEW x \in loads' PROVE LoadMade(x)'
    OBVIOUS
  <2>1. CASE x \in loads
    BY <1>2, <2>1, ClientMade
  <2>2. CASE x = q
    BY <1>2, <1>3, <1>4, <2>2 DEF LoadMade
  <2>3. QED
    BY <1>1, <2>1, <2>2
<1>8. MadeInv'
  BY <1>2, <1>7, ClientMade DEF MadeInv
<1>9. QED
  BY <1>5, <1>6, <1>8 DEF TypeInv

LEMMA ServeDetailType ==
  ASSUME TypeInv, NEW r \in details, ServeDetail(r)
  PROVE  TypeInv'
<1> DEFINE q == [r EXCEPT !.answer = IF r.id \in deleted THEN "gone" ELSE "found"]
<1>1. details' = (details \ {r}) \cup {q} /\ r \in Detail
  BY DEF ServeDetail, TypeInv, TypeOK
<1>2. UNCHANGED <<server, comments, screen, queues, own, loads, pages, sends, deletes>>
  BY DEF ServeDetail
<1> USE DEF server, comments, screen
<1>3. q \in Detail /\ q.id = r.id /\ q.gen = r.gen
  BY <1>1 DEF Detail
<1> HIDE DEF q
<1>4. TypeOK'
  BY <1>1, <1>2, <1>3 DEF TypeInv, TypeOK
<1>5. CountInv'
  BY <1>2, CountKept DEF TypeInv
<1>6. Fits(Now)'
  BY <1>1, <1>2, <1>3, <1>4 DEF TypeInv, MadeInv, Fits, Now
<1>7. MadeInv'
  BY <1>2, <1>6, ClientMade DEF MadeInv
<1>8. QED
  BY <1>4, <1>5, <1>7 DEF TypeInv

LEMMA ServePageType ==
  ASSUME TypeInv, NEW r \in pages, ServePage(r)
  PROVE  TypeInv'
<1> DEFINE q == [r EXCEPT !.served = TRUE, !.answer = PageBefore(r.from)]
<1>1. /\ pages' = (pages \ {r}) \cup {q} /\ r \in More /\ posted \in Id /\ posted \in Nat
      /\ r.from \in Nat /\ PageMade(r)
  BY Bounds DEF ServePage, TypeInv, TypeOK, More, MadeInv
<1>2. UNCHANGED <<server, comments, screen, queues, own, loads, details, sends, deletes>>
  BY DEF ServePage
<1> USE DEF server, comments, screen
<1>3. r.from \in 1..(posted + 1)
  BY <1>1 DEF PageMade
<1>4. PageBefore(r.from) \in Page /\ OfPage(PageBefore(r.from), r.from)
  BY <1>1, <1>3, PageBeforeOlder
<1>5. q \in More /\ q.answer = PageBefore(r.from) /\ q.from = r.from /\ q.gen = r.gen
  BY <1>1, <1>4 DEF More
<1> HIDE DEF q
<1>6. TypeOK'
  BY <1>1, <1>2, <1>5 DEF TypeInv, TypeOK
<1>7. CountInv'
  BY <1>2, CountKept DEF TypeInv
<1>8. \A x \in pages' : PageMade(x)'
  <2> SUFFICES ASSUME NEW x \in pages' PROVE PageMade(x)'
    OBVIOUS
  <2>1. CASE x \in pages
    BY <1>2, <2>1, ClientMade
  <2>2. CASE x = q
    BY <1>1, <1>2, <1>4, <1>5, <2>2 DEF PageMade
  <2>3. QED
    BY <1>1, <2>1, <2>2
<1>9. MadeInv'
  BY <1>2, <1>8, ClientMade DEF MadeInv
<1>10. QED
  BY <1>6, <1>7, <1>9 DEF TypeInv

\* The event of the socket is processed by the list, or waits in its queue; and
\* the same by the header of the screen on display.  No event is new to them.
LEMMA HandleSocketSteps ==
  ASSUME TypeInv, NEW e \in socket, HandleSocket(e)
  PROVE  /\ \E s, u :
              /\ \/ s = Processed(List, e, Now)
                 \/ s = Now /\ e \in Range(queues'[List][e.type])
              /\ u = s \/ (opened \in Listeners /\ u = Processed(opened, e, s))
              /\ Becomes(u)
         /\ queues' \in [Listeners -> [Types -> Seq(Event)]]
         /\ QueuesMade' /\ Events' \subseteq Events
         /\ \A t \in Types : Range(queues[List][t]) \subseteq Range(queues'[List][t])
<1>1. /\ e \in Event /\ e.type \in Types /\ e \in Events
      /\ queues \in [Listeners -> [Types -> Seq(Event)]]
  BY EventIn DEF TypeInv, TypeOK, Event
<1> DEFINE listeners == {List} \cup (IF open THEN {opened} ELSE {})
           idle == {l \in listeners : queues[l][e.type] = << >>}
<1>2. PICK runs \in SUBSET idle :
        /\ LET s == IF List \in runs THEN Processed(List, e, Now) ELSE Now IN
           Becomes(IF opened \in runs \ {List} THEN Processed(opened, e, s) ELSE s)
        /\ queues' = [l \in Listeners |->
             IF l \in listeners \ runs
             THEN [queues[l] EXCEPT ![e.type] = Append(queues[l][e.type], e)] ELSE queues[l]]
  BY DEF HandleSocket
<1>3. opened \in Listeners
  BY Bounds DEF TypeInv, TypeOK, Listeners, List
<1> HIDE DEF idle
<1>4. List \in listeners
  OBVIOUS
<1> HIDE DEF listeners
<1>5. ASSUME NEW l \in Listeners, NEW t \in Types
      PROVE  /\ queues'[l] \in [Types -> Seq(Event)]
             /\ \/ queues'[l][t] = queues[l][t]
                \/ t = e.type /\ queues'[l][t] = Append(queues[l][t], e)
             /\ l \in listeners \ runs => queues'[l][e.type] = Append(queues[l][e.type], e)
  <2>1. queues[l] \in [Types -> Seq(Event)]
    BY <1>1
  <2>2. CASE l \in listeners \ runs
    <3>1. queues'[l] = [queues[l] EXCEPT ![e.type] = Append(queues[l][e.type], e)]
      BY <1>2, <2>2
    <3>2. Append(queues[l][e.type], e) \in Seq(Event)
      BY <1>1, <2>1
    <3>3. QED
      BY <1>1, <2>1, <3>1, <3>2
  <2>3. CASE l \notin listeners \ runs
    BY <1>2, <2>1, <2>3
  <2>4. QED
    BY <2>2, <2>3
<1>6. ASSUME NEW l \in Listeners, NEW t \in Types
      PROVE  /\ Range(queues[l][t]) \subseteq Range(queues'[l][t])
             /\ \A x \in Range(queues'[l][t]) :
                  x \in Range(queues[l][t]) \/ (x = e /\ t = e.type)
             /\ l \in listeners \ runs => e \in Range(queues'[l][e.type])
  <2> DEFINE q == queues[l][t]
  <2>1. ASSUME NEW v \in Types
        PROVE  /\ queues[l][v] \in Seq(Event)
               /\ Range(Append(queues[l][v], e)) = Range(queues[l][v]) \cup {e}
    <3>1. queues[l][v] \in Seq(Event)
      BY <1>1
    <3>2. /\ DOMAIN Append(queues[l][v], e) = 1..(Len(queues[l][v]) + 1)
          /\ DOMAIN queues[l][v] = 1..Len(queues[l][v]) /\ Len(queues[l][v]) \in Nat
          /\ \A i \in 1..Len(queues[l][v]) : Append(queues[l][v], e)[i] = queues[l][v][i]
          /\ Append(queues[l][v], e)[Len(queues[l][v]) + 1] = e
      BY <1>1, <3>1
    <3>3. QED
      BY <3>1, <3>2 DEF Range
  <2>2. Range(queues[l][t]) \subseteq Range(queues'[l][t])
    BY <1>5, <2>1
  <2>3. \A x \in Range(queues'[l][t]) : x \in Range(queues[l][t]) \/ (x = e /\ t = e.type)
    <3>1. CASE queues'[l][t] = queues[l][t]
      BY <3>1
    <3>2. CASE t = e.type /\ queues'[l][t] = Append(queues[l][t], e)
      BY <2>1, <3>2
    <3>3. QED
      BY <1>5, <3>1, <3>2
  <2>4. l \in listeners \ runs => e \in Range(queues'[l][e.type])
    BY <1>1, <1>5, <2>1
  <2>5. QED
    BY <2>2, <2>3, <2>4
<1>7. QueuesMade'
  BY <1>6 DEF QueuesMade, TypeInv, MadeInv
<1>8. Events' \subseteq Events
  <2> SUFFICES ASSUME NEW x \in Events' PROVE x \in Events
    OBVIOUS
  <2>1. socket' \subseteq socket
    BY DEF HandleSocket
  <2>2. x \in socket' \/ \E l \in Listeners, t \in Types : x \in Range(queues'[l][t])
    BY DEF Events
  <2>3. CASE x \in socket'
    BY <2>1, <2>3, EventIn
  <2>4. CASE \E l \in Listeners, t \in Types : x \in Range(queues'[l][t])
    BY <1>1, <1>6, <2>4, EventIn
  <2>5. QED
    BY <2>2, <2>3, <2>4
<1>9. queues' \in [Listeners -> [Types -> Seq(Event)]]
  <2>1. queues' = [l \in Listeners |-> queues'[l]]
    BY <1>2
  <2>2. \A l \in Listeners : queues'[l] \in [Types -> Seq(Event)]
    BY <1>1, <1>5
  <2>3. QED
    BY <2>1, <2>2
<1>10. \E s, u :
         /\ \/ s = Processed(List, e, Now)
            \/ s = Now /\ e \in Range(queues'[List][e.type])
         /\ u = s \/ (opened \in Listeners /\ u = Processed(opened, e, s))
         /\ Becomes(u)
  <2> DEFINE s == IF List \in runs THEN Processed(List, e, Now) ELSE Now
  <2>1. \/ s = Processed(List, e, Now)
        \/ s = Now /\ e \in Range(queues'[List][e.type])
    BY <1>1, <1>4, <1>6, Bounds
  <2>2. PICK u : u = IF opened \in runs \ {List} THEN Processed(opened, e, s) ELSE s
    OBVIOUS
  <2>3. Becomes(u)
    BY <1>2, <2>2
  <2> HIDE DEF s
  <2>4. u = s \/ (opened \in Listeners /\ u = Processed(opened, e, s))
    <3>1. CASE opened \in runs \ {List}
      BY <1>3, <2>2, <3>1
    <3>2. CASE opened \notin runs \ {List}
      BY <2>2, <3>2
    <3>3. QED
      BY <3>1, <3>2
  <2>5. QED
    BY <2>1, <2>3, <2>4
<1>11. QED
  BY <1>6, <1>7, <1>8, <1>9, <1>10, Bounds

LEMMA HandleSocketType ==
  ASSUME TypeInv, NEW e \in socket, HandleSocket(e)
  PROVE  TypeInv'
<1>1. PICK s, u :
        /\ s = Processed(List, e, Now) \/ s = Now
        /\ u = s \/ (opened \in Listeners /\ u = Processed(opened, e, s))
        /\ Becomes(u)
  BY HandleSocketSteps
<1>2. /\ queues' \in [Listeners -> [Types -> Seq(Event)]]
      /\ QueuesMade' /\ Events' \subseteq Events
  BY HandleSocketSteps
<1>3. UNCHANGED <<posted, deleted, faults, gen, next, screen, own, loads, pages, sends,
                  deletes>> /\ socket' \subseteq socket
  BY DEF HandleSocket
<1> USE DEF screen
<1>4. Fits(Now) /\ e \in Events
  BY EventIn DEF TypeInv, MadeInv
<1>5. Fits(s)
  BY <1>1, <1>4, ProcessedFits, Bounds
<1>6. Fits(u)
  BY <1>1, <1>4, <1>5, ProcessedFits
<1>7. tree' = u.tree /\ details' = u.details
  BY <1>1 DEF Becomes
<1>8. TypeOK'
  <2>1. tree' \in Seq(Item) /\ details' \subseteq Detail /\ (gen' = 0 => tree' = << >>)
    BY <1>3, <1>6, <1>7 DEF Fits
  <2>2. QED
    BY <1>2, <1>3, <2>1 DEF TypeInv, TypeOK
<1>9. CountInv'
  BY <1>3, CountKept DEF TypeInv
<1>10. Fits(Now)'
  <2>1. Now' = [tree |-> u.tree, details |-> u.details]
    BY <1>7 DEF Now
  <2>2. u = [tree |-> u.tree, details |-> u.details]
    BY <1>6 DEF Fits
  <2>3. QED
    BY <1>3, <1>6, <2>1, <2>2 DEF Fits
<1>11. EventsMade'
  BY <1>2, <1>3 DEF TypeInv, MadeInv, EventsMade, Tells
<1>12. MadeInv'
  BY <1>2, <1>3, <1>10, <1>11
     DEF TypeInv, MadeInv, LoadMade, PageMade, DeletionMade
<1>13. QED
  BY <1>8, <1>9, <1>12 DEF TypeInv

\* A timeout takes the first event of a queue.
LEMMA NextProcessSteps ==
  ASSUME TypeInv, NEW l \in Listeners, NEW t \in Types, NextProcess(l, t)
  PROVE  LET e == Head(queues[l][t]) IN
         /\ e \in Events /\ e.type = t /\ e \in Range(queues[l][t])
         /\ Becomes(Processed(l, e, Now))
         /\ queues' \in [Listeners -> [Types -> Seq(Event)]]
         /\ QueuesMade' /\ Events' \subseteq Events
         /\ \A x \in Range(queues[l][t]) : x = e \/ x \in Range(queues'[l][t])
         /\ \A m \in Listeners, v \in Types :
              m # l \/ v # t => queues'[m][v] = queues[m][v]
<1> DEFINE q == queues[l][t]
           e == Head(q)
<1>1. /\ queues \in [Listeners -> [Types -> Seq(Event)]] /\ q \in Seq(Event) /\ q # << >>
      /\ queues' = [queues EXCEPT ![l][t] = Tail(q)]
      /\ Becomes(Processed(l, e, Now))
  BY DEF TypeInv, TypeOK, NextProcess
<1>2. /\ Tail(q) \in Seq(Event) /\ Len(q) \in Nat \ {0} /\ DOMAIN q = 1..Len(q)
      /\ DOMAIN Tail(q) = 1..(Len(q) - 1)
      /\ \A i \in 1..(Len(q) - 1) : Tail(q)[i] = q[i + 1]
      /\ e = q[1]
  BY <1>1
<1>3. /\ e \in Range(q)
      /\ Range(Tail(q)) \subseteq Range(q)
      /\ \A x \in Range(q) : x = e \/ x \in Range(Tail(q))
  <2>1. e \in Range(q) /\ Range(Tail(q)) \subseteq Range(q)
    BY <1>2 DEF Range
  <2>2. ASSUME NEW x \in Range(q), x # e
        PROVE  x \in Range(Tail(q))
    <3>1. PICK i \in 1..Len(q) : x = q[i]
      BY <1>2 DEF Range
    <3>2. i - 1 \in 1..(Len(q) - 1) /\ Tail(q)[i - 1] = x
      BY <1>2, <2>2, <3>1
    <3>3. QED
      BY <1>2, <3>2 DEF Range
  <2>3. QED
    BY <2>1, <2>2
<1>4. /\ queues' \in [Listeners -> [Types -> Seq(Event)]]
      /\ queues'[l][t] = Tail(q)
      /\ \A m \in Listeners, v \in Types : m # l \/ v # t => queues'[m][v] = queues[m][v]
  BY <1>1, <1>2
<1> HIDE DEF e, q
<1>5. \A m \in Listeners, v \in Types : Range(queues'[m][v]) \subseteq Range(queues[m][v])
  <2> SUFFICES ASSUME NEW m \in Listeners, NEW v \in Types
               PROVE  Range(queues'[m][v]) \subseteq Range(queues[m][v])
    OBVIOUS
  <2>1. CASE m # l \/ v # t
    BY <1>4, <2>1
  <2>2. CASE m = l /\ v = t
    BY <1>3, <1>4, <2>2 DEF q
  <2>3. QED
    BY <2>1, <2>2
<1>6. QueuesMade'
  BY <1>5 DEF QueuesMade, TypeInv, MadeInv
<1>7. Events' \subseteq Events
  <2>1. socket' = socket
    BY DEF NextProcess, server
  <2>2. QED
    BY <1>5, <2>1 DEF Events
<1>8. e \in Events /\ e.type = t
  BY <1>3, EventIn DEF q, TypeInv, MadeInv, QueuesMade
<1>9. QED
  BY <1>1, <1>3, <1>4, <1>6, <1>7, <1>8 DEF e, q

LEMMA NextProcessType ==
  ASSUME TypeInv, NEW l \in Listeners, NEW t \in Types, NextProcess(l, t)
  PROVE  TypeInv'
<1>1. PICK e : e = Head(queues[l][t])
  OBVIOUS
<1>2. /\ e \in Events /\ Becomes(Processed(l, e, Now))
      /\ queues' \in [Listeners -> [Types -> Seq(Event)]]
      /\ QueuesMade' /\ Events' \subseteq Events
  BY <1>1, NextProcessSteps
<1>3. PICK u : u = Processed(l, e, Now)
  OBVIOUS
<1>4. UNCHANGED <<server, gen, next, screen, own, loads, pages, sends, deletes>>
  BY DEF NextProcess
<1> USE DEF server, screen
<1>5. Fits(u)
  BY <1>2, <1>3, ProcessedFits DEF TypeInv, MadeInv
<1>6. tree' = u.tree /\ details' = u.details
  BY <1>2, <1>3 DEF Becomes
<1>7. TypeOK'
  <2>1. tree' \in Seq(Item) /\ details' \subseteq Detail /\ (gen' = 0 => tree' = << >>)
    BY <1>4, <1>5, <1>6 DEF Fits
  <2>2. QED
    BY <1>2, <1>4, <2>1 DEF TypeInv, TypeOK
<1>8. CountInv'
  BY <1>4, CountKept DEF TypeInv
<1>9. Fits(Now)'
  <2>1. Now' = [tree |-> u.tree, details |-> u.details]
    BY <1>6 DEF Now
  <2>2. u = [tree |-> u.tree, details |-> u.details]
    BY <1>5 DEF Fits
  <2>3. QED
    BY <1>4, <1>5, <2>1, <2>2 DEF Fits
<1>10. EventsMade'
  BY <1>2, <1>4 DEF TypeInv, MadeInv, EventsMade, Tells
<1>11. MadeInv'
  BY <1>2, <1>4, <1>9, <1>10
     DEF TypeInv, MadeInv, LoadMade, PageMade, DeletionMade
<1>12. QED
  BY <1>7, <1>8, <1>11 DEF TypeInv

LEMMA DetailType ==
  ASSUME TypeInv, NEW r \in details, DetailAnswered(r) \/ DetailFailed(r)
  PROVE  TypeInv'
<1> USE DEF server, comments, screen
<1>1. /\ UNCHANGED <<posted, deleted, socket, gen, next, screen, queues, own, loads, pages,
                     sends, deletes>>
      /\ faults' \in 0..MaxFaults /\ details' = details \ {r}
      /\ tree' = tree \/ (r.gen = gen /\ tree' = <<ItemOf(r.id)>> \o tree)
  <2>1. faults \in 0..MaxFaults /\ MaxFaults \in Nat
    BY Bounds DEF TypeInv, TypeOK
  <2>2. QED
    BY <2>1 DEF DetailAnswered, DetailFailed
<1>2. r \in Detail /\ ItemOf(r.id) \in Item /\ ItemOf(r.id).id = r.id
  BY Bounds DEF TypeInv, TypeOK, Detail, ItemOf, Item
<1>3. tree \in Seq(Item) /\ <<ItemOf(r.id)>> \in Seq(Item) /\ Fits(Now)
  BY <1>2 DEF TypeInv, TypeOK, MadeInv
<1>4. r.id <= posted /\ r.gen # 0 /\ \A i \in DOMAIN tree : tree[i].id <= posted
  BY <1>3 DEF Fits, Now
<1>5. /\ tree' \in Seq(Item) /\ (gen' = 0 => tree' = << >>)
      /\ \A i \in DOMAIN tree' : tree'[i].id <= posted
  <2>1. CASE tree' = tree
    BY <1>1, <1>3, <1>4, <2>1 DEF TypeInv, TypeOK
  <2>2. CASE r.gen = gen /\ tree' = <<ItemOf(r.id)>> \o tree
    BY <1>1, <1>2, <1>3, <1>4, <2>2, ConcatProperties
  <2>3. QED
    BY <1>1, <2>1, <2>2
<1>6. TypeOK'
  BY <1>1, <1>5 DEF TypeInv, TypeOK
<1>7. CountInv'
  BY <1>1, CountKept DEF TypeInv
<1>8. Fits(Now)'
  BY <1>1, <1>3, <1>5, <1>6 DEF Fits, Now
<1>9. MadeInv'
  BY <1>1, <1>8, ClientMade DEF MadeInv
<1>10. QED
  BY <1>6, <1>7, <1>9 DEF TypeInv

LEMMA OpenType ==
  ASSUME TypeInv, Open
  PROVE  TypeInv'
<1> USE DEF server, comments
<1> DEFINE r == [screen |-> opened + 1, served |-> FALSE, answer |-> NoPage]
<1>1. /\ UNCHANGED <<server, comments, queues, own, details, pages, sends, deletes>>
      /\ opened' = opened + 1 /\ open' = TRUE /\ shown' = gen /\ more' = FALSE
      /\ filling' = FALSE /\ opened < MaxScreens
      /\ loads' = IF gen # 0 THEN loads ELSE loads \cup {r}
  BY DEF Open
<1>2. opened \in Nat /\ gen \in Nat /\ posted \in Nat /\ MaxScreens \in Nat
      /\ opened <= MaxScreens
  BY Bounds DEF TypeInv, TypeOK
<1>3. NoPage \in Page /\ r \in Load /\ OfPage(r.answer, posted' + 1)
  BY <1>1, <1>2, Bounds DEF NoPage, Page, Load, OfPage
<1> HIDE DEF r
<1>4. TypeOK'
  <2>1. opened' \in 0..MaxScreens /\ open' \in BOOLEAN /\ shown' \in 0..gen'
        /\ more' \in BOOLEAN /\ filling' \in BOOLEAN
    <3>1. opened' \in 0..MaxScreens /\ shown' \in 0..gen'
      BY <1>1, <1>2
    <3>2. QED
      BY <1>1, <3>1
  <2>2. loads' \subseteq Load
    BY <1>1, <1>3 DEF TypeInv, TypeOK
  <2>3. QED
    BY <1>1, <2>1, <2>2 DEF TypeInv, TypeOK
<1>5. CountInv'
  <2>1. /\ IsFiniteSet(loads') /\ Cardinality(loads') \in Nat /\ Cardinality(loads) \in Nat
        /\ Cardinality(loads') <= Cardinality(loads) + 1
    <3>1. IsFiniteSet(loads) /\ Cardinality(loads) \in Nat
      BY FS_CardinalityType DEF TypeInv, CountInv
    <3>2. /\ IsFiniteSet(loads \cup {r}) /\ Cardinality(loads \cup {r}) \in Nat
          /\ Cardinality(loads \cup {r}) <= Cardinality(loads) + 1
      BY <3>1, FS_AddElement, FS_CardinalityType
    <3>3. CASE gen # 0
      BY <1>1, <3>1, <3>3
    <3>4. CASE gen = 0
      BY <1>1, <3>1, <3>2, <3>4
    <3>5. QED
      BY <3>3, <3>4
  <2>2. gen' + Cardinality(loads') <= opened'
    BY <1>1, <1>2, <2>1 DEF TypeInv, CountInv
  <2>3. QED
    BY <1>1, <1>2, <2>1, <2>2 DEF TypeInv, CountInv
<1>6. \A x \in loads' : LoadMade(x)'
  <2> SUFFICES ASSUME NEW x \in loads' PROVE LoadMade(x)'
    OBVIOUS
  <2>1. CASE x \in loads
    BY <1>1, <2>1, ClientMade
  <2>2. CASE x = r
    BY <1>3, <2>2 DEF LoadMade
  <2>3. QED
    BY <1>1, <2>1, <2>2
<1>7. MadeInv'
  BY <1>1, <1>6, ClientMade DEF MadeInv
<1>8. QED
  BY <1>4, <1>5, <1>7 DEF TypeInv

\* What is left of the queues of a screen that is closed.
LEMMA LeaveEvents ==
  ASSUME TypeOK, Leave
  PROVE  /\ queues' \in [Listeners -> [Types -> Seq(Event)]]
         /\ \A l \in Listeners, t \in Types : Range(queues'[l][t]) \subseteq Range(queues[l][t])
         /\ Events' \subseteq Events
<1>1. /\ socket' = socket
      /\ \/ UNCHANGED queues
         \/ \E t \in Types : queues' = [queues EXCEPT ![opened][t] = << >>]
  BY DEF Leave, server
<1>2. opened \in Listeners /\ queues \in [Listeners -> [Types -> Seq(Event)]]
  BY Bounds DEF TypeOK, Listeners, List
<1>3. /\ queues' \in [Listeners -> [Types -> Seq(Event)]]
      /\ \A l \in Listeners, t \in Types : Range(queues'[l][t]) \subseteq Range(queues[l][t])
  <2>1. CASE UNCHANGED queues
    BY <1>2, <2>1
  <2>2. ASSUME NEW t \in Types, queues' = [queues EXCEPT ![opened][t] = << >>]
        PROVE  <1>3
    <3>1. /\ queues' \in [Listeners -> [Types -> Seq(Event)]]
          /\ \A l \in Listeners, v \in Types :
               queues'[l][v] = queues[l][v] \/ queues'[l][v] = << >>
      BY <1>2, <2>2
    <3>2. Range(<< >>) = {}
      BY DEF Range
    <3>3. QED
      BY <3>1, <3>2, Zenon
  <2>3. QED
    BY <1>1, <2>1, <2>2
<1>4. ASSUME NEW x \in Events'
      PROVE  x \in Events
  <2>1. x \in socket' \/ \E l \in Listeners, t \in Types : x \in Range(queues'[l][t])
    BY DEF Events
  <2>2. QED
    BY <1>1, <1>3, <2>1, EventIn
<1>5. QED
  BY <1>3, <1>4

LEMMA LeaveType ==
  ASSUME TypeInv, Leave
  PROVE  TypeInv'
<1> USE DEF server, comments, requests
<1>1. /\ UNCHANGED <<server, comments, opened, requests>>
      /\ open' = FALSE /\ shown' = 0 /\ more' = FALSE /\ filling' = FALSE
  BY DEF Leave
<1>2. /\ queues' \in [Listeners -> [Types -> Seq(Event)]]
      /\ \A l \in Listeners, t \in Types : Range(queues'[l][t]) \subseteq Range(queues[l][t])
      /\ Events' \subseteq Events
  BY LeaveEvents DEF TypeInv
<1>3. TypeOK'
  <2>1. shown' \in 0..gen'
    BY <1>1, Bounds DEF TypeInv, TypeOK
  <2>2. QED
    BY <1>1, <1>2, <2>1 DEF TypeInv, TypeOK
<1>4. CountInv'
  BY <1>1 DEF TypeInv, CountInv
<1>5. QueuesMade'
  BY <1>2 DEF TypeInv, MadeInv, QueuesMade
<1>6. MadeInv'
  BY <1>1, <1>2, <1>5 DEF TypeInv, MadeInv, EventsMade, Tells, Fits, Now, LoadMade, PageMade,
                    DeletionMade
<1>7. QED
  BY <1>3, <1>4, <1>6 DEF TypeInv

\* The replies of a page, hung on the assignment or added.
LEMMA PageItems ==
  ASSUME posted \in Nat, NEW from \in Nat, from <= posted + 1,
         NEW p \in Page, OfPage(p, from)
  PROVE  /\ Items(p.data) \in Seq(Item) /\ DOMAIN Items(p.data) = DOMAIN p.data
         /\ \A i \in DOMAIN p.data :
              /\ Items(p.data)[i] = ItemOf(p.data[i]) /\ Items(p.data)[i].id = p.data[i]
              /\ p.data[i] < from /\ p.data[i] <= posted /\ p.data[i] # 0
<1>1. p.data \in Seq(Id) /\ DOMAIN p.data = 1..Len(p.data) /\ Len(p.data) \in Nat
  BY DEF Page
<1>2. ASSUME NEW i \in DOMAIN p.data
      PROVE  /\ ItemOf(p.data[i]) \in Item /\ ItemOf(p.data[i]).id = p.data[i]
             /\ p.data[i] < from /\ p.data[i] <= posted /\ p.data[i] # 0
  <2>1. p.data[i] \in Id /\ p.data[i] \in 1..(from - 1)
    BY <1>1 DEF OfPage
  <2>2. QED
    BY <2>1, Bounds DEF ItemOf, Item
<1>3. Items(p.data) = [i \in 1..Len(p.data) |-> ItemOf(p.data[i])]
  BY <1>1 DEF Items
<1>4. Items(p.data) \in Seq(Item)
  BY <1>1, <1>2, <1>3
<1>5. QED
  BY <1>1, <1>2, <1>3, <1>4

LEMMA CommentsLoadedType ==
  ASSUME TypeInv, NEW r \in loads, CommentsLoaded(r)
  PROVE  TypeInv'
<1> USE DEF server
<1>1. /\ UNCHANGED <<server, opened, open, shown, queues, own, details, pages, sends,
                     deletes>>
      /\ loads' = loads \ {r} /\ gen' = gen + 1
      /\ tree' = Items(r.answer.data) /\ next' = r.answer.next
      /\ more' \in BOOLEAN /\ filling' \in BOOLEAN
  BY DEF CommentsLoaded, TypeInv, TypeOK
<1>2. /\ opened \in Nat /\ gen \in Nat /\ posted \in Nat /\ MaxScreens \in Nat
      /\ opened <= MaxScreens /\ posted + 1 \in Nat
  BY Bounds DEF TypeInv, TypeOK
<1>3. r \in Load /\ r.answer \in Page /\ OfPage(r.answer, posted + 1) /\ r.answer.next \in Id
  BY DEF TypeInv, TypeOK, MadeInv, LoadMade, Load, Page
<1>4. tree' \in Seq(Item) /\ \A i \in DOMAIN tree' : tree'[i].id <= posted
  BY <1>1, <1>2, <1>3, PageItems
<1>5. /\ IsFiniteSet(loads') /\ Cardinality(loads') \in Nat
      /\ gen' + Cardinality(loads') <= opened
  <2>1. /\ IsFiniteSet(loads') /\ Cardinality(loads) \in Nat
        /\ Cardinality(loads') = Cardinality(loads) - 1
    BY <1>1, ReplacedCount DEF TypeInv, CountInv
  <2>2. Cardinality(loads') \in Nat
    BY <2>1, FS_CardinalityType
  <2>3. QED
    BY <1>1, <1>2, <2>1, <2>2 DEF TypeInv, CountInv
<1>6. gen' \in 0..MaxScreens /\ gen' # 0 /\ shown' \in 0..gen'
  <2>1. shown \in 0..gen
    BY DEF TypeInv, TypeOK
  <2>2. QED
    BY <1>1, <1>2, <1>5, <2>1
<1>7. TypeOK'
  BY <1>1, <1>3, <1>4, <1>6 DEF TypeInv, TypeOK
<1>8. CountInv'
  BY <1>1, <1>5, <1>6 DEF TypeInv, CountInv
<1>9. Fits(Now)' /\ next' <= posted'
  <2>1. next' <= posted'
    BY <1>1, <1>2, <1>3, Bounds DEF OfPage
  <2>2. \A x \in details' : x.id # 0 /\ x.id <= posted' /\ x.gen # 0
    BY <1>1 DEF TypeInv, MadeInv, Fits, Now
  <2>3. QED
    BY <1>1, <1>4, <1>6, <1>7, <2>1, <2>2 DEF Fits, Now, TypeOK
<1>10. MadeInv'
  BY <1>1, <1>9, ClientMade DEF MadeInv
<1>11. QED
  BY <1>7, <1>8, <1>10 DEF TypeInv

LEMMA LoadFailedType ==
  ASSUME TypeInv, NEW r \in loads, LoadFailed(r)
  PROVE  TypeInv'
<1> USE DEF comments, screen
<1>1. /\ UNCHANGED <<posted, deleted, socket, comments, screen, queues, own, details,
                     pages, sends, deletes>>
      /\ loads' = loads \ {r} /\ faults' \in 0..MaxFaults
  BY Bounds DEF LoadFailed, TypeInv, TypeOK
<1>2. TypeOK'
  BY <1>1 DEF TypeInv, TypeOK
<1>3. /\ IsFiniteSet(loads') /\ Cardinality(loads) \in Nat
      /\ Cardinality(loads') = Cardinality(loads) - 1
  BY <1>1, ReplacedCount DEF TypeInv, CountInv
<1>4. gen \in Nat /\ opened \in Nat
  BY Bounds DEF TypeInv, TypeOK
<1>5. CountInv'
  BY <1>1, <1>3, <1>4 DEF TypeInv, CountInv
<1>6. MadeInv'
  BY <1>1, ClientMade DEF MadeInv
<1>7. QED
  BY <1>2, <1>5, <1>6 DEF TypeInv

LEMMA PostAnsweredType ==
  ASSUME TypeInv, InitData \/ PostFailed
  PROVE  TypeInv'
<1> USE DEF server, comments, requests
<1>1. /\ UNCHANGED <<posted, deleted, socket, comments, opened, open, more, queues,
                     requests>>
      /\ filling' = FALSE /\ faults' \in 0..MaxFaults /\ shown' \in 0..gen'
  <2>1. faults \in 0..MaxFaults /\ gen \in Nat /\ MaxFaults \in Nat
    BY Bounds DEF TypeInv, TypeOK
  <2>2. QED
    BY <2>1 DEF InitData, PostFailed
<1>2. TypeOK'
  BY <1>1 DEF TypeInv, TypeOK
<1>3. CountInv'
  BY <1>1, CountKept DEF TypeInv
<1>4. MadeInv'
  BY <1>1, ClientMade DEF MadeInv
<1>5. QED
  BY <1>2, <1>3, <1>4 DEF TypeInv

LEMMA GetMoreSubCommentsType ==
  ASSUME TypeInv, GetMoreSubComments
  PROVE  TypeInv'
<1> USE DEF server, comments
<1> DEFINE r == [screen |-> opened, gen |-> gen, from |-> next, served |-> FALSE,
                 answer |-> NoPage]
<1>1. /\ UNCHANGED <<server, comments, opened, open, shown, filling, queues, own, loads,
                     details, sends, deletes>>
      /\ open /\ more /\ more' = FALSE
      /\ pages' = IF next = 0 THEN pages ELSE pages \cup {r}
  BY DEF GetMoreSubComments
<1>2. gen # 0 /\ opened \in 1..MaxScreens /\ gen \in 0..MaxScreens /\ next \in Id
  BY <1>1, Bounds DEF TypeInv, TypeOK, CountInv
<1>3. r \in More /\ next # 0 => OfPage(r.answer, r.from)
  BY <1>2, Bounds DEF NoPage, Page, More, OfPage
<1>4. TypeOK'
  <2>1. r \in More
    BY <1>2, Bounds DEF NoPage, Page, More
  <2>2. QED
    BY <1>1, <2>1 DEF TypeInv, TypeOK
<1>5. CountInv'
  BY <1>1 DEF TypeInv, CountInv
<1>6. ASSUME next # 0
      PROVE  /\ r.gen # 0 /\ r.from # 0 /\ r.from <= posted' /\ OfPage(r.answer, r.from)
  <2>1. OfPage(NoPage, next)
    BY <1>2, <1>6, Bounds DEF NoPage, OfPage
  <2>2. QED
    BY <1>1, <1>2, <1>6, <2>1 DEF TypeInv, MadeInv
<1> HIDE DEF r
<1>7. \A x \in pages' : PageMade(x)'
  <2> SUFFICES ASSUME NEW x \in pages' PROVE PageMade(x)'
    OBVIOUS
  <2>1. CASE x \in pages
    BY <1>1, <2>1, ClientMade
  <2>2. CASE x = r /\ next # 0
    BY <1>6, <2>2 DEF PageMade
  <2>3. QED
    BY <1>1, <2>1, <2>2
<1>8. MadeInv'
  BY <1>1, <1>7, ClientMade DEF MadeInv
<1>9. QED
  BY <1>4, <1>5, <1>8 DEF TypeInv

LEMMA PageAnsweredType ==
  ASSUME TypeInv, NEW r \in pages, PageAnswered(r)
  PROVE  TypeInv'
<1> USE DEF server
<1>1. /\ UNCHANGED <<server, gen, opened, open, shown, filling, queues, own, loads,
                     details, sends, deletes>>
      /\ pages' = pages \ {r} /\ more' \in BOOLEAN
      /\ \/ UNCHANGED <<tree, next>>
         \/ r.gen = gen /\ tree' = tree \o Items(r.answer.data) /\ next' = r.answer.next
  BY DEF PageAnswered, TypeInv, TypeOK
<1>2. /\ r \in More /\ r.answer \in Page /\ r.answer.next \in Id /\ r.from \in Nat
      /\ OfPage(r.answer, r.from) /\ r.from <= posted /\ r.gen # 0 /\ posted \in Nat
      /\ next \in Id
  BY Bounds DEF TypeInv, TypeOK, MadeInv, PageMade, More, Page
<1>3. tree \in Seq(Item) /\ \A i \in DOMAIN tree : tree[i].id <= posted
  BY DEF TypeInv, TypeOK, MadeInv, Fits, Now
<1>4. /\ Items(r.answer.data) \in Seq(Item)
      /\ \A i \in DOMAIN Items(r.answer.data) : Items(r.answer.data)[i].id <= posted
  BY <1>2, PageItems
<1>5. /\ tree' \in Seq(Item) /\ next' \in Id /\ next' <= posted
      /\ (gen' = 0 => tree' = << >>)
      /\ \A i \in DOMAIN tree' : tree'[i].id <= posted
  <2>1. CASE UNCHANGED <<tree, next>>
    BY <1>1, <1>2, <1>3, <2>1 DEF TypeInv, TypeOK, MadeInv
  <2>2. CASE r.gen = gen /\ tree' = tree \o Items(r.answer.data) /\ next' = r.answer.next
    <3>1. r.answer.next \in Nat /\ r.answer.next < r.from
      BY <1>2, Bounds DEF OfPage
    <3>2. \A i \in DOMAIN tree' : tree'[i].id <= posted
      BY <1>3, <1>4, <2>2, ConcatProperties
    <3>3. tree' \in Seq(Item)
      BY <1>3, <1>4, <2>2, ConcatProperties
    <3>4. QED
      BY <1>1, <1>2, <2>2, <3>1, <3>2, <3>3
  <2>3. QED
    BY <1>1, <2>1, <2>2
<1>6. TypeOK'
  BY <1>1, <1>5 DEF TypeInv, TypeOK
<1>7. CountInv'
  <2>1. gen # 0 /\ pages # {}
    BY DEF TypeInv, CountInv
  <2>2. QED
    BY <1>1, <2>1 DEF TypeInv, CountInv
<1>8. Fits(Now)'
  BY <1>1, <1>5, <1>6 DEF Fits, Now, TypeOK, TypeInv, MadeInv
<1>9. MadeInv'
  BY <1>1, <1>5, <1>8, ClientMade DEF MadeInv
<1>10. QED
  BY <1>6, <1>7, <1>9 DEF TypeInv

LEMMA PageFailedType ==
  ASSUME TypeInv, NEW r \in pages, PageFailed(r)
  PROVE  TypeInv'
<1> USE DEF comments, screen
<1>1. /\ UNCHANGED <<posted, deleted, socket, comments, screen, queues, own, loads,
                     details, sends, deletes>>
      /\ pages' = pages \ {r} /\ faults' \in 0..MaxFaults
  BY Bounds DEF PageFailed, TypeInv, TypeOK
<1>2. TypeOK'
  BY <1>1 DEF TypeInv, TypeOK
<1>3. CountInv'
  BY <1>1, CountKept DEF TypeInv
<1>4. MadeInv'
  BY <1>1, ClientMade DEF MadeInv
<1>5. QED
  BY <1>2, <1>3, <1>4 DEF TypeInv

LEMMA SentTypes ==
  ASSUME TypeOK, NEW r \in sends
  PROVE  r \in Sent /\ r.detect \in Detect
BY DEF TypeOK, Sent

LEMMA HandleSendCommentType ==
  ASSUME TypeInv, HandleSendComment
  PROVE  TypeInv'
<1> USE DEF server, screen
<1> DEFINE item == [id |-> 0, detect |-> own + 1, status |-> "sending"]
           r == [detect |-> own + 1, answer |-> "waiting"]
<1>1. /\ UNCHANGED <<server, gen, next, screen, queues, loads, details, pages, deletes>>
      /\ gen # 0 /\ own < MaxOwn /\ own' = own + 1
      /\ tree' = <<item>> \o tree /\ sends' = sends \cup {r}
  BY DEF HandleSendComment
<1>2. own + 1 \in Detect /\ own' \in Detect /\ own \in Nat
  BY <1>1, Bounds DEF TypeInv, TypeOK, Detect
<1>3. item \in Item /\ r \in Sent /\ item.id = 0
  BY <1>2, Bounds DEF Item, Sent
<1>4. tree \in Seq(Item) /\ \A i \in DOMAIN tree : tree[i].id <= posted
  BY DEF TypeInv, TypeOK, MadeInv, Fits, Now
<1> HIDE DEF item, r
<1>5. posted \in Nat /\ 0 <= posted
  BY Bounds DEF TypeInv, TypeOK
<1>6. tree' \in Seq(Item) /\ \A i \in DOMAIN tree' : tree'[i].id <= posted
  BY <1>1, <1>3, <1>4, <1>5, ConcatProperties
<1>7. TypeOK'
  <2>1. sends' \subseteq Sent
    BY <1>1, <1>3 DEF TypeInv, TypeOK
  <2>2. QED
    BY <1>1, <1>2, <1>6, <2>1 DEF TypeInv, TypeOK
<1>8. CountInv'
  BY <1>1, CountKept DEF TypeInv
<1>9. Fits(Now)'
  BY <1>1, <1>6, <1>7 DEF Fits, Now, TypeInv, TypeOK, MadeInv
<1>10. MadeInv'
  BY <1>1, <1>9, ClientMade DEF MadeInv
<1>11. QED
  BY <1>7, <1>8, <1>10 DEF TypeInv

LEMMA WithStatusItems ==
  ASSUME TypeOK, NEW d, NEW st \in {"sending", "delivered", "failed"}
  PROVE  /\ WithStatus(d, st) \in Seq(Item)
         /\ DOMAIN WithStatus(d, st) = DOMAIN tree
         /\ \A i \in DOMAIN tree :
              /\ WithStatus(d, st)[i].id = tree[i].id
              /\ WithStatus(d, st)[i].detect = tree[i].detect
              /\ WithStatus(d, st)[i].status = IF tree[i].detect = d THEN st
                                               ELSE tree[i].status
<1>1. tree \in Seq(Item) /\ DOMAIN tree = 1..Len(tree) /\ Len(tree) \in Nat
  BY DEF TypeOK
<1>2. ASSUME NEW i \in DOMAIN tree
      PROVE  /\ WithStatus(d, st)[i] \in Item
             /\ WithStatus(d, st)[i].id = tree[i].id
             /\ WithStatus(d, st)[i].detect = tree[i].detect
             /\ WithStatus(d, st)[i].status = IF tree[i].detect = d THEN st
                                              ELSE tree[i].status
  <2>1. tree[i] \in Item
    BY <1>1
  <2>2. WithStatus(d, st)[i] = IF tree[i].detect = d THEN [tree[i] EXCEPT !.status = st]
                               ELSE tree[i]
    BY DEF WithStatus
  <2>3. QED
    BY <2>1, <2>2 DEF Item
<1>3. DOMAIN WithStatus(d, st) = DOMAIN tree
  BY DEF WithStatus
<1>4. WithStatus(d, st) = [i \in 1..Len(tree) |-> WithStatus(d, st)[i]]
  BY <1>1 DEF WithStatus
<1>5. WithStatus(d, st) \in Seq(Item)
  BY <1>1, <1>2, <1>4
<1>6. QED
  BY <1>2, <1>3, <1>5

LEMMA SendEndsType ==
  ASSUME TypeInv, NEW r \in sends, SendAnswered(r) \/ SendFailed(r)
  PROVE  TypeInv'
<1> USE DEF server, screen
<1> DEFINE t == WithStatus(r.detect, "failed")
<1>1. /\ UNCHANGED <<posted, deleted, socket, gen, next, screen, queues, own, loads,
                     details, pages, deletes>>
      /\ faults' \in 0..MaxFaults /\ sends' = sends \ {r}
      /\ tree' = tree \/ tree' = t
  <2>1. faults \in 0..MaxFaults /\ MaxFaults \in Nat
    BY Bounds DEF TypeInv, TypeOK
  <2>2. QED
    BY <2>1 DEF SendAnswered, SendFailed
<1>2. /\ t \in Seq(Item) /\ DOMAIN t = DOMAIN tree /\ (tree = << >> => t = << >>)
      /\ \A i \in DOMAIN tree : t[i].id = tree[i].id
  <2>1. /\ t \in Seq(Item) /\ DOMAIN t = DOMAIN tree
        /\ \A i \in DOMAIN tree : t[i].id = tree[i].id
    BY WithStatusItems DEF TypeInv
  <2>2. tree = << >> => t = << >>
    BY <2>1
  <2>3. QED
    BY <2>1, <2>2
<1> HIDE DEF t
<1>3. tree \in Seq(Item) /\ \A i \in DOMAIN tree : tree[i].id <= posted
  BY DEF TypeInv, TypeOK, MadeInv, Fits, Now
<1>4. /\ tree' \in Seq(Item) /\ (gen' = 0 => tree' = << >>)
      /\ \A i \in DOMAIN tree' : tree'[i].id <= posted
  BY <1>1, <1>2, <1>3 DEF TypeInv, TypeOK
<1>5. TypeOK'
  BY <1>1, <1>4 DEF TypeInv, TypeOK
<1>6. CountInv'
  BY <1>1, CountKept DEF TypeInv
<1>7. Fits(Now)'
  BY <1>1, <1>4, <1>5 DEF Fits, Now, TypeInv, TypeOK, MadeInv
<1>8. MadeInv'
  BY <1>1, <1>7, ClientMade DEF MadeInv
<1>9. QED
  BY <1>5, <1>6, <1>8 DEF TypeInv

LEMMA DeleteCommentType ==
  ASSUME TypeInv, NEW i \in DOMAIN tree, DeleteComment(i)
  PROVE  TypeInv'
<1> USE DEF server, comments, screen
<1> DEFINE r == [id |-> tree[i].id, gen |-> gen, answer |-> "waiting"]
<1>1. /\ UNCHANGED <<server, comments, screen, queues, own, loads, details, pages, sends>>
      /\ tree[i].id # 0 /\ deletes' = deletes \cup {r}
  BY DEF DeleteComment
<1>2. tree[i].id \in Id /\ tree[i].id <= posted
  <2>1. tree \in Seq(Item)
    BY DEF TypeInv, TypeOK
  <2>2. tree[i] \in Item
    BY <2>1
  <2>3. QED
    BY <2>2 DEF Item, TypeInv, MadeInv, Fits, Now
<1>3. r \in Deletion
  BY <1>2 DEF Deletion, TypeInv, TypeOK
<1>4. TypeOK'
  <2> HIDE DEF r
  <2>1. QED
    BY <1>1, <1>3 DEF TypeInv, TypeOK
<1>5. CountInv'
  BY <1>1, CountKept DEF TypeInv
<1>6. \A x \in deletes' : DeletionMade(x)'
  <2> SUFFICES ASSUME NEW x \in deletes' PROVE DeletionMade(x)'
    OBVIOUS
  <2>1. CASE x \in deletes
    BY <1>1, <2>1, ClientMade
  <2>2. CASE x = r
    BY <1>1, <1>2, <2>2 DEF DeletionMade
  <2>3. QED
    BY <1>1, <2>1, <2>2
<1>7. MadeInv'
  BY <1>1, <1>6, ClientMade DEF MadeInv
<1>8. QED
  BY <1>4, <1>5, <1>7 DEF TypeInv

LEMMA DeletionEndsType ==
  ASSUME TypeInv, NEW r \in deletes, DeleteAnswered(r) \/ DeleteFailed(r)
  PROVE  TypeInv'
<1> USE DEF server, comments, screen
<1> DEFINE t == Without(tree, r.id)
<1>1. /\ UNCHANGED <<posted, deleted, socket, gen, next, screen, queues, own, loads,
                     details, pages, sends>>
      /\ faults' \in 0..MaxFaults /\ deletes' = deletes \ {r}
      /\ tree' = tree \/ tree' = t
  <2>1. faults \in 0..MaxFaults /\ MaxFaults \in Nat
    BY Bounds DEF TypeInv, TypeOK
  <2>2. QED
    BY <2>1 DEF DeleteAnswered, DeleteFailed
<1>2. tree \in Seq(Item) /\ \A i \in DOMAIN tree : tree[i].id <= posted
  BY DEF TypeInv, TypeOK, MadeInv, Fits, Now
<1>3. Leaves(t, tree, r.id)
  BY <1>2, WithoutLeaves
<1> HIDE DEF t
<1>4. t \in Seq(Item) /\ (tree = << >> => t = << >>) /\ \A i \in DOMAIN t : t[i].id <= posted
  <2>1. PICK g \in [DOMAIN t -> DOMAIN tree] : \A i \in DOMAIN t : t[i] = tree[g[i]]
    BY <1>3 DEF Leaves
  <2>2. t \in Seq(Item)
    BY <1>3 DEF Leaves
  <2>3. ASSUME tree = << >> PROVE t = << >>
    <3>1. DOMAIN t = {}
      BY <2>1, <2>3
    <3>2. QED
      BY <2>2, <3>1
  <2>4. QED
    BY <1>2, <2>1, <2>2, <2>3
<1>5. /\ tree' \in Seq(Item) /\ (gen' = 0 => tree' = << >>)
      /\ \A i \in DOMAIN tree' : tree'[i].id <= posted
  BY <1>1, <1>2, <1>4 DEF TypeInv, TypeOK
<1>6. TypeOK'
  BY <1>1, <1>5 DEF TypeInv, TypeOK
<1>7. CountInv'
  BY <1>1, CountKept DEF TypeInv
<1>8. Fits(Now)'
  BY <1>1, <1>5, <1>6 DEF Fits, Now, TypeInv, TypeOK, MadeInv
<1>9. MadeInv'
  BY <1>1, <1>8, ClientMade DEF MadeInv
<1>10. QED
  BY <1>6, <1>7, <1>9 DEF TypeInv

LEMMA TypeInductive == TypeInv /\ [Next]_vars => TypeInv'
<1> SUFFICES ASSUME TypeInv, [Next]_vars PROVE TypeInv'
  OBVIOUS
<1>1. CASE UNCHANGED vars
  <2> USE <1>1 DEF vars, server, comments, screen, requests
  <2>1. TypeOK'
    BY DEF TypeInv, TypeOK
  <2>2. CountInv'
    BY CountKept DEF TypeInv
  <2>3. MadeInv'
    BY ClientMade DEF MadeInv
  <2>4. QED
    BY <2>1, <2>2, <2>3 DEF TypeInv
<1>2. CASE Server
  BY <1>2, PostType, DeleteElsewhereType, ServeLoadType, ServeDetailType, ServePageType,
     ServeSendType, ServeDeleteType DEF Server
<1>3. CASE Client
  BY <1>3, HandleSocketType, NextProcessType, DetailType, OpenType, LeaveType,
     CommentsLoadedType, LoadFailedType, PostAnsweredType, GetMoreSubCommentsType,
     PageAnsweredType, PageFailedType, HandleSendCommentType, SendEndsType,
     DeleteCommentType, DeletionEndsType DEF Client
<1>4. QED
  BY <1>1, <1>2, <1>3 DEF Next

LEMMA TypesHold == Spec => []TypeInv
<1>1. QED
  BY InitTypeInv, TypeInductive, PTL DEF Spec

\* The state keeps its type, whatever the pages, replies and bounds.  It says
\* that no handler touches replies while no comment is on the assignment, and
\* that no load hangs a comment for a screen that was not opened
\* (FacebookMain.tsx, SocialUtils.tsx).
THEOREM TypeCorrect == Spec => []TypeOK
<1>1. TypeInv => TypeOK
  BY DEF TypeInv
<1>2. QED
  BY <1>1, TypesHold, PTL

-----------------------------------------------------------------------------
(* A reply shown as being sent is on its way.                              *)

SendingIn(s, d) ==
  \E i \in DOMAIN s.tree : s.tree[i].detect = d /\ s.tree[i].status = "sending"

\* A handler makes no reply a reply that is being sent, and what it is told of
\* is no longer one.
LEMMA ProcessedSending ==
  ASSUME TypeInv, NEW s, Fits(s), NEW l \in Listeners, NEW e \in Events,
         NEW d \in 1..MaxOwn, SendingIn(Processed(l, e, s), d)
  PROVE  SendingIn(s, d) /\ e.detect # d
<1>1. e \in Event /\ Tells(e) /\ d \in Nat /\ d # 0
  BY EventTypes, Bounds DEF TypeInv, MadeInv, EventsMade
<1>2. /\ s \in [tree : Seq(Item), details : SUBSET Detail]
      /\ s = [tree |-> s.tree, details |-> s.details]
      /\ s.tree \in Seq(Item) /\ \A i \in DOMAIN s.tree : s.tree[i] \in Item
  BY DEF Fits
<1>3. CASE gen = 0
  BY <1>3 DEF Processed, Fits, SendingIn
<1>4. GetCommentFB(l, e.id, s).tree = s.tree
  BY <1>2 DEF GetCommentFB
<1>5. CASE gen # 0 /\ e.type = "sub"
  BY <1>1, <1>4, <1>5 DEF Processed, Tells, SendingIn
<1>6. CASE gen # 0 /\ e.type = "delete"
  <2>1. Processed(l, e, s) = UpdateComment(e, s) /\ e.detect # d
    BY <1>1, <1>6 DEF Processed, Tells
  <2>2. Leaves(UpdateComment(e, s).tree, s.tree, e.id)
    BY <1>2, UpdateCommentLeaves
  <2>3. QED
    BY <2>1, <2>2 DEF Leaves, SendingIn
<1>7. CASE gen # 0 /\ e.type = "reply"
  <2> DEFINE mine == Indices(s.tree, e.detect)
             u == ReplyCommentTopic(l, e, s)
  <2>1. Processed(l, e, s) = u
    BY <1>7 DEF Processed
  <2>2. CASE mine = {}
    <3>1. u.tree = s.tree
      BY <1>4, <2>2 DEF ReplyCommentTopic
    <3>2. PICK i \in DOMAIN s.tree : s.tree[i].detect = d /\ s.tree[i].status = "sending"
      BY <2>1, <3>1 DEF SendingIn
    <3>3. e.detect # d
      BY <1>1, <2>2, <3>2 DEF Indices
    <3>4. QED
      BY <3>2, <3>3 DEF SendingIn
  <2>3. CASE mine # {}
    <3> DEFINE t == [i \in DOMAIN s.tree |-> IF i \in mine THEN Settled(s.tree[i], e)
                                             ELSE s.tree[i]]
    <3>1. u = [s EXCEPT !.tree = t]
      BY <2>3 DEF ReplyCommentTopic
    <3>2. u.tree = t
      BY <1>2, <3>1
    <3>3. PICK i \in DOMAIN t : t[i].detect = d /\ t[i].status = "sending"
      BY <2>1, <3>2 DEF SendingIn
    <3>4. s.tree[i] \in Item
      BY <1>2
    <3>5. i \notin mine
      <4>1. SUFFICES ASSUME i \in mine PROVE FALSE
        OBVIOUS
      <4>2. t[i].status = e.status
        BY <3>4, <4>1 DEF Settled, Item
      <4>3. QED
        BY <1>1, <3>3, <4>2 DEF Event
    <3>6. t[i] = s.tree[i] /\ i \in DOMAIN s.tree
      BY <3>5
    <3>7. e.detect # d
      BY <1>1, <3>3, <3>5, <3>6 DEF Indices
    <3>8. QED
      BY <3>3, <3>6, <3>7 DEF SendingIn
  <2>4. QED
    BY <2>2, <2>3
<1>8. e.type \in {"sub", "reply", "delete"}
  BY <1>1 DEF Event, Types
<1>9. QED
  BY <1>3, <1>5, <1>6, <1>7, <1>8

\* What an action has to show that does not touch what is awaited.
LEMMA AwaitedKept ==
  ASSUME AwaitedInv, \A d \in 1..MaxOwn : Sending(d)' => Sending(d),
         \A r \in sends : r.answer # "done" => r \in sends',
         socket \subseteq socket',
         Range(queues[List]["reply"]) \subseteq Range(queues'[List]["reply"])
  PROVE  AwaitedInv'
BY DEF AwaitedInv, Awaited, About

LEMMA InitAwaited == Init => AwaitedInv
BY DEF Init, AwaitedInv, Sending

\* Replies that were not sent from here are not shown as being sent.
LEMMA SendingAdded ==
  ASSUME TypeOK, NEW t \in Seq(Item),
         \A i \in DOMAIN t : t[i].status # "sending",
         tree' = t \/ tree' = t \o tree \/ tree' = tree \o t,
         NEW d, Sending(d)'
  PROVE  Sending(d)
<1>1. tree \in Seq(Item)
  BY DEF TypeOK
<1>2. PICK i \in DOMAIN tree' : tree'[i].detect = d /\ tree'[i].status = "sending"
  BY DEF Sending
<1>3. CASE tree' = t
  BY <1>2, <1>3
<1>4. CASE tree' = t \o tree
  BY <1>1, <1>2, <1>4, ConcatProperties DEF Sending
<1>5. CASE tree' = tree \o t
  BY <1>1, <1>2, <1>5, ConcatProperties DEF Sending
<1>6. QED
  BY <1>3, <1>4, <1>5

LEMMA ServerAwaited ==
  ASSUME TypeInv, AwaitedInv, Server
  PROVE  AwaitedInv'
<1>1. ASSUME NEW r \in sends, ServeSend(r)
      PROVE  AwaitedInv'
  <2>1. UNCHANGED <<tree, queues>> /\ socket \subseteq socket'
    BY <1>1 DEF ServeSend, comments
  <2>2. \A d : Sending(d)' => Sending(d)
    BY <2>1 DEF Sending
  <2>3. r \in Sent
    BY DEF TypeInv, TypeOK
  <2>4. \/ About(r.detect, socket)'
        \/ \E q \in sends' : q.detect = r.detect /\ q.answer # "done"
    <3>1. CASE \E e : e.detect = r.detect /\ e \in socket'
      BY <3>1 DEF About
    <3>2. CASE sends' = (sends \ {r}) \cup {[r EXCEPT !.answer = "refused"]}
      <4>1. [r EXCEPT !.answer = "refused"] \in sends'
        BY <3>2
      <4>2. /\ [r EXCEPT !.answer = "refused"].detect = r.detect
            /\ [r EXCEPT !.answer = "refused"].answer = "refused"
        BY <2>3 DEF Sent
      <4>3. QED
        BY <4>1, <4>2
    <3>3. QED
      BY <1>1, <3>1, <3>2 DEF ServeSend, ReplyEvent
  <2>5. \A q \in sends : q = r \/ q \in sends'
    BY <1>1 DEF ServeSend
  <2>6. ASSUME NEW d \in 1..MaxOwn, Sending(d)'
        PROVE  Awaited(d)'
    <3>1. Awaited(d)
      BY <2>2, <2>6 DEF AwaitedInv
    <3>2. CASE d = r.detect
      BY <2>4, <3>2 DEF Awaited
    <3>3. CASE d # r.detect
      BY <2>1, <2>5, <3>1, <3>3 DEF Awaited, About
    <3>4. QED
      BY <3>2, <3>3
  <2>7. QED
    BY <2>6 DEF AwaitedInv
<1>2. CASE \/ Post \/ \E id \in 1..MaxComments : DeleteElsewhere(id)
           \/ \E r \in loads : ServeLoad(r)
           \/ \E r \in details : ServeDetail(r)
           \/ \E r \in pages : ServePage(r)
           \/ \E r \in deletes : ServeDelete(r)
  <2>1. UNCHANGED <<tree, queues, sends>> /\ socket \subseteq socket'
    BY <1>2 DEF Post, DeleteElsewhere, ServeLoad, ServeDetail, ServePage, ServeDelete,
                server, comments, requests
  <2>2. \A d : Sending(d)' => Sending(d)
    BY <2>1 DEF Sending
  <2>3. QED
    BY <2>1, <2>2, AwaitedKept
<1>3. QED
  BY <1>1, <1>2 DEF Server

LEMMA HandleSocketAwaited ==
  ASSUME TypeInv, AwaitedInv, NEW e \in socket, HandleSocket(e)
  PROVE  AwaitedInv'
<1>1. PICK s, u :
        /\ \/ s = Processed(List, e, Now)
           \/ s = Now /\ e \in Range(queues'[List][e.type])
        /\ u = s \/ (opened \in Listeners /\ u = Processed(opened, e, s))
        /\ Becomes(u)
  BY HandleSocketSteps
<1>2. /\ \A t \in Types : Range(queues[List][t]) \subseteq Range(queues'[List][t])
      /\ socket' = socket \ {e} /\ UNCHANGED sends
  BY HandleSocketSteps DEF HandleSocket
<1>3. Fits(Now) /\ e \in Events /\ e \in Event /\ Tells(e)
  BY EventIn DEF TypeInv, TypeOK, MadeInv, EventsMade
<1>4. Fits(s)
  BY <1>1, <1>3, ProcessedFits, Bounds
<1>5. ASSUME NEW d \in 1..MaxOwn, Sending(d)'
      PROVE  /\ Sending(d)
             /\ e.detect # d \/ e \in Range(queues'[List]["reply"])
  <2>1. SendingIn(u, d)
    BY <1>1, <1>5 DEF Becomes, Sending, SendingIn
  <2>2. SendingIn(s, d)
    BY <1>1, <1>3, <1>4, <2>1, ProcessedSending
  <2>3. CASE s = Processed(List, e, Now)
    <3>1. SendingIn(Now, d) /\ e.detect # d
      BY <1>3, <2>2, <2>3, ProcessedSending, Bounds
    <3>2. QED
      BY <3>1 DEF SendingIn, Now, Sending
  <2>4. CASE s = Now /\ e \in Range(queues'[List][e.type])
    <3>1. Sending(d)
      BY <2>2, <2>4 DEF SendingIn, Now, Sending
    <3>2. e.detect = d => e.type = "reply"
      BY <1>3 DEF Tells
    <3>3. QED
      BY <2>4, <3>1, <3>2
  <2>5. QED
    BY <1>1, <2>3, <2>4
<1>6. ASSUME NEW d \in 1..MaxOwn, Sending(d)'
      PROVE  Awaited(d)'
  <2>1. Awaited(d)
    BY <1>5, <1>6 DEF AwaitedInv
  <2>2. CASE \E r \in sends : r.detect = d /\ r.answer # "done"
    BY <1>2, <2>2 DEF Awaited
  <2>3. CASE About(d, socket)
    BY <1>2, <1>5, <1>6, <2>3 DEF Awaited, About
  <2>4. CASE About(d, Range(queues[List]["reply"]))
    BY <1>2, <2>4 DEF Awaited, About, Types
  <2>5. QED
    BY <2>1, <2>2, <2>3, <2>4 DEF Awaited
<1>7. QED
  BY <1>6 DEF AwaitedInv

LEMMA NextProcessAwaited ==
  ASSUME TypeInv, AwaitedInv, NEW l \in Listeners, NEW t \in Types, NextProcess(l, t)
  PROVE  AwaitedInv'
<1>1. PICK e : e = Head(queues[l][t])
  OBVIOUS
<1>2. /\ e \in Events /\ Becomes(Processed(l, e, Now))
      /\ \A x \in Range(queues[l][t]) : x = e \/ x \in Range(queues'[l][t])
      /\ \A m \in Listeners, v \in Types : m # l \/ v # t => queues'[m][v] = queues[m][v]
  BY <1>1, NextProcessSteps
<1>3. UNCHANGED <<socket, sends>> /\ Fits(Now) /\ "reply" \in Types
  BY DEF NextProcess, server, TypeInv, MadeInv, Types
<1>4. ASSUME NEW d \in 1..MaxOwn, Sending(d)'
      PROVE  Sending(d) /\ e.detect # d
  <2>1. SendingIn(Processed(l, e, Now), d)
    BY <1>2, <1>4 DEF Becomes, Sending, SendingIn
  <2>2. SendingIn(Now, d) /\ e.detect # d
    BY <1>2, <1>3, <2>1, ProcessedSending
  <2>3. QED
    BY <2>2 DEF SendingIn, Now, Sending
<1>5. \A x \in Range(queues[List]["reply"]) : x = e \/ x \in Range(queues'[List]["reply"])
  <2>1. CASE l = List /\ t = "reply"
    BY <1>2, <2>1
  <2>2. CASE l # List \/ t # "reply"
    BY <1>2, <1>3, <2>2, Bounds
  <2>3. QED
    BY <2>1, <2>2
<1>6. ASSUME NEW d \in 1..MaxOwn, Sending(d)'
      PROVE  Awaited(d)'
  <2>1. Awaited(d)
    BY <1>4, <1>6 DEF AwaitedInv
  <2>2. QED
    BY <1>3, <1>4, <1>5, <1>6, <2>1 DEF Awaited, About
<1>7. QED
  BY <1>6 DEF AwaitedInv

LEMMA ScreenAwaited ==
  ASSUME TypeInv, AwaitedInv,
         \/ \E r \in details : DetailAnswered(r) \/ DetailFailed(r)
         \/ Open \/ Leave
         \/ \E r \in loads : CommentsLoaded(r) \/ LoadFailed(r)
         \/ InitData \/ PostFailed \/ GetMoreSubComments
         \/ \E r \in pages : PageAnswered(r) \/ PageFailed(r)
         \/ \E i \in DOMAIN tree : DeleteComment(i)
         \/ \E r \in deletes : DeleteAnswered(r) \/ DeleteFailed(r)
  PROVE  AwaitedInv'
<1> USE DEF server, comments, screen, requests
<1>1. UNCHANGED <<socket, sends>>
  BY DEF DetailAnswered, DetailFailed, Open, Leave, CommentsLoaded, LoadFailed, InitData,
         PostFailed, GetMoreSubComments, PageAnswered, PageFailed, DeleteComment,
         DeleteAnswered, DeleteFailed
<1>2. Range(queues[List]["reply"]) \subseteq Range(queues'[List]["reply"])
  <2>1. CASE UNCHANGED queues
    BY <2>1
  <2>2. CASE Leave
    <3>1. /\ queues \in [Listeners -> [Types -> Seq(Event)]] /\ List \in Listeners
          /\ opened # List
      BY <2>2, Bounds DEF Leave, TypeInv, TypeOK, CountInv, List
    <3>2. queues'[List] = queues[List]
      BY <2>2, <3>1 DEF Leave
    <3>3. QED
      BY <3>2
  <2>3. QED
    BY <2>1, <2>2
    DEF DetailAnswered, DetailFailed, Open, CommentsLoaded, LoadFailed, InitData,
        PostFailed, GetMoreSubComments, PageAnswered, PageFailed, DeleteComment,
        DeleteAnswered, DeleteFailed
<1>3. tree \in Seq(Item) /\ posted \in Nat
  BY Bounds DEF TypeInv, TypeOK
<1>4. ASSUME NEW d \in 1..MaxOwn, Sending(d)'
      PROVE  Sending(d)
  <2>1. CASE UNCHANGED tree
    BY <1>4, <2>1 DEF Sending
  <2>2. ASSUME NEW r \in details, tree' = <<ItemOf(r.id)>> \o tree
        PROVE  Sending(d)
    <3>1. <<ItemOf(r.id)>> \in Seq(Item) /\ ItemOf(r.id).status # "sending"
      BY Bounds DEF TypeInv, TypeOK, Detail, ItemOf, Item
    <3> HIDE DEF ItemOf
    <3>2. \A i \in DOMAIN <<ItemOf(r.id)>> : <<ItemOf(r.id)>>[i].status # "sending"
      BY <3>1
    <3>3. QED
      BY <1>4, <2>2, <3>1, <3>2, SendingAdded DEF TypeInv
  <2>3. ASSUME NEW p \in Page, NEW from \in Nat, from <= posted + 1, OfPage(p, from),
               tree' = Items(p.data) \/ tree' = tree \o Items(p.data)
        PROVE  Sending(d)
    <3>1. Items(p.data) \in Seq(Item)
      BY <1>3, <2>3, PageItems
    <3>2. \A i \in DOMAIN Items(p.data) : Items(p.data)[i].status # "sending"
      BY DEF Items, ItemOf
    <3> HIDE DEF Items
    <3>3. QED
      BY <1>4, <2>3, <3>1, <3>2, SendingAdded DEF TypeInv
  <2>4. ASSUME NEW r \in deletes, tree' = Without(tree, r.id)
        PROVE  Sending(d)
    <3>1. Leaves(tree', tree, r.id)
      BY <1>3, <2>4, WithoutLeaves
    <3>2. QED
      BY <1>4, <3>1 DEF Leaves, Sending
  <2>5. ASSUME NEW r \in loads, CommentsLoaded(r)
        PROVE  Sending(d)
    <3>1. r.answer \in Page /\ OfPage(r.answer, posted + 1) /\ tree' = Items(r.answer.data)
      BY <2>5 DEF CommentsLoaded, TypeInv, TypeOK, Load, MadeInv, LoadMade
    <3>2. QED
      BY <1>3, <2>3, <3>1
  <2>6. ASSUME NEW r \in pages, PageAnswered(r)
        PROVE  Sending(d)
    <3>1. /\ r.answer \in Page /\ r.from \in Nat /\ r.from <= posted
          /\ OfPage(r.answer, r.from)
      BY Bounds DEF TypeInv, TypeOK, More, MadeInv, PageMade
    <3>2. tree' = tree \/ tree' = tree \o Items(r.answer.data)
      BY <2>6 DEF PageAnswered
    <3>3. r.from <= posted + 1
      BY <1>3, <3>1
    <3>4. QED
      BY <2>1, <2>3, <3>1, <3>2, <3>3
  <2>7. QED
    BY <2>1, <2>2, <2>4, <2>5, <2>6
    DEF DetailAnswered, DetailFailed, Open, Leave, LoadFailed, InitData,
        PostFailed, GetMoreSubComments, PageFailed, DeleteComment,
        DeleteAnswered, DeleteFailed
<1>5. QED
  BY <1>1, <1>2, <1>4, AwaitedKept

LEMMA AgentAwaited ==
  ASSUME TypeInv, AwaitedInv,
         HandleSendComment \/ \E r \in sends : SendAnswered(r) \/ SendFailed(r)
  PROVE  AwaitedInv'
<1>1. tree \in Seq(Item) /\ own \in Nat
  BY Bounds DEF TypeInv, TypeOK
<1>2. UNCHANGED <<socket, queues>>
  BY DEF HandleSendComment, SendAnswered, SendFailed, server
<1>3. CASE HandleSendComment
  <2> DEFINE item == [id |-> 0, detect |-> own + 1, status |-> "sending"]
             r == [detect |-> own + 1, answer |-> "waiting"]
  <2>1. tree' = <<item>> \o tree /\ sends' = sends \cup {r} /\ own < MaxOwn
    BY <1>3 DEF HandleSendComment
  <2>2. ASSUME NEW d \in 1..MaxOwn, Sending(d)'
        PROVE  Awaited(d)'
    <3>1. CASE d = own + 1
      <4>1. r \in sends' /\ r.detect = d /\ r.answer # "done"
        BY <2>1, <3>1
      <4>2. QED
        BY <4>1 DEF Awaited
    <3>2. CASE d # own + 1
      <4>1. <<item>> \in Seq(Item)
        BY <1>1, <2>1, Bounds DEF Item, Detect
      <4>2. item.detect # d
        BY <3>2
      <4> HIDE DEF item, r
      <4>3. PICK i \in DOMAIN tree' : tree'[i].detect = d /\ tree'[i].status = "sending"
        BY <2>2 DEF Sending
      <4>4. Sending(d)
        BY <1>1, <2>1, <4>1, <4>2, <4>3, ConcatProperties DEF Sending
      <4>5. QED
        BY <1>2, <2>1, <4>4 DEF AwaitedInv, Awaited
    <3>3. QED
      BY <3>1, <3>2
  <2>3. QED
    BY <2>2 DEF AwaitedInv
<1>4. ASSUME NEW r \in sends, SendAnswered(r) \/ SendFailed(r)
      PROVE  AwaitedInv'
  <2> DEFINE t == WithStatus(r.detect, "failed")
  <2>1. sends' = sends \ {r} /\ (tree' = t \/ (tree' = tree /\ r.answer = "done"))
    BY <1>4 DEF SendAnswered, SendFailed
  <2>2. /\ DOMAIN t = DOMAIN tree
        /\ \A i \in DOMAIN tree :
             /\ t[i].detect = tree[i].detect
             /\ t[i].status = IF tree[i].detect = r.detect THEN "failed" ELSE tree[i].status
    BY WithStatusItems DEF TypeInv
  <2> HIDE DEF t
  <2>3. ASSUME NEW d \in 1..MaxOwn, Sending(d)'
        PROVE  Sending(d) /\ (r.detect # d \/ r.answer = "done")
    BY <2>1, <2>2, <2>3 DEF Sending
  <2>4. QED
    BY <1>2, <2>1, <2>3 DEF AwaitedInv, Awaited
<1>5. QED
  BY <1>3, <1>4

\* A reply of the agent that is shown as being sent is on its way to the server,
\* or its event is on its way or waits for the list, whatever the header of a
\* screen that was left does with its queues (FacebookMain.tsx 466-539,
\* SocialUtils.tsx 779-848).
THEOREM SendingIsUnderWay == Spec => []OwnIsUnderWay
<1>1. TypeInv /\ AwaitedInv /\ [Next]_vars => AwaitedInv'
  <2> SUFFICES ASSUME TypeInv, AwaitedInv, [Next]_vars PROVE AwaitedInv'
    OBVIOUS
  <2>1. CASE UNCHANGED vars
    BY <2>1 DEF vars, server, comments, requests, AwaitedInv, Awaited, Sending
  <2>2. CASE Server
    BY <2>2, ServerAwaited
  <2>3. CASE Client
    BY <2>3, HandleSocketAwaited, NextProcessAwaited, ScreenAwaited, AgentAwaited DEF Client
  <2>4. QED
    BY <2>1, <2>2, <2>3 DEF Next
<1>2. AwaitedInv => OwnIsUnderWay
  BY DEF AwaitedInv, Awaited, OwnIsUnderWay
<1>3. QED
  BY InitAwaited, TypesHold, <1>1, <1>2, PTL DEF Spec

-----------------------------------------------------------------------------
(* What the handlers do to the replies.                                    *)

\* A reply with a detect id is one that was there, and has the number it had
\* unless an event tells of it.
FromThere(t, s) ==
  \A i \in DOMAIN t : t[i].detect # 0 =>
    \E j \in DOMAIN s :
      /\ t[i].detect = s[j].detect
      /\ t[i].id = s[j].id \/ \E e \in Events : e.detect = t[i].detect

KnownIn(s, id) ==
  \/ id \in Ids(s.tree)
  \/ \E r \in s.details : r.id = id /\ r.gen = gen /\ r.answer # "gone"

\* From s to u no reply is repeated, and none vanishes that was not deleted.
Keeps(s, u) ==
  /\ FromThere(u.tree, s.tree)
  /\ ~Repeats(s.tree) => ~Repeats(u.tree)
  /\ \A id \in 1..MaxComments : KnownIn(s, id) => KnownIn(u, id) \/ id \in deleted

LEMMA KeepsAll == ASSUME NEW s PROVE Keeps(s, s)
BY DEF Keeps, FromThere

LEMMA KeepsTwice ==
  ASSUME NEW s, NEW u, NEW v, Keeps(s, u), Keeps(u, v)
  PROVE  Keeps(s, v)
<1>1. FromThere(v.tree, s.tree)
  <2> SUFFICES ASSUME NEW i \in DOMAIN v.tree, v.tree[i].detect # 0
               PROVE  \E j \in DOMAIN s.tree :
                        /\ v.tree[i].detect = s.tree[j].detect
                        /\ v.tree[i].id = s.tree[j].id
                             \/ \E e \in Events : e.detect = v.tree[i].detect
    BY DEF FromThere
  <2>1. PICK k \in DOMAIN u.tree :
          /\ v.tree[i].detect = u.tree[k].detect
          /\ v.tree[i].id = u.tree[k].id \/ \E e \in Events : e.detect = v.tree[i].detect
    BY DEF Keeps, FromThere
  <2>2. PICK j \in DOMAIN s.tree :
          /\ u.tree[k].detect = s.tree[j].detect
          /\ u.tree[k].id = s.tree[j].id \/ \E e \in Events : e.detect = u.tree[k].detect
    BY <2>1 DEF Keeps, FromThere
  <2>3. QED
    BY <2>1, <2>2
<1>2. QED
  BY <1>1 DEF Keeps

\* Without the reply that was deleted nothing else is gone.
LEMMA LeavesKeeps ==
  ASSUME NEW s \in [tree : Seq(Item), details : SUBSET Detail],
         NEW t, NEW id, Leaves(t, s.tree, id), id \in deleted
  PROVE  /\ Keeps(s, [tree |-> t, details |-> s.details])
         /\ Apart(s) => Apart([tree |-> t, details |-> s.details])
<1> DEFINE u == [tree |-> t, details |-> s.details]
           there == s.tree
<1>1. PICK g \in [DOMAIN t -> DOMAIN there] :
        /\ \A i, j \in DOMAIN t : g[i] = g[j] => i = j
        /\ \A i \in DOMAIN t : t[i] = there[g[i]]
  BY DEF Leaves
<1>2. \A k \in DOMAIN there : there[k].id # id => \E i \in DOMAIN t : t[i] = there[k]
  BY DEF Leaves
<1>3. u.tree = t /\ u.details = s.details
  OBVIOUS
<1> HIDE DEF u
<1>4. FromThere(t, there)
  BY <1>1 DEF FromThere
<1>5. ~Repeats(there) => ~Repeats(t)
  BY <1>1 DEF Repeats
<1>6. ASSUME NEW n \in 1..MaxComments, KnownIn(s, n), n \notin deleted
      PROVE  KnownIn(u, n)
  <2>1. CASE n \in Ids(there)
    <3>1. PICK k \in DOMAIN there : there[k].id = n /\ n # 0 /\ n # id
      BY <1>6, <2>1 DEF Ids
    <3>2. PICK i \in DOMAIN t : t[i] = there[k]
      BY <1>2, <3>1
    <3>3. n \in Ids(t)
      BY <3>1, <3>2 DEF Ids
    <3>4. QED
      BY <1>3, <3>3 DEF KnownIn
  <2>2. CASE n \notin Ids(there)
    BY <1>3, <1>6, <2>2 DEF KnownIn
  <2>3. QED
    BY <2>1, <2>2
<1>7. Keeps(s, u)
  BY <1>3, <1>4, <1>5, <1>6 DEF Keeps
<1>8. ASSUME Apart(s)
      PROVE  Apart(u)
  <2>1. \A i, j \in DOMAIN t : t[i].detect = t[j].detect /\ t[i].detect # 0 => i = j
    BY <1>1, <1>8 DEF Apart
  <2>2. ASSUME NEW e \in Events, NEW i \in DOMAIN t, Mine(e, i, u)
        PROVE  /\ t[i].id \in {0, e.id}
               /\ \A j \in DOMAIN t : j # i => t[j].id # e.id
               /\ \A r \in s.details : r.gen = gen => r.id # e.id
    <3>1. Mine(e, g[i], s) /\ g[i] \in DOMAIN there
      BY <1>1, <1>3, <2>2 DEF Mine
    <3>2. /\ there[g[i]].id \in {0, e.id}
          /\ \A j \in DOMAIN there : j # g[i] => there[j].id # e.id
          /\ \A r \in s.details : r.gen = gen => r.id # e.id
      BY <1>8, <3>1 DEF Apart
    <3>3. QED
      BY <1>1, <3>2
  <2>3. QED
    BY <1>3, <2>1, <2>2 DEF Apart
<1>9. QED
  BY <1>7, <1>8 DEF u

\* A further reply to fetch: it is no reply of this device that is shown.
LEMMA GetCommentFBPlace ==
  ASSUME TypeInv, NEW s, Fits(s), NEW l \in Listeners, NEW e \in Events,
         \A f, h \in Events : SameReply(f, h), Apart(s),
         e.type # "delete", e.id # 0, Indices(s.tree, e.detect) = {}
  PROVE  LET u == GetCommentFB(l, e.id, s) IN Keeps(s, u) /\ Apart(u)
<1> DEFINE u == GetCommentFB(l, e.id, s)
           r == [listener |-> l, id |-> e.id, gen |-> gen, answer |-> "waiting"]
<1>1. /\ s \in [tree : Seq(Item), details : SUBSET Detail]
      /\ s = [tree |-> s.tree, details |-> s.details]
  BY DEF Fits
<1>2. u.tree = s.tree /\ s.details \subseteq u.details /\ u.details \subseteq s.details \cup {r}
  BY <1>1 DEF GetCommentFB
<1>3. r.id = e.id
  OBVIOUS
<1> HIDE DEF u, r
<1>4. Keeps(s, u)
  BY <1>2 DEF Keeps, FromThere, KnownIn
<1>5. Apart(u)
  <2>1. ASSUME NEW f \in Events, NEW i \in DOMAIN s.tree, Mine(f, i, s)
        PROVE  f.id # e.id
    <3>1. f.type # "delete"
      BY <2>1 DEF Mine, TypeInv, MadeInv, EventsMade, Tells
    <3>2. e.detect # f.detect
      BY <2>1 DEF Indices, Mine
    <3>3. QED
      BY <2>1, <3>1, <3>2 DEF SameReply, Mine
  <2>2. QED
    BY <1>2, <1>3, <2>1 DEF Apart, Mine
<1>6. QED
  BY <1>4, <1>5 DEF u

\* The event of a reply of this device gives it its number.
LEMMA ReplyCommentTopicPlace ==
  ASSUME TypeInv, NEW s, Fits(s), NEW l \in Listeners, NEW e \in Events,
         \A f, h \in Events : SameReply(f, h), Apart(s),
         e.type = "reply"
  PROVE  LET u == ReplyCommentTopic(l, e, s) IN Keeps(s, u) /\ Apart(u)
<1> DEFINE u == ReplyCommentTopic(l, e, s)
           mine == Indices(s.tree, e.detect)
           t == [i \in DOMAIN s.tree |-> IF i \in mine THEN Settled(s.tree[i], e)
                                         ELSE s.tree[i]]
<1>1. /\ s \in [tree : Seq(Item), details : SUBSET Detail]
      /\ s = [tree |-> s.tree, details |-> s.details]
      /\ s.tree \in Seq(Item) /\ \A i \in DOMAIN s.tree : s.tree[i] \in Item
  BY DEF Fits
<1>2. CASE mine = {} /\ e.id # 0
  BY <1>2, GetCommentFBPlace DEF ReplyCommentTopic
<1>3. CASE mine = {} /\ e.id = 0
  BY <1>3, KeepsAll DEF ReplyCommentTopic
<1>4. CASE mine # {}
  <2>1. u = [s EXCEPT !.tree = t]
    BY <1>4 DEF ReplyCommentTopic
  <2>2. u.tree = t /\ u.details = s.details
    BY <1>1, <2>1
  <2>3. PICK m \in mine : TRUE
    BY <1>4
  <2>4. /\ m \in DOMAIN s.tree /\ s.tree[m].detect = e.detect /\ e.detect # 0
        /\ \A i \in DOMAIN s.tree : i \in mine <=> i = m
    BY <2>3 DEF Indices, Apart
  <2>5. /\ DOMAIN t = DOMAIN s.tree
        /\ \A i \in DOMAIN s.tree :
             /\ t[i].detect = s.tree[i].detect
             /\ t[i].id = IF i = m /\ e.id # 0 THEN e.id ELSE s.tree[i].id
    <3>1. DOMAIN t = DOMAIN s.tree
      OBVIOUS
    <3>2. ASSUME NEW i \in DOMAIN s.tree
          PROVE  /\ t[i].detect = s.tree[i].detect
                 /\ t[i].id = IF i = m /\ e.id # 0 THEN e.id ELSE s.tree[i].id
      <4>1. CASE i \in mine
        BY <1>1, <2>4, <4>1 DEF Settled, Item
      <4>2. CASE i \notin mine
        BY <2>4, <4>2
      <4>3. QED
        BY <4>1, <4>2
    <3>3. QED
      BY <3>1, <3>2
  <2> HIDE DEF t, u, mine
  <2>6. e.id # 0 => /\ s.tree[m].id \in {0, e.id}
                    /\ \A j \in DOMAIN s.tree : j # m => s.tree[j].id # e.id
    BY <2>4 DEF Apart, Mine
  <2>7. FromThere(t, s.tree)
    BY <2>4, <2>5 DEF FromThere
  <2>8. ~Repeats(s.tree) => ~Repeats(t)
    BY <2>5, <2>6 DEF Repeats
  <2>9. Ids(s.tree) \subseteq Ids(t)
    BY <2>5, <2>6 DEF Ids
  <2>10. Keeps(s, u)
    BY <2>2, <2>7, <2>8, <2>9 DEF Keeps, KnownIn
  <2>11. ASSUME NEW f \in Events, NEW i \in DOMAIN t, Mine(f, i, u)
         PROVE  /\ t[i].id \in {0, f.id}
                /\ \A j \in DOMAIN t : j # i => t[j].id # f.id
                /\ \A r \in s.details : r.gen = gen => r.id # f.id
    <3>1. Mine(f, i, s) /\ i \in DOMAIN s.tree
      BY <2>2, <2>5, <2>11 DEF Mine
    <3>2. /\ s.tree[i].id \in {0, f.id}
          /\ \A j \in DOMAIN s.tree : j # i => s.tree[j].id # f.id
          /\ \A r \in s.details : r.gen = gen => r.id # f.id
      BY <3>1 DEF Apart
    <3>3. e.id # 0 => (e.id = f.id <=> i = m)
      <4>1. f.type # "delete" /\ f.id # 0 /\ f.detect # 0 /\ s.tree[i].detect = f.detect
        BY <3>1 DEF Mine, TypeInv, MadeInv, EventsMade, Tells
      <4>2. SameReply(e, f)
        OBVIOUS
      <4>3. e.detect = f.detect <=> i = m
        BY <2>4, <3>1, <4>1 DEF Apart
      <4>4. QED
        BY <2>4, <4>1, <4>2, <4>3 DEF SameReply
    <3>4. QED
      BY <2>5, <3>1, <3>2, <3>3
  <2>12. Apart(u)
    BY <2>2, <2>5, <2>11 DEF Apart
  <2>13. QED
    BY <2>10, <2>12 DEF u
<1>5. QED
  BY <1>2, <1>3, <1>4

LEMMA ProcessedPlace ==
  ASSUME TypeInv, NEW s, Fits(s), NEW l \in Listeners, NEW e \in Events,
         \A f, h \in Events : SameReply(f, h), Apart(s)
  PROVE  Keeps(s, Processed(l, e, s)) /\ Apart(Processed(l, e, s))
<1>1. e \in Event /\ Tells(e) /\ e.type \in {"sub", "reply", "delete"}
  BY EventTypes DEF TypeInv, MadeInv, EventsMade, Event, Types
<1>2. /\ s \in [tree : Seq(Item), details : SUBSET Detail]
      /\ s = [tree |-> s.tree, details |-> s.details]
  BY DEF Fits
<1>3. CASE gen = 0
  BY <1>3, KeepsAll DEF Processed
<1>4. CASE gen # 0 /\ e.type = "sub"
  <2>1. e.id # 0 /\ e.detect = 0 /\ Indices(s.tree, e.detect) = {}
    BY <1>1, <1>4 DEF Tells, Indices
  <2>2. QED
    BY <1>4, <2>1, GetCommentFBPlace DEF Processed
<1>5. CASE gen # 0 /\ e.type = "reply"
  BY <1>5, ReplyCommentTopicPlace DEF Processed
<1>6. CASE gen # 0 /\ e.type = "delete"
  <2> DEFINE u == UpdateComment(e, s)
  <2>1. Processed(l, e, s) = u /\ e.id \in deleted
    BY <1>1, <1>6 DEF Processed, Tells
  <2>2. Leaves(u.tree, s.tree, e.id)
    BY <1>2, UpdateCommentLeaves
  <2>3. u = [tree |-> u.tree, details |-> s.details]
    BY <1>2 DEF UpdateComment
  <2> HIDE DEF u
  <2>4. QED
    BY <1>2, <2>1, <2>2, <2>3, LeavesKeeps
<1>7. QED
  BY <1>1, <1>3, <1>4, <1>5, <1>6

-----------------------------------------------------------------------------
(* No reply is repeated, and none vanishes.                                *)

OnceStep == ~Repeats(tree) /\ Repeats(tree') => pages' # pages
StayStep ==
  \A id \in 1..MaxComments :
    Known(id) /\ gen' = gen => Known(id)' \/ id \in deleted' \/ faults' # faults

LEMMA InitPlace == Init => PlaceInv
<1> SUFFICES ASSUME Init PROVE PlaceInv
  OBVIOUS
<1>1. Events = {}
  <2>1. \A t \in Types : NoQueues[t] = << >>
    BY DEF NoQueues
  <2>2. QED
    BY <2>1 DEF Events, Init, Range
<1>2. NumberInv
  BY <1>1 DEF Init, NumberInv
<1>3. Apart(Now) /\ Newer
  BY <1>1 DEF Init, Apart, Now, Newer
<1>4. QED
  BY <1>2, <1>3 DEF PlaceInv

\* What the actions have to show that bring no event and no reply of the agent.
LEMMA NumberKept ==
  ASSUME TypeOK, NumberInv, Events' \subseteq Events, own' = own, sends' \subseteq sends,
         FromThere(tree', tree)
  PROVE  NumberInv'
<1>1. own \in Nat
  BY Bounds DEF TypeOK
<1>2. /\ \A e, f \in Events' : SameReply(e, f)
      /\ \A e \in Events' : e.detect <= own'
      /\ \A r \in sends' : r.detect # 0 /\ r.detect <= own'
      /\ \A r, q \in sends' : r.detect = q.detect => r = q
  BY DEF NumberInv
<1>3. \A i \in DOMAIN tree' : tree'[i].detect <= own'
  BY <1>1 DEF NumberInv, FromThere
<1>4. ASSUME NEW r \in sends', r.answer = "waiting"
      PROVE  /\ \A e \in Events' : e.detect # r.detect
             /\ \A i \in DOMAIN tree' : tree'[i].detect = r.detect => tree'[i].id = 0
  <2>1. /\ r.detect # 0 /\ \A e \in Events : e.detect # r.detect
        /\ \A i \in DOMAIN tree : tree[i].detect = r.detect => tree[i].id = 0
    BY <1>4 DEF NumberInv
  <2>2. QED
    BY <2>1 DEF FromThere
<1>5. QED
  BY <1>2, <1>3, <1>4 DEF NumberInv, SameReply

LEMMA NewerKept ==
  ASSUME Newer, Events' \subseteq Events, UNCHANGED <<gen, next>>,
         FromThere(tree', tree),
         \A r \in pages' : \E q \in pages : q.gen = r.gen /\ q.from = r.from
  PROVE  Newer'
<1> SUFFICES ASSUME NEW e \in Events', NEW i \in DOMAIN tree',
                    e.id # 0, e.detect # 0, tree'[i].detect = e.detect
             PROVE  next' < e.id /\ \A r \in pages' : r.gen = gen' => r.from < e.id
  BY DEF Newer, Mine, Now
<1>1. PICK j \in DOMAIN tree : tree[j].detect = e.detect
  BY DEF FromThere
<1>2. next < e.id /\ \A r \in pages : r.gen = gen => r.from < e.id
  BY <1>1 DEF Newer, Mine, Now
<1>3. QED
  BY <1>2

\* Nothing happens to the replies; some that were being fetched no longer are.
LEMMA PlaceKept ==
  ASSUME TypeOK, PlaceInv, Events' \subseteq Events, UNCHANGED <<gen, tree, next, own>>,
         sends' \subseteq sends,
         \A r \in details' : \E q \in details : q.gen = r.gen /\ q.id = r.id,
         \A r \in pages' : \E q \in pages : q.gen = r.gen /\ q.from = r.from
  PROVE  PlaceInv' /\ OnceStep
<1>1. FromThere(tree', tree)
  BY DEF FromThere
<1>2. NumberInv'
  BY <1>1, NumberKept DEF PlaceInv
<1>3. Newer'
  BY <1>1, NewerKept DEF PlaceInv
<1>4. Apart(Now)'
  BY DEF PlaceInv, Apart, Mine, Now
<1>5. QED
  BY <1>2, <1>3, <1>4 DEF PlaceInv, OnceStep, Repeats

\* A new event is no event of a reply of this device, or has a new number for
\* one that waits for it.
LEMMA PlaceAnnounced ==
  ASSUME TypeInv, PlaceInv, NEW e \in Event, socket' \subseteq socket \cup {e},
         UNCHANGED <<queues, gen, tree, next, details, pages, own>>,
         (e.type = "delete" /\ e.detect = 0) \/ e.id = 0 \/ e.id > posted,
         \/ e.detect = 0 /\ sends' = sends
         \/ \E r \in sends : \E q :
                                /\ r.answer = "waiting" /\ r.detect = e.detect
                                /\ q.detect = r.detect /\ q.answer # "waiting"
                                /\ sends' = (sends \ {r}) \cup {q}
  PROVE  PlaceInv' /\ OnceStep
<1>1. /\ posted \in Nat /\ own \in Nat /\ e.id \in Nat /\ next \in Nat
      /\ Events' \subseteq Events \cup {e} /\ Events \subseteq Event
  BY EventsAdded, EventTypes, Bounds DEF TypeInv, TypeOK, Event
<1>2. /\ \A f \in Events : f.id <= posted /\ f.id \in Nat
      /\ \A i \in DOMAIN tree : tree[i].id <= posted /\ tree[i].id \in Nat
      /\ \A r \in details : r.id <= posted /\ r.id \in Nat
      /\ \A r \in pages : r.from <= posted /\ r.from \in Nat
  <2>1. \A f \in Events : f.id <= posted /\ f.id \in Nat
    BY <1>1, Bounds DEF TypeInv, MadeInv, EventsMade, Tells, Event
  <2>2. \A i \in DOMAIN tree : tree[i].id <= posted /\ tree[i].id \in Nat
    <3>1. tree \in Seq(Item)
      BY DEF TypeInv, TypeOK
    <3>2. \A i \in DOMAIN tree : tree[i] \in Item
      BY <3>1
    <3>3. QED
      BY <3>2, Bounds DEF TypeInv, MadeInv, Fits, Now, Item
  <2>3. \A r \in details : r.id <= posted /\ r.id \in Nat
    BY Bounds DEF TypeInv, TypeOK, MadeInv, Fits, Now, Detail
  <2>4. \A r \in pages : r.from <= posted /\ r.from \in Nat
    BY Bounds DEF TypeInv, TypeOK, MadeInv, PageMade, More
  <2>5. QED
    BY <2>1, <2>2, <2>3, <2>4
<1>3. /\ e.detect # 0 => \A f \in Events : f.detect # e.detect
      /\ e.detect <= own
      /\ e.detect # 0 => \A i \in DOMAIN tree : tree[i].detect = e.detect => tree[i].id = 0
  BY <1>1 DEF PlaceInv, NumberInv
<1>4. \A f \in Events : SameReply(e, f) /\ SameReply(f, e)
  BY <1>1, <1>2, <1>3 DEF SameReply
<1>5. \A r \in sends' : r.answer = "waiting" => r \in sends /\ r.detect # e.detect
  BY DEF PlaceInv, NumberInv
<1>6. /\ \A r \in sends' : r.detect # 0 /\ r.detect <= own
      /\ \A r, q \in sends' : r.detect = q.detect => r = q
  BY DEF PlaceInv, NumberInv
<1>7. NumberInv'
  <2>1. \A f, h \in Events' : SameReply(f, h)
    BY <1>1, <1>4 DEF PlaceInv, NumberInv, SameReply
  <2>2. \A f \in Events' : f.detect <= own
    BY <1>1, <1>3 DEF PlaceInv, NumberInv
  <2>3. \A r \in sends' : r.answer = "waiting" =>
          /\ \A f \in Events' : f.detect # r.detect
          /\ \A i \in DOMAIN tree : tree[i].detect = r.detect => tree[i].id = 0
    BY <1>1, <1>5 DEF PlaceInv, NumberInv
  <2>4. QED
    BY <1>6, <2>1, <2>2, <2>3 DEF PlaceInv, NumberInv, SameReply
<1>8. ASSUME NEW i \in DOMAIN tree, e.id # 0, e.detect # 0, tree[i].detect = e.detect
      PROVE  /\ tree[i].id = 0 /\ next < e.id
             /\ \A j \in DOMAIN tree : tree[j].id # e.id
             /\ \A r \in details : r.id # e.id
             /\ \A r \in pages : r.from < e.id
  <2>1. e.id > posted
    BY <1>8
  <2>2. next <= posted
    BY DEF TypeInv, MadeInv
  <2>3. QED
    BY <1>1, <1>2, <1>3, <1>8, <2>1, <2>2
<1>9. Apart(Now)'
  <2>1. \A f \in Events', i \in DOMAIN tree :
          f.id # 0 /\ f.detect # 0 /\ tree[i].detect = f.detect =>
            /\ tree[i].id \in {0, f.id}
            /\ \A j \in DOMAIN tree : j # i => tree[j].id # f.id
            /\ \A r \in details : r.gen = gen => r.id # f.id
    BY <1>1, <1>8 DEF PlaceInv, Apart, Mine, Now
  <2>2. QED
    BY <2>1 DEF PlaceInv, Apart, Mine, Now
<1>10. Newer'
  <2>1. \A f \in Events', i \in DOMAIN tree :
          f.id # 0 /\ f.detect # 0 /\ tree[i].detect = f.detect =>
            next < f.id /\ \A r \in pages : r.gen = gen => r.from < f.id
    BY <1>1, <1>8 DEF PlaceInv, Newer, Mine, Now
  <2>2. QED
    BY <2>1 DEF Newer, Mine, Now
<1>11. QED
  BY <1>7, <1>9, <1>10 DEF PlaceInv, OnceStep

LEMMA ServerPlace ==
  ASSUME TypeInv, PlaceInv, Server
  PROVE  PlaceInv' /\ OnceStep /\ StayStep
<1> USE DEF server, comments, screen
<1>1. /\ posted \in Nat /\ posted \in Id
  BY Bounds DEF TypeInv, TypeOK
<1>2. ASSUME UNCHANGED <<tree, details, gen>>
      PROVE  StayStep
  BY <1>2 DEF StayStep, Known
<1>3. CASE Post
  <2>1. PICK e \in {SubEvent(posted + 1), ReplyEvent(posted + 1, 0, "delivered")} :
          socket' = socket \cup {e}
    BY <1>3 DEF Post
  <2>2. e \in Event /\ e.id > posted /\ e.detect = 0
    BY <1>1, <1>3, <2>1, Bounds DEF Post, SubEvent, ReplyEvent, Event, Types, Id
  <2>3. UNCHANGED <<queues, gen, tree, next, details, pages, own, sends>>
    BY <1>3 DEF Post, requests
  <2>4. PlaceInv' /\ OnceStep
    BY <2>1, <2>2, <2>3, PlaceAnnounced
  <2>5. QED
    BY <1>2, <2>3, <2>4
<1>4. ASSUME NEW id \in 1..MaxComments, DeleteElsewhere(id)
      PROVE  PlaceInv' /\ OnceStep /\ StayStep
  <2>1. /\ DeleteEvent(id) \in Event /\ DeleteEvent(id).detect = 0
        /\ DeleteEvent(id).type = "delete"
    BY Bounds DEF DeleteEvent, Event, Types, Id
  <2>2. socket' = socket \cup {DeleteEvent(id)}
    BY <1>4 DEF DeleteElsewhere
  <2>3. UNCHANGED <<queues, gen, tree, next, details, pages, own, sends>>
    BY <1>4 DEF DeleteElsewhere, requests
  <2> HIDE DEF DeleteEvent
  <2>4. PlaceInv' /\ OnceStep
    BY <2>1, <2>2, <2>3, PlaceAnnounced
  <2>5. QED
    BY <1>2, <2>3, <2>4
<1>5. ASSUME NEW r \in deletes, ServeDelete(r)
      PROVE  PlaceInv' /\ OnceStep /\ StayStep
  <2>1. r.id \in Id
    BY DEF TypeInv, TypeOK, Deletion
  <2>2. /\ DeleteEvent(r.id) \in Event /\ DeleteEvent(r.id).detect = 0
        /\ DeleteEvent(r.id).type = "delete"
    BY <2>1, Bounds DEF DeleteEvent, Event, Types
  <2>3. socket' = socket \cup {DeleteEvent(r.id)}
    BY <1>5 DEF ServeDelete
  <2>4. UNCHANGED <<queues, gen, tree, next, details, pages, own, sends>>
    BY <1>5 DEF ServeDelete
  <2> HIDE DEF DeleteEvent
  <2>5. PlaceInv' /\ OnceStep
    BY <2>2, <2>3, <2>4, PlaceAnnounced
  <2>6. QED
    BY <1>2, <2>4, <2>5
<1>6. ASSUME NEW r \in sends, ServeSend(r)
      PROVE  PlaceInv' /\ OnceStep /\ StayStep
  <2>1. UNCHANGED <<queues, gen, tree, next, details, pages, own>> /\ r.answer = "waiting"
    BY <1>6 DEF ServeSend
  <2>2. r \in Sent /\ r.detect \in Detect
    BY DEF TypeInv, TypeOK, Sent
  <2>3. PICK e, q :
          /\ e \in Event /\ e.detect = r.detect /\ (e.id = 0 \/ e.id > posted)
          /\ socket' \subseteq socket \cup {e}
          /\ q.detect = r.detect /\ q.answer # "waiting"
          /\ sends' = (sends \ {r}) \cup {q}
    <3> DEFINE done == [r EXCEPT !.answer = "done"]
               refused == [r EXCEPT !.answer = "refused"]
               given == ReplyEvent(posted + 1, r.detect, "delivered")
               failed == ReplyEvent(0, r.detect, "failed")
    <3>1. /\ done.detect = r.detect /\ done.answer # "waiting"
          /\ refused.detect = r.detect /\ refused.answer # "waiting"
      BY <2>2 DEF Sent
    <3>2. failed \in Event /\ failed.detect = r.detect /\ failed.id = 0
      BY <2>2, Bounds DEF ReplyEvent, Event, Types
    <3>3. posted < MaxComments =>
            given \in Event /\ given.detect = r.detect /\ given.id > posted
      BY <1>1, <2>2, Bounds DEF ReplyEvent, Event, Types, Id
    <3>4. \/ posted < MaxComments /\ socket' = socket \cup {given}
             /\ sends' = (sends \ {r}) \cup {done}
          \/ socket' = socket \cup {failed} /\ sends' = (sends \ {r}) \cup {done}
          \/ socket' = socket /\ sends' = (sends \ {r}) \cup {refused}
      BY <1>6 DEF ServeSend
    <3> HIDE DEF done, refused, given, failed
    <3>5. QED
      BY <3>1, <3>2, <3>3, <3>4
  <2>4. PlaceInv' /\ OnceStep
    BY <2>1, <2>3, PlaceAnnounced
  <2>5. QED
    BY <1>2, <2>1, <2>4
<1>7. ASSUME NEW r \in details, ServeDetail(r)
      PROVE  PlaceInv' /\ OnceStep /\ StayStep
  <2> DEFINE q == [r EXCEPT !.answer = IF r.id \in deleted THEN "gone" ELSE "found"]
  <2>1. /\ UNCHANGED <<server, gen, tree, next, own, sends, pages, queues>>
        /\ details' = (details \ {r}) \cup {q}
    BY <1>7 DEF ServeDetail
  <2>2. /\ r \in Detail /\ q.id = r.id /\ q.gen = r.gen
        /\ q.answer = "gone" => r.id \in deleted
    BY DEF TypeInv, TypeOK, Detail
  <2> HIDE DEF q
  <2>3. Events' \subseteq Events
    BY <2>1, EventsSame
  <2>4. PlaceInv' /\ OnceStep
    BY <2>1, <2>2, <2>3, PlaceKept DEF TypeInv
  <2>5. StayStep
    BY <2>1, <2>2 DEF StayStep, Known
  <2>6. QED
    BY <2>4, <2>5
<1>8. ASSUME NEW r \in loads, ServeLoad(r)
      PROVE  PlaceInv' /\ OnceStep /\ StayStep
  <2>1. UNCHANGED <<server, gen, tree, next, own, sends, pages, details, queues>>
    BY <1>8 DEF ServeLoad
  <2>2. Events' \subseteq Events
    BY <2>1, EventsSame
  <2>3. PlaceInv' /\ OnceStep
    BY <2>1, <2>2, PlaceKept DEF TypeInv
  <2>4. QED
    BY <1>2, <2>1, <2>3
<1>9. ASSUME NEW r \in pages, ServePage(r)
      PROVE  PlaceInv' /\ OnceStep /\ StayStep
  <2> DEFINE q == [r EXCEPT !.served = TRUE, !.answer = PageBefore(r.from)]
  <2>1. /\ UNCHANGED <<server, gen, tree, next, own, sends, details, queues>>
        /\ pages' = (pages \ {r}) \cup {q}
    BY <1>9 DEF ServePage
  <2>2. r \in More /\ q.gen = r.gen /\ q.from = r.from
    BY DEF TypeInv, TypeOK, More
  <2> HIDE DEF q
  <2>3. Events' \subseteq Events
    BY <2>1, EventsSame
  <2>4. PlaceInv' /\ OnceStep
    BY <2>1, <2>2, <2>3, PlaceKept DEF TypeInv
  <2>5. QED
    BY <1>2, <2>1, <2>4
<1>10. QED
  BY <1>3, <1>4, <1>5, <1>6, <1>7, <1>8, <1>9 DEF Server

\* A handler keeps the replies apart, and then so does a handler after it.
LEMMA BecomesPlace ==
  ASSUME TypeInv, PlaceInv, NEW u, u \in [tree : Seq(Item), details : SUBSET Detail],
         Keeps(Now, u), Apart(u), Becomes(u),
         Events' \subseteq Events, UNCHANGED <<deleted, gen, next, pages, own, sends>>
  PROVE  PlaceInv' /\ OnceStep /\ StayStep
<1>1. /\ tree' = u.tree /\ details' = u.details
      /\ u = [tree |-> u.tree, details |-> u.details]
  BY DEF Becomes
<1>2. FromThere(tree', tree)
  BY <1>1 DEF Keeps, Now
<1>3. NumberInv'
  BY <1>2, NumberKept DEF PlaceInv, TypeInv
<1>4. Newer'
  BY <1>2, NewerKept DEF PlaceInv
<1>5. Apart(Now)'
  <2>1. Now' = u
    BY <1>1 DEF Now
  <2>2. QED
    BY <2>1 DEF Apart, Mine
<1>6. OnceStep
  BY <1>1 DEF OnceStep, Keeps, Now
<1>7. StayStep
  BY <1>1 DEF StayStep, Keeps, Known, KnownIn, Now
<1>8. QED
  BY <1>3, <1>4, <1>5, <1>6, <1>7 DEF PlaceInv

LEMMA SocketPlace ==
  ASSUME TypeInv, PlaceInv,
         \/ \E e \in socket : HandleSocket(e)
         \/ \E l \in Listeners, t \in Types : NextProcess(l, t)
  PROVE  PlaceInv' /\ OnceStep /\ StayStep
<1>1. Fits(Now) /\ Apart(Now) /\ (\A f, h \in Events : SameReply(f, h))
  BY DEF TypeInv, MadeInv, PlaceInv, NumberInv
<1>2. ASSUME NEW e \in socket, HandleSocket(e)
      PROVE  PlaceInv' /\ OnceStep /\ StayStep
  <2>1. PICK s, u :
          /\ s = Processed(List, e, Now) \/ s = Now
          /\ u = s \/ (opened \in Listeners /\ u = Processed(opened, e, s))
          /\ Becomes(u)
    BY <1>2, HandleSocketSteps
  <2>2. Events' \subseteq Events /\ e \in Events
    BY <1>2, HandleSocketSteps, EventIn
  <2>3. Fits(s) /\ Keeps(Now, s) /\ Apart(s)
    BY <1>1, <2>1, <2>2, ProcessedFits, ProcessedPlace, KeepsAll, Bounds
  <2>4. Fits(u) /\ Keeps(s, u) /\ Apart(u)
    BY <1>1, <2>1, <2>2, <2>3, ProcessedFits, ProcessedPlace, KeepsAll
  <2>5. Keeps(Now, u)
    BY <2>3, <2>4, KeepsTwice
  <2>6. UNCHANGED <<deleted, gen, next, pages, own, sends>>
    BY <1>2 DEF HandleSocket
  <2>7. u \in [tree : Seq(Item), details : SUBSET Detail]
    BY <2>4 DEF Fits
  <2>8. QED
    BY <2>1, <2>2, <2>4, <2>5, <2>6, <2>7, BecomesPlace
<1>3. ASSUME NEW l \in Listeners, NEW t \in Types, NextProcess(l, t)
      PROVE  PlaceInv' /\ OnceStep /\ StayStep
  <2>1. PICK e : e = Head(queues[l][t])
    OBVIOUS
  <2>2. e \in Events /\ Becomes(Processed(l, e, Now)) /\ Events' \subseteq Events
    BY <1>3, <2>1, NextProcessSteps
  <2>3. PICK u : u = Processed(l, e, Now)
    OBVIOUS
  <2>4. Fits(u) /\ Keeps(Now, u) /\ Apart(u)
    BY <1>1, <2>2, <2>3, ProcessedFits, ProcessedPlace
  <2>5. UNCHANGED <<deleted, gen, next, pages, own, sends>>
    BY <1>3 DEF NextProcess, server
  <2>6. u \in [tree : Seq(Item), details : SUBSET Detail]
    BY <2>4 DEF Fits
  <2>7. QED
    BY <2>2, <2>3, <2>4, <2>5, <2>6, BecomesPlace
<1>4. QED
  BY <1>2, <1>3

\* Replies that have no detect id come before or behind those that are there.
LEMMA AddedThere ==
  ASSUME TypeOK, NEW t \in Seq(Item), \A i \in DOMAIN t : t[i].detect = 0,
         tree' = t \o tree \/ tree' = tree \o t
  PROVE  /\ FromThere(tree', tree)
         /\ \A i \in DOMAIN tree' :
              \/ \E k \in DOMAIN t : tree'[i] = t[k]
              \/ \E k \in DOMAIN tree : tree'[i] = tree[k]
         /\ \A i \in DOMAIN tree : \E k \in DOMAIN tree' : tree'[k] = tree[i]
         /\ \A i, j \in DOMAIN tree' :
              tree'[i].detect = tree'[j].detect /\ tree'[i].detect # 0 =>
                \E k, m \in DOMAIN tree :
                  /\ tree'[i] = tree[k] /\ tree'[j] = tree[m] /\ (k = m => i = j)
<1>1. tree \in Seq(Item)
  BY DEF TypeOK
<1>2. /\ DOMAIN tree = 1..Len(tree) /\ Len(tree) \in Nat
      /\ DOMAIN t = 1..Len(t) /\ Len(t) \in Nat
  BY <1>1
<1>3. CASE tree' = t \o tree
  <2>1. /\ DOMAIN tree' = 1..(Len(t) + Len(tree))
        /\ \A i \in DOMAIN tree' : tree'[i] = IF i <= Len(t) THEN t[i] ELSE tree[i - Len(t)]
    BY <1>1, <1>2, <1>3, ConcatProperties
  <2>2. \A i \in DOMAIN tree' :
          \/ \E k \in DOMAIN t : tree'[i] = t[k]
          \/ \E k \in DOMAIN tree : k = i - Len(t) /\ tree'[i] = tree[k]
    BY <1>2, <2>1
  <2>3. ASSUME NEW i \in DOMAIN tree
        PROVE  \E k \in DOMAIN tree' : tree'[k] = tree[i]
    <3>1. i + Len(t) \in DOMAIN tree' /\ tree'[i + Len(t)] = tree[i]
      BY <1>2, <2>1
    <3>2. QED
      BY <3>1
  <2>4. ASSUME NEW i \in DOMAIN tree', NEW j \in DOMAIN tree',
               tree'[i].detect = tree'[j].detect, tree'[i].detect # 0
        PROVE  \E k, m \in DOMAIN tree :
                 /\ tree'[i] = tree[k] /\ tree'[j] = tree[m] /\ (k = m => i = j)
    <3>1. i - Len(t) \in DOMAIN tree /\ tree'[i] = tree[i - Len(t)]
      BY <1>2, <2>1, <2>4
    <3>2. j - Len(t) \in DOMAIN tree /\ tree'[j] = tree[j - Len(t)]
      BY <1>2, <2>1, <2>4
    <3>3. i - Len(t) = j - Len(t) => i = j
      BY <1>2, <2>1
    <3>4. QED
      BY <3>1, <3>2, <3>3
  <2>5. FromThere(tree', tree)
    BY <2>2 DEF FromThere
  <2>6. QED
    BY <2>2, <2>3, <2>4, <2>5
<1>4. CASE tree' = tree \o t
  <2>1. /\ DOMAIN tree' = 1..(Len(tree) + Len(t))
        /\ \A i \in DOMAIN tree' :
             tree'[i] = IF i <= Len(tree) THEN tree[i] ELSE t[i - Len(tree)]
    BY <1>1, <1>2, <1>4, ConcatProperties
  <2>2. \A i \in DOMAIN tree' :
          \/ \E k \in DOMAIN t : tree'[i] = t[k]
          \/ \E k \in DOMAIN tree : k = i /\ tree'[i] = tree[k]
    BY <1>2, <2>1
  <2>3. ASSUME NEW i \in DOMAIN tree
        PROVE  \E k \in DOMAIN tree' : tree'[k] = tree[i]
    <3>1. i \in DOMAIN tree' /\ tree'[i] = tree[i]
      BY <1>2, <2>1
    <3>2. QED
      BY <3>1
  <2>4. ASSUME NEW i \in DOMAIN tree', NEW j \in DOMAIN tree',
               tree'[i].detect = tree'[j].detect, tree'[i].detect # 0
        PROVE  \E k, m \in DOMAIN tree :
                 /\ tree'[i] = tree[k] /\ tree'[j] = tree[m] /\ (k = m => i = j)
    BY <2>2, <2>4
  <2>5. FromThere(tree', tree)
    BY <2>2 DEF FromThere
  <2>6. QED
    BY <2>2, <2>3, <2>4, <2>5
<1>5. QED
  BY <1>3, <1>4

LEMMA DetailPlace ==
  ASSUME TypeInv, PlaceInv, NEW r \in details, DetailAnswered(r) \/ DetailFailed(r)
  PROVE  PlaceInv' /\ OnceStep /\ StayStep
<1> USE DEF server, screen, comments
<1>1. /\ UNCHANGED <<deleted, gen, next, pages, own, sends, queues, socket>>
      /\ details' = details \ {r}
  BY DEF DetailAnswered, DetailFailed
<1>2. Events' \subseteq Events
  BY <1>1, EventsSame
<1>3. CASE UNCHANGED tree
  <2>1. PlaceInv' /\ OnceStep
    BY <1>1, <1>2, <1>3, PlaceKept DEF TypeInv
  <2>2. /\ \A i \in DOMAIN tree : tree[i].id # 0 => tree[i].id \in Ids(tree)
        /\ r.id # 0
    BY DEF Ids, TypeInv, MadeInv, Fits, Now
  <2>3. faults' # faults \/ (DetailAnswered(r) /\ ~(r.gen = gen /\ r.answer = "found")
                            /\ r.answer # "waiting") \/ r.id \in Ids(tree)
    <3>1. CASE DetailFailed(r)
      <4>1. faults \in Nat /\ faults' = faults + 1
        BY <3>1, Bounds DEF DetailFailed, TypeInv, TypeOK
      <4>2. QED
        BY <4>1
    <3>2. CASE DetailAnswered(r) /\ r.gen = gen /\ r.answer = "found"
                 /\ r.id \notin Ids(tree)
      <4>1. tree' = <<ItemOf(r.id)>> \o tree
        BY <3>2 DEF DetailAnswered
      <4>2. tree \in Seq(Item) /\ ItemOf(r.id) \in Item
        BY Bounds DEF TypeInv, TypeOK, Detail, ItemOf, Item
      <4>3. Len(tree') = 1 + Len(tree) /\ Len(tree) \in Nat
        BY <4>1, <4>2, ConcatProperties
      <4>4. QED
        BY <1>3, <4>3
    <3>3. QED
      BY <3>1, <3>2 DEF DetailAnswered
  <2>4. r.answer \in {"waiting", "found", "gone"}
    BY DEF TypeInv, TypeOK, Detail
  <2>5. StayStep
    BY <1>1, <1>3, <2>3, <2>4 DEF StayStep, Known
  <2>6. QED
    BY <2>1, <2>5
<1>4. CASE /\ r.gen = gen /\ r.id \notin Ids(tree)
           /\ tree' = <<ItemOf(r.id)>> \o tree
  <2> DEFINE item == ItemOf(r.id)
  <2>1. item \in Item /\ item.id = r.id /\ item.detect = 0 /\ r.id # 0
    BY Bounds DEF TypeInv, TypeOK, Detail, ItemOf, Item, MadeInv, Fits, Now
  <2> HIDE DEF item
  <2>2. tree' = <<item>> \o tree /\ tree \in Seq(Item) /\ <<item>> \in Seq(Item)
    BY <1>4, <2>1 DEF TypeInv, TypeOK, item
  <2>3. DOMAIN <<item>> = {1} /\ <<item>>[1] = item
    OBVIOUS
  <2>4. \A i \in DOMAIN <<item>> : <<item>>[i].detect = 0
    BY <2>1, <2>3
  <2>5. /\ FromThere(tree', tree)
        /\ \A i \in DOMAIN tree' : tree'[i] = item \/ \E k \in DOMAIN tree : tree'[i] = tree[k]
        /\ \A i \in DOMAIN tree : \E k \in DOMAIN tree' : tree'[k] = tree[i]
        /\ \A i, j \in DOMAIN tree' :
             tree'[i].detect = tree'[j].detect /\ tree'[i].detect # 0 =>
               \E k, m \in DOMAIN tree :
                 /\ tree'[i] = tree[k] /\ tree'[j] = tree[m] /\ (k = m => i = j)
    <3>1. PICK t \in Seq(Item) : t = <<item>>
      BY <2>2
    <3>2. /\ \A i \in DOMAIN t : t[i].detect = 0
          /\ tree' = t \o tree
          /\ \A k \in DOMAIN t : t[k] = item
      BY <2>2, <2>3, <2>4, <3>1
    <3>3. /\ FromThere(tree', tree)
          /\ \A i \in DOMAIN tree' :
               \/ \E k \in DOMAIN t : tree'[i] = t[k]
               \/ \E k \in DOMAIN tree : tree'[i] = tree[k]
          /\ \A i \in DOMAIN tree : \E k \in DOMAIN tree' : tree'[k] = tree[i]
          /\ \A i, j \in DOMAIN tree' :
               tree'[i].detect = tree'[j].detect /\ tree'[i].detect # 0 =>
                 \E k, m \in DOMAIN tree :
                   /\ tree'[i] = tree[k] /\ tree'[j] = tree[m] /\ (k = m => i = j)
      BY <3>2, AddedThere DEF TypeInv
    <3>4. QED
      BY <3>2, <3>3
  <2>6. DOMAIN tree' = 1..(Len(tree) + 1) /\ Len(tree) \in Nat /\ DOMAIN tree = 1..Len(tree)
        /\ \A i \in DOMAIN tree' : tree'[i] = IF i = 1 THEN item ELSE tree[i - 1]
    <3>1. Len(<<item>>) = 1 /\ Len(tree) \in Nat /\ DOMAIN tree = 1..Len(tree)
      BY <2>2
    <3>2. /\ DOMAIN tree' = 1..(1 + Len(tree))
          /\ \A i \in 1..(1 + Len(tree)) :
               tree'[i] = IF i <= 1 THEN <<item>>[i] ELSE tree[i - 1]
      BY <2>2, <3>1, ConcatProperties
    <3>3. QED
      BY <2>3, <3>1, <3>2
  <2>7. NumberInv'
    BY <1>1, <1>2, <2>5, NumberKept DEF PlaceInv, TypeInv
  <2>8. Newer'
    BY <1>1, <1>2, <2>5, NewerKept DEF PlaceInv
  <2>9. OnceStep
    <3>1. SUFFICES ASSUME ~Repeats(tree) PROVE ~Repeats(tree')
      BY DEF OnceStep
    <3>2. \A i \in DOMAIN tree : tree[i].id # r.id
      BY <1>4, <2>1 DEF Ids
    <3>3. SUFFICES ASSUME NEW i \in DOMAIN tree', NEW j \in DOMAIN tree', i # j,
                          tree'[i].id # 0, tree'[i].id = tree'[j].id
                   PROVE  FALSE
      BY DEF Repeats
    <3>4. CASE i = 1
      <4>1. j - 1 \in DOMAIN tree /\ tree'[j] = tree[j - 1]
        BY <2>6, <3>3, <3>4
      <4>2. QED
        BY <2>1, <2>6, <3>2, <3>3, <3>4, <4>1
    <3>5. CASE j = 1
      <4>1. i - 1 \in DOMAIN tree /\ tree'[i] = tree[i - 1]
        BY <2>6, <3>3, <3>5
      <4>2. QED
        BY <2>1, <2>6, <3>2, <3>3, <3>5, <4>1
    <3>6. CASE i # 1 /\ j # 1
      <4>1. /\ i - 1 \in DOMAIN tree /\ tree'[i] = tree[i - 1]
            /\ j - 1 \in DOMAIN tree /\ tree'[j] = tree[j - 1] /\ i - 1 # j - 1
        BY <2>6, <3>3, <3>6
      <4>2. QED
        BY <3>1, <3>3, <4>1 DEF Repeats
    <3>7. QED
      BY <3>4, <3>5, <3>6
  <2>10. StayStep
    <3>1. Ids(tree) \subseteq Ids(tree') /\ r.id \in Ids(tree')
      <4>1. tree'[1] = item /\ 1 \in DOMAIN tree'
        BY <2>6
      <4>2. QED
        BY <2>1, <2>5, <4>1 DEF Ids
    <3>2. QED
      BY <1>1, <3>1 DEF StayStep, Known
  <2>11. Apart(Now)'
    <3>1. \A i, j \in DOMAIN tree' :
            tree'[i].detect = tree'[j].detect /\ tree'[i].detect # 0 => i = j
      BY <2>5 DEF PlaceInv, Apart, Now
    <3>2. ASSUME NEW e \in Events', NEW i \in DOMAIN tree',
                 e.id # 0, e.detect # 0, tree'[i].detect = e.detect
          PROVE  /\ tree'[i].id \in {0, e.id}
                 /\ \A j \in DOMAIN tree' : j # i => tree'[j].id # e.id
                 /\ \A q \in details' : q.gen = gen => q.id # e.id
      <4>1. i # 1 /\ i - 1 \in DOMAIN tree /\ tree'[i] = tree[i - 1]
        BY <2>1, <2>6, <3>2
      <4>2. /\ tree[i - 1].id \in {0, e.id}
            /\ \A j \in DOMAIN tree : j # i - 1 => tree[j].id # e.id
            /\ \A q \in details : q.gen = gen => q.id # e.id
        BY <1>2, <3>2, <4>1 DEF PlaceInv, Apart, Now, Mine
      <4>3. ASSUME NEW j \in DOMAIN tree', j # i
            PROVE  tree'[j].id # e.id
        <5>1. CASE j = 1
          BY <1>4, <2>1, <2>6, <4>2, <5>1
        <5>2. CASE j # 1
          <6>1. j - 1 \in DOMAIN tree /\ tree'[j] = tree[j - 1] /\ j - 1 # i - 1
            BY <2>6, <4>3, <5>2
          <6>2. QED
            BY <4>2, <6>1
        <5>3. QED
          BY <5>1, <5>2
      <4>4. QED
        BY <1>1, <4>1, <4>2, <4>3
    <3>3. QED
      BY <1>1, <3>1, <3>2 DEF Apart, Now, Mine
  <2>12. QED
    BY <2>7, <2>8, <2>9, <2>10, <2>11 DEF PlaceInv
<1>5. QED
  BY <1>3, <1>4 DEF DetailAnswered, DetailFailed

LEMMA CommentsLoadedPlace ==
  ASSUME TypeInv, PlaceInv, NEW r \in loads, CommentsLoaded(r)
  PROVE  PlaceInv' /\ OnceStep /\ StayStep
<1> USE DEF server
<1>1. /\ UNCHANGED <<socket, queues, own, sends>> /\ gen' = gen + 1
      /\ tree' = Items(r.answer.data)
  BY DEF CommentsLoaded
<1>2. /\ r.answer \in Page /\ OfPage(r.answer, posted + 1) /\ posted \in Nat /\ gen \in Nat
  BY Bounds DEF TypeInv, TypeOK, MadeInv, LoadMade, Load
<1>3. /\ DOMAIN tree' = DOMAIN r.answer.data
      /\ \A i \in DOMAIN tree' : tree'[i].id = r.answer.data[i] /\ tree'[i].detect = 0
  BY <1>1 DEF Items, ItemOf
<1>4. Events' \subseteq Events
  BY <1>1, EventsSame
<1>5. FromThere(tree', tree)
  BY <1>3 DEF FromThere
<1>6. NumberInv'
  BY <1>1, <1>4, <1>5, NumberKept DEF PlaceInv, TypeInv
<1>7. Newer' /\ Apart(Now)'
  BY <1>3 DEF Newer, Apart, Now, Mine
<1>8. ~Repeats(tree')
  BY <1>2, <1>3 DEF Repeats, OfPage
<1>9. gen' # gen
  BY <1>1, <1>2
<1>10. QED
  BY <1>6, <1>7, <1>8, <1>9 DEF PlaceInv, OnceStep, StayStep

LEMMA PageAnsweredPlace ==
  ASSUME TypeInv, PlaceInv, NEW r \in pages, PageAnswered(r)
  PROVE  PlaceInv' /\ OnceStep /\ StayStep
<1> USE DEF server
<1> DEFINE t == Items(r.answer.data)
<1>1. /\ UNCHANGED <<socket, queues, own, sends, gen, details, deleted>>
      /\ pages' = pages \ {r}
      /\ \/ UNCHANGED <<tree, next>>
         \/ r.gen = gen /\ tree' = tree \o t /\ next' = r.answer.next
  BY DEF PageAnswered
<1>2. Events' \subseteq Events
  BY <1>1, EventsSame
<1>3. OnceStep
  BY <1>1 DEF OnceStep
<1>4. CASE UNCHANGED <<tree, next>>
  <2>1. PlaceInv'
    BY <1>1, <1>2, <1>4, PlaceKept DEF TypeInv
  <2>2. StayStep
    BY <1>1, <1>4 DEF StayStep, Known
  <2>3. QED
    BY <1>3, <2>1, <2>2
<1>5. CASE r.gen = gen /\ tree' = tree \o t /\ next' = r.answer.next
  <2>1. /\ r.answer \in Page /\ OfPage(r.answer, r.from) /\ r.from \in Nat
        /\ r.from <= posted /\ r.from <= posted + 1 /\ posted \in Nat
        /\ r.answer.next \in Nat /\ r.answer.next < r.from
    <3>1. r \in More /\ PageMade(r) /\ posted \in Nat
      BY Bounds DEF TypeInv, TypeOK, MadeInv
    <3>2. r.answer \in Page /\ r.from \in Nat /\ r.answer.next \in Nat
      BY <3>1, Bounds DEF More, Page
    <3>3. QED
      BY <3>1, <3>2 DEF PageMade, OfPage
  <2>2. /\ t \in Seq(Item)
        /\ \A i \in DOMAIN t : t[i].detect = 0 /\ t[i].id < r.from /\ t[i].id \in Nat
    <3>1. /\ t \in Seq(Item) /\ DOMAIN t = DOMAIN r.answer.data
          /\ \A i \in DOMAIN t : t[i] = ItemOf(r.answer.data[i]) /\ t[i].id < r.from
      BY <2>1, PageItems
    <3>2. \A i \in DOMAIN t : t[i] \in Item
      BY <3>1
    <3>3. \A i \in DOMAIN t : t[i].id \in Nat
      BY <3>2, Bounds DEF Item
    <3> HIDE DEF t
    <3>4. ASSUME NEW i \in DOMAIN t
          PROVE  t[i].detect = 0
      <4>1. t[i] = ItemOf(r.answer.data[i])
        BY <3>1
      <4>2. QED
        BY <4>1 DEF ItemOf
    <3>5. QED
      BY <3>1, <3>3, <3>4
  <2> HIDE DEF t
  <2>3. /\ FromThere(tree', tree)
        /\ \A i \in DOMAIN tree' :
             \/ \E k \in DOMAIN t : tree'[i] = t[k]
             \/ \E k \in DOMAIN tree : tree'[i] = tree[k]
        /\ \A i \in DOMAIN tree : \E k \in DOMAIN tree' : tree'[k] = tree[i]
        /\ \A i, j \in DOMAIN tree' :
             tree'[i].detect = tree'[j].detect /\ tree'[i].detect # 0 =>
               \E k, m \in DOMAIN tree :
                 /\ tree'[i] = tree[k] /\ tree'[j] = tree[m] /\ (k = m => i = j)
    BY <1>5, <2>2, AddedThere DEF TypeInv
  <2>4. NumberInv'
    BY <1>1, <1>2, <2>3, NumberKept DEF PlaceInv, TypeInv
  <2>5. ASSUME NEW e \in Events', NEW i \in DOMAIN tree',
               e.id # 0, e.detect # 0, tree'[i].detect = e.detect
        PROVE  /\ r.from < e.id /\ e.id \in Nat
               /\ \A q \in pages : q.gen = gen => q.from < e.id
               /\ \A q \in details : q.gen = gen => q.id # e.id
               /\ tree'[i].id \in {0, e.id}
               /\ \E k \in DOMAIN tree : tree'[i] = tree[k] /\ Mine(e, k, Now)
    <3>1. PICK k \in DOMAIN tree : tree'[i] = tree[k]
      BY <2>2, <2>3, <2>5
    <3>2. Mine(e, k, Now) /\ e \in Events
      BY <1>2, <2>5, <3>1 DEF Mine, Now
    <3>3. e.id \in Nat
      BY <3>2, EventTypes, Bounds DEF TypeInv, Event
    <3>4. QED
      BY <1>5, <3>1, <3>2, <3>3 DEF PlaceInv, Newer, Apart, Now
  <2>6. Newer'
    <3> SUFFICES ASSUME NEW e \in Events', NEW i \in DOMAIN tree',
                        e.id # 0, e.detect # 0, tree'[i].detect = e.detect
                 PROVE  next' < e.id /\ \A q \in pages' : q.gen = gen' => q.from < e.id
      BY DEF Newer, Mine, Now
    <3>1. QED
      BY <1>1, <1>5, <2>1, <2>5
  <2>7. Apart(Now)'
    <3>1. \A i, j \in DOMAIN tree' :
            tree'[i].detect = tree'[j].detect /\ tree'[i].detect # 0 => i = j
      BY <2>3 DEF PlaceInv, Apart, Now
    <3>2. ASSUME NEW e \in Events', NEW i \in DOMAIN tree',
                 e.id # 0, e.detect # 0, tree'[i].detect = e.detect,
                 NEW j \in DOMAIN tree', j # i, tree'[j].id = e.id
          PROVE  FALSE
      <4>1. PICK k \in DOMAIN tree : tree'[i] = tree[k] /\ Mine(e, k, Now)
        BY <2>5, <3>2
      <4>2. CASE \E m \in DOMAIN t : tree'[j] = t[m]
        BY <2>1, <2>2, <2>5, <3>2, <4>2
      <4>3. ASSUME NEW m \in DOMAIN tree, tree'[j] = tree[m]
            PROVE  FALSE
        <5>1. m # k => tree[m].id # e.id
          BY <1>2, <3>2, <4>1 DEF PlaceInv, Apart, Now
        <5>2. m = k
          BY <3>2, <4>3, <5>1
        <5>3. tree'[j].detect = tree'[i].detect
          BY <4>1, <4>3, <5>2
        <5>4. QED
          BY <3>1, <3>2, <5>3
      <4>4. QED
        BY <2>3, <4>2, <4>3
    <3>3. QED
      BY <1>1, <2>5, <3>1, <3>2 DEF Apart, Now, Mine
  <2>8. StayStep
    <3>1. Ids(tree) \subseteq Ids(tree')
      BY <2>3 DEF Ids
    <3>2. QED
      BY <1>1, <3>1 DEF StayStep, Known
  <2>9. QED
    BY <1>3, <2>4, <2>6, <2>7, <2>8 DEF PlaceInv
<1>6. QED
  BY <1>1, <1>4, <1>5

\* The steps of the screen that leave the replies alone.
LEMMA ScreenPlace ==
  ASSUME TypeInv, PlaceInv,
         \/ Open \/ Leave \/ InitData \/ PostFailed
         \/ \E r \in loads : LoadFailed(r)
         \/ \E r \in pages : PageFailed(r)
         \/ \E i \in DOMAIN tree : DeleteComment(i)
         \/ \E r \in deletes : DeleteFailed(r)
  PROVE  PlaceInv' /\ OnceStep /\ StayStep
<1> USE DEF server, screen, comments, requests
<1>1. /\ UNCHANGED <<gen, tree, next, own, sends, details, socket>>
      /\ pages' \subseteq pages
  BY DEF Open, Leave, InitData, PostFailed, LoadFailed, PageFailed, DeleteComment,
         DeleteFailed
<1>2. Events' \subseteq Events
  <2>1. CASE UNCHANGED queues
    BY <1>1, <2>1, EventsSame
  <2>2. CASE Leave
    BY <2>2, LeaveEvents DEF TypeInv
  <2>3. QED
    BY <2>1, <2>2 DEF Open, InitData, PostFailed, LoadFailed, PageFailed, DeleteComment,
                      DeleteFailed
<1>3. PlaceInv' /\ OnceStep
  BY <1>1, <1>2, PlaceKept DEF TypeInv
<1>4. StayStep
  BY <1>1 DEF StayStep, Known
<1>5. QED
  BY <1>3, <1>4

\* A further page to load is older than the replies that are shown.
LEMMA GetMoreSubCommentsPlace ==
  ASSUME TypeInv, PlaceInv, GetMoreSubComments
  PROVE  PlaceInv' /\ OnceStep /\ StayStep
<1> USE DEF server, comments
<1> DEFINE r == [screen |-> opened, gen |-> gen, from |-> next, served |-> FALSE,
                 answer |-> NoPage]
<1>1. /\ UNCHANGED <<gen, tree, next, own, sends, details, socket, queues>>
      /\ pages' \subseteq pages \cup {r}
  BY DEF GetMoreSubComments
<1>2. r.from = next
  OBVIOUS
<1> HIDE DEF r
<1>3. Events' \subseteq Events
  BY <1>1, EventsSame
<1>4. NumberInv'
  BY <1>1, <1>3, NumberKept DEF PlaceInv, TypeInv, FromThere
<1>5. Newer'
  BY <1>1, <1>2, <1>3 DEF PlaceInv, Newer, Mine, Now
<1>6. Apart(Now)'
  BY <1>1, <1>3 DEF PlaceInv, Apart, Mine, Now
<1>7. OnceStep /\ StayStep
  BY <1>1 DEF OnceStep, StayStep, Known
<1>8. QED
  BY <1>4, <1>5, <1>6, <1>7 DEF PlaceInv

\* The agent's reply has a detect id of its own.
LEMMA HandleSendCommentPlace ==
  ASSUME TypeInv, PlaceInv, HandleSendComment
  PROVE  PlaceInv' /\ OnceStep /\ StayStep
<1> USE DEF server, screen
<1> DEFINE item == [id |-> 0, detect |-> own + 1, status |-> "sending"]
           q == [detect |-> own + 1, answer |-> "waiting"]
<1>1. /\ UNCHANGED <<server, gen, next, queues, details, pages>> /\ own' = own + 1
      /\ sends' = sends \cup {q} /\ tree' = <<item>> \o tree /\ own < MaxOwn
  BY DEF HandleSendComment
<1>2. /\ item \in Item /\ item.id = 0 /\ item.detect = own + 1 /\ q.detect = own + 1
      /\ own \in Nat
  BY <1>1, Bounds DEF TypeInv, TypeOK, Item, Id, Detect
<1> HIDE DEF item, q
<1>3. DOMAIN tree' = 1..(Len(tree) + 1) /\ Len(tree) \in Nat /\ DOMAIN tree = 1..Len(tree)
      /\ \A i \in DOMAIN tree' : tree'[i] = IF i = 1 THEN item ELSE tree[i - 1]
  <2>1. tree \in Seq(Item) /\ <<item>> \in Seq(Item) /\ <<item>>[1] = item
    BY <1>2 DEF TypeInv, TypeOK
  <2>2. Len(<<item>>) = 1 /\ Len(tree) \in Nat /\ DOMAIN tree = 1..Len(tree)
    BY <2>1
  <2>3. /\ DOMAIN tree' = 1..(1 + Len(tree))
        /\ \A i \in 1..(1 + Len(tree)) :
             tree'[i] = IF i <= 1 THEN <<item>>[i] ELSE tree[i - 1]
    BY <1>1, <2>1, <2>2, ConcatProperties
  <2>4. QED
    BY <2>1, <2>2, <2>3
<1>4. ASSUME NEW i \in DOMAIN tree'
      PROVE  \/ i = 1 /\ tree'[i] = item
             \/ i # 1 /\ i - 1 \in DOMAIN tree /\ tree'[i] = tree[i - 1]
  BY <1>3
<1>5. /\ \A i \in DOMAIN tree : tree[i].detect <= own /\ tree[i].detect \in Nat
      /\ \A e \in Events : e.detect <= own /\ e.detect \in Nat
      /\ \A r \in sends : r.detect <= own /\ r.detect \in Nat /\ r.detect # 0
  <2>1. \A i \in DOMAIN tree : tree[i].detect \in Nat
    <3>1. tree \in Seq(Item)
      BY DEF TypeInv, TypeOK
    <3>2. \A i \in DOMAIN tree : tree[i] \in Item
      BY <3>1
    <3>3. QED
      BY <3>2, Bounds DEF Item
  <2>2. /\ \A e \in Events : e.detect \in Nat
        /\ \A r \in sends : r.detect \in Nat
    BY EventTypes, SentTypes, Bounds DEF TypeInv, Event, TypeOK, Sent
  <2>3. QED
    BY <2>1, <2>2 DEF PlaceInv, NumberInv
<1>6. Events' \subseteq Events
  BY <1>1, EventsSame
<1>7. NumberInv'
  <2>1. \A e, f \in Events' : SameReply(e, f)
    BY <1>6 DEF PlaceInv, NumberInv
  <2>2. /\ \A e \in Events' : e.detect <= own'
        /\ \A i \in DOMAIN tree' : tree'[i].detect <= own'
        /\ \A r \in sends' : r.detect # 0 /\ r.detect <= own'
    BY <1>1, <1>2, <1>4, <1>5, <1>6
  <2>3. \A r, s \in sends' : r.detect = s.detect => r = s
    BY <1>1, <1>2, <1>5 DEF PlaceInv, NumberInv
  <2>4. ASSUME NEW r \in sends', r.answer = "waiting"
        PROVE  /\ \A e \in Events' : e.detect # r.detect
               /\ \A i \in DOMAIN tree' : tree'[i].detect = r.detect => tree'[i].id = 0
    <3>1. CASE r = q
      BY <1>2, <1>4, <1>5, <1>6, <3>1
    <3>2. CASE r \in sends
      BY <1>2, <1>4, <1>5, <1>6, <2>4, <3>2 DEF PlaceInv, NumberInv
    <3>3. QED
      BY <1>1, <3>1, <3>2
  <2>5. QED
    BY <2>1, <2>2, <2>3, <2>4 DEF NumberInv, SameReply
<1>8. ASSUME NEW e \in Events', NEW i \in DOMAIN tree', tree'[i].detect = e.detect
      PROVE  i # 1 /\ i - 1 \in DOMAIN tree /\ tree'[i] = tree[i - 1] /\ e \in Events
  BY <1>2, <1>4, <1>5, <1>6, <1>8
<1>9. Newer'
  BY <1>1, <1>8 DEF PlaceInv, Newer, Mine, Now
<1>10. Apart(Now)'
  <2>1. ASSUME NEW i \in DOMAIN tree', NEW j \in DOMAIN tree',
               tree'[i].detect = tree'[j].detect, tree'[i].detect # 0
        PROVE  i = j
    <3>1. CASE i = 1
      BY <1>2, <1>4, <1>5, <2>1, <3>1
    <3>2. CASE i # 1
      <4>1. i - 1 \in DOMAIN tree /\ tree'[i] = tree[i - 1]
        BY <1>4, <3>2
      <4>2. j # 1 /\ j - 1 \in DOMAIN tree /\ tree'[j] = tree[j - 1]
        BY <1>2, <1>4, <1>5, <2>1, <4>1
      <4>3. i - 1 = j - 1
        BY <2>1, <4>1, <4>2 DEF PlaceInv, Apart, Now
      <4>4. QED
        BY <1>3, <4>3
    <3>3. QED
      BY <3>1, <3>2
  <2>2. ASSUME NEW e \in Events', NEW i \in DOMAIN tree',
               e.id # 0, e.detect # 0, tree'[i].detect = e.detect
        PROVE  /\ tree'[i].id \in {0, e.id}
               /\ \A j \in DOMAIN tree' : j # i => tree'[j].id # e.id
               /\ \A r \in details' : r.gen = gen => r.id # e.id
    <3>1. i # 1 /\ i - 1 \in DOMAIN tree /\ tree'[i] = tree[i - 1] /\ e \in Events
      BY <1>8, <2>2
    <3>2. /\ tree[i - 1].id \in {0, e.id}
          /\ \A j \in DOMAIN tree : j # i - 1 => tree[j].id # e.id
          /\ \A r \in details : r.gen = gen => r.id # e.id
      BY <2>2, <3>1 DEF PlaceInv, Apart, Mine, Now
    <3>3. ASSUME NEW j \in DOMAIN tree', j # i
          PROVE  tree'[j].id # e.id
      <4>1. CASE j = 1
        BY <1>2, <1>4, <2>2, <4>1
      <4>2. CASE j # 1
        <5>1. j - 1 \in DOMAIN tree /\ tree'[j] = tree[j - 1] /\ j - 1 # i - 1
          BY <1>3, <1>4, <3>3, <4>2
        <5>2. QED
          BY <3>2, <5>1
      <4>3. QED
        BY <4>1, <4>2
    <3>4. QED
      BY <1>1, <3>1, <3>2, <3>3
  <2>3. QED
    BY <1>1, <2>1, <2>2 DEF Apart, Mine, Now
<1>11. OnceStep
  <2> SUFFICES ASSUME NEW i \in DOMAIN tree', NEW j \in DOMAIN tree', i # j,
                      tree'[i].id # 0, tree'[i].id = tree'[j].id
               PROVE  Repeats(tree)
    BY DEF OnceStep, Repeats
  <2>1. /\ i - 1 \in DOMAIN tree /\ tree'[i] = tree[i - 1]
        /\ j - 1 \in DOMAIN tree /\ tree'[j] = tree[j - 1] /\ i - 1 # j - 1
    BY <1>2, <1>3, <1>4
  <2>2. QED
    BY <2>1 DEF Repeats
<1>12. StayStep
  <2>1. ASSUME NEW k \in DOMAIN tree
        PROVE  \E i \in DOMAIN tree' : tree'[i] = tree[k]
    <3>1. k + 1 \in DOMAIN tree' /\ tree'[k + 1] = tree[k]
      BY <1>3
    <3>2. QED
      BY <3>1
  <2>2. Ids(tree) \subseteq Ids(tree')
    BY <2>1 DEF Ids
  <2>3. QED
    BY <1>1, <2>2 DEF StayStep, Known
<1>13. QED
  BY <1>7, <1>9, <1>10, <1>11, <1>12 DEF PlaceInv

\* The answer of a reply changes its status alone.
LEMMA SendEndsPlace ==
  ASSUME TypeInv, PlaceInv, NEW r \in sends, SendAnswered(r) \/ SendFailed(r)
  PROVE  PlaceInv' /\ OnceStep /\ StayStep
<1> USE DEF server, screen
<1>1. /\ UNCHANGED <<deleted, socket, queues, gen, next, own, details, pages>>
      /\ sends' \subseteq sends
      /\ tree' \in {tree, WithStatus(r.detect, "failed")}
  BY DEF SendAnswered, SendFailed
<1>2. /\ DOMAIN tree' = DOMAIN tree
      /\ \A i \in DOMAIN tree : tree'[i].id = tree[i].id /\ tree'[i].detect = tree[i].detect
  BY <1>1, WithStatusItems DEF TypeInv
<1>3. Events' \subseteq Events
  BY <1>1, EventsSame
<1>4. FromThere(tree', tree)
  BY <1>2 DEF FromThere
<1>5. NumberInv' /\ Newer'
  BY <1>1, <1>3, <1>4, NumberKept, NewerKept DEF PlaceInv, TypeInv
<1>6. Apart(Now)'
  BY <1>1, <1>2, <1>3 DEF PlaceInv, Apart, Mine, Now
<1>7. OnceStep
  BY <1>2 DEF OnceStep, Repeats
<1>8. StayStep
  <2>1. Ids(tree') = Ids(tree)
    BY <1>2 DEF Ids
  <2>2. QED
    BY <1>1, <2>1 DEF StayStep, Known
<1>9. QED
  BY <1>5, <1>6, <1>7, <1>8 DEF PlaceInv

\* The server has deleted what is taken out.
LEMMA DeleteAnsweredPlace ==
  ASSUME TypeInv, PlaceInv, NEW r \in deletes, DeleteAnswered(r)
  PROVE  PlaceInv' /\ OnceStep /\ StayStep
<1> USE DEF server, screen
<1>1. /\ UNCHANGED <<deleted, socket, queues, gen, next, own, sends, details, pages>>
      /\ tree' \in {tree, Without(tree, r.id)} /\ r.answer = "done"
  BY DEF DeleteAnswered
<1>2. tree \in Seq(Item) /\ details \subseteq Detail /\ r.id \in deleted
  BY <1>1 DEF TypeInv, TypeOK, MadeInv, DeletionMade
<1>3. Leaves(tree', tree, r.id)
  BY <1>1, <1>2, AllLeft, WithoutLeaves
<1>4. PICK u : u = [tree |-> tree', details |-> details]
  OBVIOUS
<1>5. /\ u \in [tree : Seq(Item), details : SUBSET Detail] /\ Becomes(u)
      /\ Now \in [tree : Seq(Item), details : SUBSET Detail]
      /\ Now.tree = tree /\ Now.details = details
  BY <1>1, <1>2, <1>3, <1>4 DEF Leaves, Becomes, Now
<1>6. Keeps(Now, u) /\ Apart(u)
  BY <1>2, <1>3, <1>4, <1>5, LeavesKeeps DEF PlaceInv
<1>7. Events' \subseteq Events
  BY <1>1, EventsSame
<1>8. QED
  BY <1>1, <1>5, <1>6, <1>7, BecomesPlace

LEMMA PlaceInductive ==
  ASSUME TypeInv, PlaceInv, Next
  PROVE  PlaceInv' /\ OnceStep /\ StayStep
<1>1. CASE Server
  BY <1>1, ServerPlace
<1>2. CASE Client
  BY <1>2, SocketPlace, DetailPlace, CommentsLoadedPlace, PageAnsweredPlace, ScreenPlace,
     GetMoreSubCommentsPlace, HandleSendCommentPlace, SendEndsPlace, DeleteAnsweredPlace
     DEF Client
<1>3. QED
  BY <1>1, <1>2 DEF Next

LEMMA PlaceStep ==
  ASSUME TypeInv, PlaceInv, [Next]_vars
  PROVE  PlaceInv' /\ [OnceStep]_vars /\ [StayStep]_vars
<1>1. CASE Next
  BY <1>1, PlaceInductive
<1>2. CASE UNCHANGED vars
  <2>1. /\ UNCHANGED <<gen, tree, next, own, sends, details, pages, socket, queues>>
    BY <1>2 DEF vars, server, comments, screen, requests
  <2>2. Events' \subseteq Events
    BY <2>1, EventsSame
  <2>3. PlaceInv'
    BY <2>1, <2>2, PlaceKept DEF TypeInv
  <2>4. QED
    BY <1>2, <2>3
<1>3. QED
  BY <1>1, <1>2

LEMMA PlaceHolds == Spec => []PlaceInv
<1>1. PlaceInv /\ TypeInv /\ [Next]_vars => PlaceInv'
  BY PlaceStep
<1>2. QED
  BY InitPlace, TypesHold, <1>1, PTL DEF Spec

\* No reply comes to be shown twice, except by a further page: not when two
\* listeners fetch it, not when it is among those that were loaded, and not when
\* it is the agent's own, which is known by its detect id before it has a number
\* (getCommentFB and replyCommentTopicSocket of SocialUtils.tsx).
THEOREM NoneShownTwice == Spec => EachOnce
<1>1. TypeInv /\ PlaceInv /\ [Next]_vars
        => [~Repeats(tree) /\ Repeats(tree') => pages' # pages]_vars
  BY PlaceStep DEF OnceStep
<1>2. QED
  BY TypesHold, PlaceHolds, <1>1, PTL DEF Spec, EachOnce

\* What is shown, or being fetched, goes only when it was deleted at the server or
\* a request failed, as long as the comment is the same (updateCommentFBSocket of
\* SocialUtils.tsx, handleDeleteComment of FacebookMain.tsx).
THEOREM NoneVanishes == Spec => NothingVanishes
<1>1. TypeInv /\ PlaceInv /\ [Next]_vars
        => [\A id \in 1..MaxComments :
              Known(id) /\ gen' = gen => Known(id)' \/ id \in deleted' \/ faults' # faults]_vars
  BY PlaceStep DEF StayStep
<1>2. QED
  BY TypesHold, PlaceHolds, <1>1, PTL DEF Spec, NothingVanishes

=============================================================================
