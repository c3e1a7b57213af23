----------------------- MODULE CallCenterCalls_proofs -----------------------
(***************************************************************************)
(* What is proved of the calls of the call centre and of their screens.    *)
(* Of any behaviour of the environment: a call is answered only while a    *)
(* CallKit call the agent put through lives.  Under a condition on it:     *)
(* without interruptions of the audio a call is answered once; when a call *)
(* begins only after nothing is left of the one before, screens count no   *)
(* other call's talk, a talk is never missed and a rejection never         *)
(* reported as missed; and when in addition no call times out, or there is *)
(* no other call, the open screen is the current one.                      *)
(***************************************************************************)
EXTENDS CallCenter_proofs

-----------------------------------------------------------------------------
(* Kinds of steps.                                                         *)

\* The blocks given to dispatch_async(main).
Waiting == {mainq[i] : i \in DOMAIN mainq}

others == <<cur, vc, sdk, mainq, delayed, req, told, offered, missed, rejected>>

\* The manager has the same Stringee call or none.
KeepsOrLoses == call'.sc # None => call'.sc = call.sc /\ call'.incoming = call.incoming

\* Nothing but the manager's call, CallKit and the audio session may change;
\* the manager may lose its call.
Rests == UNCHANGED others /\ KeepsOrLoses

\* The manager's call is rejected or hung up, its screen may be told to close.
AsksToEnd ==
  /\ UNCHANGED <<cur, vc, sdk, delayed, offered, missed>>
  /\ KeepsOrLoses
  /\ \/ UNCHANGED <<req, told, rejected>>
     \/ /\ call.sc # None /\ UNCHANGED rejected
        /\ req' = req \cup {[op |-> "hangup", c |-> call.sc]}
        /\ told' = told \cup {[op |-> "hangup", c |-> call.sc]}
     \/ /\ call.sc # None /\ rejected'
        /\ req' = req \cup {[op |-> "reject", c |-> call.sc]}
        /\ told' = told \cup {[op |-> "reject", c |-> call.sc]}
     \/ rejected' /\ UNCHANGED <<req, told>>
  /\ \/ UNCHANGED mainq
     \/ \E c \in Calls :
          /\ "timeout" \in Features /\ vc[c].timeout
          /\ mainq' = Append(mainq, BlockOf("dismiss", c))

\* The manager's call is answered, and its screen knows.
AnswersCall ==
  /\ UNCHANGED <<cur, sdk, mainq, delayed, told, offered, missed, rejected>>
  /\ KeepsOrLoses /\ call'.sc = call.sc /\ call.sc # None
  /\ vc' = IF cur = None THEN vc ELSE [vc EXCEPT ![cur].sig = "answered"]
  /\ \/ UNCHANGED req
     \/ DidActivateAudioSession /\ call.incoming
        /\ req' = req \cup {[op |-> "answer", c |-> call.sc]}

\* The steps that are about one call.
About(c) ==
  \/ PlaceCall(c) \/ IncomingCallWithStringeeClient(c) \/ CallToPhone(c)
  \/ \E s \in {"answered", "busy", "ended"} : DidChangeSignalingState(c, s)
  \/ \E s \in {"answered", "busy"} : DidHandleOnAnotherDevice(c, s)
  \/ MainQueue(c) \/ Completions(c) \/ Present(c)

LEMMA Ends ==
  ASSUME TypeOK, NEW acts, NEW kitNow,
         Reject(call, acts, kitNow) \/ Hangup(call, acts, kitNow)
  PROVE  \/ UNCHANGED <<req, told, rejected>>
         \/ /\ call.sc # None /\ UNCHANGED rejected
            /\ req' = req \cup {[op |-> "hangup", c |-> call.sc]}
            /\ told' = told \cup {[op |-> "hangup", c |-> call.sc]}
         \/ /\ call.sc # None /\ rejected'
            /\ req' = req \cup {[op |-> "reject", c |-> call.sc]}
            /\ told' = told \cup {[op |-> "reject", c |-> call.sc]}
         \/ rejected' /\ UNCHANGED <<req, told>>
<1>1. CASE call.id = None
  BY <1>1 DEF Reject, Hangup
<1>2. CASE call.id # None /\ call.sc = None
  <2>1. Ask("reject", call.sc) = {} /\ Ask("hangup", call.sc) = {}
    BY <1>2 DEF Ask
  <2>2. QED
    BY <1>2, <2>1 DEF Reject, Hangup
<1>3. CASE call.id # None /\ call.sc # None
  <2>1. /\ Ask("reject", call.sc) = {[op |-> "reject", c |-> call.sc]}
        /\ Ask("hangup", call.sc) = {[op |-> "hangup", c |-> call.sc]}
    BY <1>3 DEF Ask
  <2>2. QED
    BY <1>3, <2>1 DEF Reject, Hangup
<1>4. QED
  BY <1>1, <1>2, <1>3

\* Answering, with a record of the manager's call that has its Stringee call.
LEMMA AnswerKinds ==
  ASSUME TypeOK, NEW k \in CallRecord, NEW kitNow,
         k.sc = call.sc, k.incoming = call.incoming, AnswerCallWithCondition(k, kitNow),
         k.answerAction # None \/ DidActivateAudioSession,
         UNCHANGED <<cur, sdk, mainq, delayed, told, offered, missed, rejected>>
  PROVE  Rests \/ AnswersCall
<1>1. call'.sc = k.sc /\ call'.incoming = k.incoming
  BY DEF AnswerCallWithCondition, Anwser, CallRecord
<1>2. CASE UNCHANGED <<vc, req>>
  BY <1>1, <1>2 DEF Rests, KeepsOrLoses, others
<1>3. CASE Anwser(k, kitNow) /\ k.sc # None /\ k.incoming
  <2>1. Ask("answer", k.sc) = {[op |-> "answer", c |-> call.sc]}
    BY <1>3 DEF Ask
  <2>2. QED
    BY <1>1, <1>3, <2>1 DEF AnswersCall, KeepsOrLoses, Anwser
<1>4. QED
  BY <1>2, <1>3 DEF AnswerCallWithCondition

LEMMA Kinds ==
  ASSUME TypeOK, [Next]_vars
  PROVE  \/ Rests \/ AsksToEnd \/ AnswersCall
         \/ \E c \in Calls : About(c)
         \/ \E b \in delayed : Close(b)
<1>0. call \in CallRecord
  BY DEF TypeOK
<1>1. ASSUME NEW c \in Calls, Environment(c) \/ MainQueue(c) \/ Completions(c)
      PROVE  Rests \/ AsksToEnd \/ About(c)
  <2>1. CASE HandleIncomingPushEvent(c) \/ AcceptTapped(c)
    BY <2>1 DEF HandleIncomingPushEvent, AcceptTapped, NewCall, NoCall, Rests, KeepsOrLoses, others
  <2>2. CASE DeclineTapped(c) \/ EndCallTapped(c)
    <3>1. UNCHANGED <<call, cur, vc, sdk, delayed, offered, missed, mainq>>
      BY <2>2 DEF DeclineTapped, EndCallTapped
    <3>2. Reject(call, actions, kit) \/ Hangup(call, actions, kit)
      BY <2>2 DEF DeclineTapped, EndCallTapped
    <3>3. QED
      BY <3>1, <3>2, Ends DEF AsksToEnd, KeepsOrLoses
  <2>3. QED
    BY <1>1, <2>1, <2>2 DEF Environment, About
<1>2. ASSUME NEW c \in Calls, CheckCallTimeOut(c)
      PROVE  AsksToEnd
  <2>1. UNCHANGED <<call, cur, vc, sdk, delayed, offered, missed, rejected>>
    BY <1>2 DEF CheckCallTimeOut
  <2>2. Hangup(call, actions, kit)
    BY <1>2 DEF CheckCallTimeOut
  <2>3. /\ "timeout" \in Features /\ vc[c].timeout
        /\ mainq' = Append(mainq, BlockOf("dismiss", c))
    BY <1>2 DEF CheckCallTimeOut
  <2>4. QED
    BY <2>1, <2>2, <2>3, Ends DEF AsksToEnd, KeepsOrLoses
<1>3. ASSUME NEW u \in Uuids, CallKit(u) \/ SystemAnswer(u) \/ SystemEnd(u)
      PROVE  Rests \/ AsksToEnd \/ AnswersCall
  <2>1. CASE PerformAnswerCallAction(u)
    <3> DEFINE k == [call EXCEPT !.answered = TRUE, !.answerAction = u]
               answering == [kit EXCEPT ![u] = "answering"]
    <3>1. UNCHANGED <<cur, sdk, mainq, delayed, told, offered, missed, rejected>>
      BY <2>1 DEF PerformAnswerCallAction
    <3>2. CASE HasCall
      <4>1. /\ k \in CallRecord /\ k.sc = call.sc /\ k.incoming = call.incoming
            /\ k.answerAction # None
        BY <1>0, CallCenterAssumption DEF CallRecord
      <4>2. AnswerCallWithCondition(k, answering)
        BY <2>1, <3>2 DEF PerformAnswerCallAction
      <4> HIDE DEF k, answering
      <4>3. QED
        BY <3>1, <4>1, <4>2, AnswerKinds
    <3>3. CASE ~HasCall
      BY <2>1, <3>3 DEF PerformAnswerCallAction, Rests, KeepsOrLoses, others
    <3>4. QED
      BY <3>2, <3>3
  <2>2. CASE PerformEndCallAction(u)
    <3>1. /\ UNCHANGED <<cur, vc, sdk, delayed, offered, missed, mainq>>
          /\ call'.sc = None
      BY <2>2 DEF PerformEndCallAction, NoCall
    <3> DEFINE rest == Deliverable(actions, kit')
    <3>2. \/ UNCHANGED <<req, told, rejected>>
          \/ Reject(call, rest, kit') \/ Hangup(call, rest, kit')
      BY <2>2 DEF PerformEndCallAction
    <3> HIDE DEF rest
    <3>3. QED
      BY <3>1, <3>2, Ends DEF AsksToEnd, KeepsOrLoses
  <2>3. QED
    BY <1>3, <2>1, <2>2 DEF CallKit, StartRefused, PerformStartCallAction,
       AnswerActionTimedOut, SystemAnswer, SystemEnd, Rests, KeepsOrLoses, others
<1>4. ASSUME NEW r \in reports, NEW ok \in BOOLEAN, ReportCompleted(r, ok)
      PROVE  Rests
  BY <1>0, <1>4 DEF ReportCompleted, NoCall, CallRecord, Rests, KeepsOrLoses, others
<1>5. CASE DidActivateAudioSession
  <2> DEFINE k == [call EXCEPT !.audio = TRUE]
  <2>1. UNCHANGED <<cur, sdk, mainq, delayed, told, offered, missed, rejected>>
    BY <1>5 DEF DidActivateAudioSession
  <2>2. CASE HasCall
    <3>1. k \in CallRecord /\ k.sc = call.sc /\ k.incoming = call.incoming
      BY <1>0 DEF CallRecord
    <3>2. AnswerCallWithCondition(k, kit)
      BY <1>5, <2>2 DEF DidActivateAudioSession
    <3> HIDE DEF k
    <3>3. QED
      BY <1>5, <2>1, <3>1, <3>2, AnswerKinds
  <2>3. CASE ~HasCall
    BY <1>5, <2>3 DEF DidActivateAudioSession, Rests, KeepsOrLoses, others
  <2>4. QED
    BY <2>2, <2>3
<1>6. CASE DidDeactivateAudioSession
  BY <1>0, <1>6 DEF DidDeactivateAudioSession, CallRecord, Rests, KeepsOrLoses, others
<1>7. CASE UNCHANGED vars
  BY <1>7 DEF vars, Rests, KeepsOrLoses, others
<1>8. ASSUME NEW c \in Calls, Present(c) PROVE About(c)
  BY <1>8 DEF About
<1>9. QED
  BY <1>1, <1>2, <1>3, <1>4, <1>5, <1>6, <1>7, <1>8 DEF Next

-----------------------------------------------------------------------------
(* What is new: its screen is not made, nothing was done for it.           *)

Unmade(s) == ~s.shown /\ ~s.closed /\ ~s.timer /\ ~s.timeout

\* Until something began for a call, its screen is not made.
ScreenInv ==
  \A c \in Calls : vc[c].sig = "idle" =>
    /\ Unmade(vc[c]) /\ cur # c
    /\ \A b \in Waiting : b.c = c => b.op = "incoming"
    /\ \A b \in delayed : b.c # c
    /\ [op |-> "make", c |-> c] \notin req

\* An incoming call is new until its StringeeCall was handled.
New(c) == c \notin offered \/ \E b \in Waiting : b.op = "incoming" /\ b.c = c

\* Nothing was done for a call that is new; what is handed over for a call only
\* once is handed over once.
Same(a, b) ==
  /\ a.c = b.c /\ a.op = b.op
  /\ a.op = "incoming" \/ (a.op = "signal" /\ a.sig = "ended" /\ b.sig = "ended")
OnceEach ==
  \A i, j \in DOMAIN mainq : mainq[i].c \in Incoming /\ Same(mainq[i], mainq[j]) => i = j
NewInv ==
  /\ \A b \in Waiting : b.op = "incoming" => b.c \in offered
  /\ \A c \in offered : sdk[c] # "idle"
  /\ \A c \in Incoming : New(c) =>
       /\ vc[c].sig = "idle" /\ call.sc # c /\ sdk[c] # "answered"
       /\ \A r \in req \cup told : r.c # c
BeginInv == ScreenInv /\ NewInv /\ OnceEach

\* A block is given to the main queue, or its first block is taken from it,
\* which may give it another one.
LEMMA Given ==
  ASSUME TypeOK, OnceEach, NEW b \in Block, mainq' = Append(mainq, b)
  PROVE  /\ Waiting' = Waiting \cup {b}
         /\ (b.c \in Incoming => \A x \in Waiting : ~Same(x, b)) => OnceEach'
<1>1. mainq \in Seq(Block) /\ DOMAIN mainq = 1..Len(mainq) /\ Len(mainq) \in Nat
  BY DEF TypeOK
<1>2. /\ DOMAIN mainq' = 1..(Len(mainq) + 1)
      /\ \A i \in DOMAIN mainq : mainq'[i] = mainq[i]
      /\ mainq'[Len(mainq) + 1] = b
  BY <1>1
<1>3. Waiting' = Waiting \cup {b}
  BY <1>1, <1>2 DEF Waiting
<1>4. ASSUME b.c \in Incoming => \A x \in Waiting : ~Same(x, b)
      PROVE  OnceEach'
  <2>1. \A i \in DOMAIN mainq : b.c \in Incoming => ~Same(mainq[i], b) /\ ~Same(b, mainq[i])
    BY <1>4 DEF Waiting, Same
  <2>2. SUFFICES ASSUME NEW i \in DOMAIN mainq', NEW j \in DOMAIN mainq',
                        mainq'[i].c \in Incoming, Same(mainq'[i], mainq'[j])
                 PROVE  i = j
    BY DEF OnceEach, Same
  <2>3. mainq'[i].c = mainq'[j].c
    BY <2>2 DEF Same
  <2>4. (i \in DOMAIN mainq \/ i = Len(mainq) + 1) /\ (j \in DOMAIN mainq \/ j = Len(mainq) + 1)
    BY <1>1, <1>2
  <2>5. QED
    BY <1>2, <2>1, <2>2, <2>3, <2>4 DEF OnceEach
<1>5. QED
  BY <1>3, <1>4

LEMMA Shifts ==
  ASSUME NEW q \in Seq(Block), NEW b \in Block, NEW r, q # << >>,
         r \in {Tail(q), Append(Tail(q), b)}
  PROVE  \A i \in DOMAIN r :
           \/ i + 1 \in DOMAIN q /\ r[i] = q[i + 1] /\ i \in Nat \ {0}
           \/ r # Tail(q) /\ r[i] = b
<1>1. PICK n \in Nat : n + 1 = Len(q)
  OBVIOUS
<1>2. Tail(q) \in Seq(Block) /\ Len(Tail(q)) = n /\ DOMAIN q = 1..(n + 1)
  BY <1>1
<1>3. PICK t \in Seq(Block) : t = Tail(q)
  BY <1>2
<1>4. Len(t) = n /\ DOMAIN t = 1..n /\ \A i \in 1..n : t[i] = q[i + 1]
  BY <1>1, <1>2, <1>3
<1>5. \A i \in 1..n : i + 1 \in 1..(n + 1) /\ i \in Nat \ {0}
  OBVIOUS
<1>6. CASE r = t
  BY <1>2, <1>4, <1>5, <1>6
<1>7. CASE r = Append(t, b)
  <2>1. /\ Len(r) = n + 1 /\ DOMAIN r = 1..(n + 1) /\ r[n + 1] = b
        /\ \A i \in 1..n : r[i] = t[i]
    BY <1>4, <1>7
  <2>2. r # t
    BY <1>4, <2>1
  <2>3. QED
    BY <1>2, <1>3, <1>4, <1>5, <2>1, <2>2
<1>8. QED
  BY <1>3, <1>6, <1>7

LEMMA Taken ==
  ASSUME TypeOK, OnceEach, NEW c \in Calls, mainq # << >>,
         mainq' \in {Tail(mainq), Append(Tail(mainq), BlockOf("dismiss", c))}
  PROVE  /\ Head(mainq) \in Waiting
         /\ Waiting' \subseteq Waiting \cup {BlockOf("dismiss", c)}
         /\ mainq' = Tail(mainq) => Waiting' \subseteq Waiting
         /\ OnceEach'
         /\ Head(mainq).c \in Incoming => \A x \in Waiting' : ~Same(x, Head(mainq))
<1> DEFINE b == BlockOf("dismiss", c)
<1>1. /\ mainq \in Seq(Block) /\ DOMAIN mainq = 1..Len(mainq) /\ Len(mainq) \in Nat \ {0}
      /\ Head(mainq) = mainq[1]
  BY DEF TypeOK
<1>2. /\ Tail(mainq) \in Seq(Block) /\ Len(Tail(mainq)) = Len(mainq) - 1
      /\ \A i \in 1..(Len(mainq) - 1) : Tail(mainq)[i] = mainq[i + 1]
  BY <1>1
<1>3. b \in Block /\ b.op = "dismiss"
  BY Blocks DEF BlockOf
<1> HIDE DEF b
<1>4. \A i \in DOMAIN mainq' :
        \/ i + 1 \in DOMAIN mainq /\ mainq'[i] = mainq[i + 1] /\ i \in Nat \ {0}
        \/ mainq' # Tail(mainq) /\ mainq'[i] = b
  <2>1. \A q \in Seq(Block) : \A r :
          q # << >> /\ r \in {Tail(q), Append(Tail(q), b)} =>
            \A i \in DOMAIN r : \/ i + 1 \in DOMAIN q /\ r[i] = q[i + 1] /\ i \in Nat \ {0}
                                \/ r # Tail(q) /\ r[i] = b
    BY <1>3, Shifts
  <2>2. mainq' \in {Tail(mainq), Append(Tail(mainq), b)}
    BY DEF b
  <2>3. QED
    BY <1>1, <2>1, <2>2
<1>5. Head(mainq) \in Waiting
  BY <1>1 DEF Waiting
<1>6. /\ Waiting' \subseteq Waiting \cup {b}
      /\ mainq' = Tail(mainq) => Waiting' \subseteq Waiting
  BY <1>4 DEF Waiting
<1>7. \A x : ~Same(b, x) /\ ~Same(x, b)
  BY <1>3 DEF Same
<1>8. OnceEach'
  <2>1. SUFFICES ASSUME NEW i \in DOMAIN mainq', NEW j \in DOMAIN mainq',
                        mainq'[i].c \in Incoming, Same(mainq'[i], mainq'[j])
                 PROVE  i = j
    BY DEF OnceEach, Same
  <2>2. /\ i + 1 \in DOMAIN mainq /\ mainq'[i] = mainq[i + 1] /\ i \in Nat
        /\ j + 1 \in DOMAIN mainq /\ mainq'[j] = mainq[j + 1] /\ j \in Nat
    BY <1>4, <1>7, <2>1
  <2>3. i + 1 = j + 1
    BY <2>1, <2>2 DEF OnceEach
  <2>4. QED
    BY <2>2, <2>3
<1>9. ASSUME Head(mainq).c \in Incoming, NEW x \in Waiting'
      PROVE  ~Same(x, Head(mainq))
  <2>1. PICK i \in DOMAIN mainq' : x = mainq'[i]
    BY DEF Waiting
  <2>2. CASE i + 1 \in DOMAIN mainq /\ mainq'[i] = mainq[i + 1] /\ i \in Nat
    <3>1. i + 1 # 1 /\ 1 \in DOMAIN mainq /\ i \in DOMAIN mainq'
      <4>1. DOMAIN mainq' = 1..Len(mainq')
        BY <1>2, <1>3 DEF b
      <4>2. i # 0
        BY <4>1
      <4>3. QED
        BY <1>1, <2>2, <4>2
    <3>2. ASSUME Same(x, Head(mainq)) PROVE FALSE
      <4>1. Same(mainq[1], mainq[i + 1])
        BY <1>1, <2>1, <2>2, <3>2 DEF Same
      <4>2. QED
        BY <1>1, <1>9, <2>2, <3>1, <4>1 DEF OnceEach
    <3>3. QED
      BY <3>2
  <2>3. CASE mainq'[i] = b
    BY <1>7, <2>1, <2>3
  <2>4. QED
    BY <1>4, <2>2, <2>3
<1>10. QED
  BY <1>5, <1>6, <1>8, <1>9 DEF b

\* What the completions of requests tell the current screen.
LEMMA Told1 ==
  ASSUME TypeOK, NEW op, mainq' = mainq \o TellScreen(op)
  PROVE  \/ UNCHANGED mainq
         \/ cur \in Calls /\ mainq' = Append(mainq, BlockOf(op, cur))
<1>1. mainq \in Seq(Block)
  BY DEF TypeOK
<1>2. CASE cur = None
  BY <1>1, <1>2 DEF TellScreen
<1>3. CASE cur # None
  BY <1>1, <1>3 DEF TellScreen, TypeOK
<1>4. QED
  BY <1>2, <1>3

\* The block of a new state of a call, taken from the main queue.
LEMMA SignalTaken ==
  ASSUME TypeOK, NEW c \in Calls, MainSignal(c)
  PROVE  mainq' \in {Tail(mainq), Append(Tail(mainq), BlockOf("dismiss", c))}
<1>1. Tail(mainq) \in Seq(Block) /\ BlockOf("dismiss", c) \in Block
  BY Blocks DEF TypeOK, MainSignal
<1>2. CASE Head(mainq).sig \in {"busy", "ended"}
  <2>1. mainq' = Tail(mainq) \o << BlockOf("dismiss", c) >>
    BY <1>2 DEF MainSignal
  <2>2. QED
    BY <1>1, <2>1
<1>3. CASE Head(mainq).sig \notin {"busy", "ended"}
  <2>1. mainq' = Tail(mainq) \o << >>
    BY <1>3 DEF MainSignal
  <2>2. QED
    BY <1>1, <2>1
<1>4. QED
  BY <1>2, <1>3

LEMMA DismissedScreens ==
  ASSUME NEW s \in [Calls -> Screen], NEW d \in Calls
  PROVE  /\ Dismiss(s)[d].sig = s[d].sig /\ Dismiss(s)[d].closed = s[d].closed
         /\ Dismiss(s)[d].timer = s[d].timer
         /\ Unmade(s[d]) => Unmade(Dismiss(s)[d])
<1>1. s[d] \in Screen /\ Dismiss(s)[d] = [s[d] EXCEPT !.shown = FALSE]
  BY DEF Dismiss
<1>2. ASSUME NEW x \in Screen, NEW y, y = [x EXCEPT !.shown = FALSE]
      PROVE  /\ y.sig = x.sig /\ y.closed = x.closed /\ y.timer = x.timer
             /\ y.timeout = x.timeout /\ ~y.shown
  BY <1>2 DEF Screen
<1>3. QED
  BY <1>1, <1>2 DEF Unmade

-----------------------------------------------------------------------------
(* What a step gives to the main queue.                                    *)

Fresh(b) ==
  \/ /\ b.op = "incoming" /\ b.c \in Incoming \ offered
     /\ b.c \in offered' /\ sdk[b.c] = "ringing"
  \/ /\ b.op = "signal" /\ sdk[b.c] \in Live /\ Alive(b.c)
     /\ b.sig \in {"answered", "busy", "ended"} /\ b.prev = vc[b.c].sig
     /\ sdk'[b.c] = Stored(b.sig) /\ vc'[b.c].sig = Stored(b.sig)
     /\ UNCHANGED <<req, told, delayed, cur, call, missed>>
  \/ /\ b.op = "update" /\ b.c = cur
     /\ \E c \in Calls : /\ [op |-> "answer", c |-> c] \in req
                        /\ sdk[c] \in Live /\ sdk'[c] = "answered"
  \/ /\ b.op = "dismiss"
     /\ \/ "timeout" \in Features /\ vc[b.c].timeout
        \/ Alive(b.c) /\ sdk[b.c] = "ringing"
        \/ b.c = cur
        \/ [op |-> "make", c |-> b.c] \in req
        \/ \E x \in Waiting : x.op = "signal" /\ x.c = b.c

\* A call whose screen is not made is not alive.
LEMMA Unborn ==
  ASSUME TypeOK, ScreenInv, NEW c \in Calls, vc[c].sig = "idle"
  PROVE  ~Alive(c) /\ cur # c
<1>1. \A i \in DOMAIN mainq : mainq[i] \in Waiting
  BY DEF Waiting
<1>2. QED
  BY <1>1 DEF ScreenInv, Alive, Unmade

Kept == OnceEach' /\ \A b \in Waiting' : b \in Waiting \/ Fresh(b)

LEMMA QueueNext ==
  ASSUME TypeOK, ScreenInv, NewInv, OnceEach, MissedInv, [Next]_vars
  PROVE  Kept
<1> USE DEF Kept
<1>0. /\ mainq \in Seq(Block) /\ cur \in Calls \cup {None} /\ Incoming \subseteq Calls
      /\ sdk \in [Calls -> Signals] /\ vc \in [Calls -> Screen]
  BY DEF TypeOK, Calls
<1>a. ASSUME UNCHANGED mainq PROVE Kept
  BY <1>a DEF OnceEach, Waiting
<1>b. ASSUME NEW b \in Block, mainq' = Append(mainq, b), Fresh(b),
             b.c \in Incoming => \A x \in Waiting : ~Same(x, b)
      PROVE  Kept
  BY <1>b, Given
<1>c. ASSUME NEW c \in Calls, NEW op \in {"dismiss", "update"},
             mainq' = Append(mainq, BlockOf(op, c)), Fresh(BlockOf(op, c))
      PROVE  Kept
  <2>1. BlockOf(op, c) \in Block /\ \A x : ~Same(x, BlockOf(op, c))
    BY Blocks DEF BlockOf, Same
  <2>2. QED
    BY <1>b, <1>c, <2>1
<1>d. ASSUME NEW c \in Calls, mainq # << >>, mainq' = Tail(mainq) PROVE Kept
  BY <1>d, Taken
<1>1. CASE Rests
  BY <1>1, <1>a DEF Rests, others
<1>2. CASE AsksToEnd
  <2>1. ASSUME NEW c \in Calls, "timeout" \in Features, vc[c].timeout,
               mainq' = Append(mainq, BlockOf("dismiss", c))
        PROVE  Kept
    <3>1. Fresh(BlockOf("dismiss", c))
      BY <2>1 DEF Fresh, BlockOf
    <3>2. QED
      BY <1>c, <2>1, <3>1
  <2>2. QED
    BY <1>2, <1>a, <2>1 DEF AsksToEnd
<1>3. CASE AnswersCall
  BY <1>3, <1>a DEF AnswersCall
<1>4. ASSUME NEW c \in Calls, PlaceCall(c) \/ CallToPhone(c) \/ Present(c) PROVE Kept
  BY <1>4, <1>a DEF PlaceCall, CallToPhone, Present
<1>5. ASSUME NEW c \in Calls, IncomingCallWithStringeeClient(c) PROVE Kept
  <2>1. BlockOf("incoming", c) \in Block
    BY Blocks
  <2>2. Fresh(BlockOf("incoming", c))
    BY <1>5 DEF IncomingCallWithStringeeClient, Fresh, BlockOf
  <2>3. \A x \in Waiting : ~Same(x, BlockOf("incoming", c))
    BY <1>5 DEF IncomingCallWithStringeeClient, BlockOf, Same, NewInv
  <2>4. mainq' = Append(mainq, BlockOf("incoming", c))
    BY <1>5 DEF IncomingCallWithStringeeClient
  <2>5. QED
    BY <1>b, <2>1, <2>2, <2>3, <2>4
<1>6. ASSUME NEW c \in Calls, NEW s \in {"answered", "busy", "ended"},
             DidChangeSignalingState(c, s)
      PROVE  Kept
  <2>1. CASE UNCHANGED mainq
    BY <1>a, <2>1
  <2>2. CASE mainq' # mainq
    <3> DEFINE w == [op |-> "signal", c |-> c, sig |-> s, prev |-> vc[c].sig]
    <3>1. PICK b : b = w
      OBVIOUS
    <3>2. /\ b.op = "signal" /\ b.c = c /\ b.sig = s /\ b.prev = vc[c].sig
          /\ b \in Block
      BY <1>0, <3>1 DEF Block, Screen
    <3>3. mainq' = Append(mainq, b) /\ Alive(c) /\ vc' = [vc EXCEPT ![c].sig = Stored(s)]
      BY <1>6, <2>2, <3>1 DEF DidChangeSignalingState
    <3>4. /\ sdk[c] \in Live /\ sdk'[c] = Stored(s)
          /\ UNCHANGED <<req, told, delayed, cur, call, missed>>
      BY <1>0, <1>6 DEF DidChangeSignalingState
    <3>5. vc'[c].sig = Stored(s)
      BY <1>0, <3>3 DEF Screen
    <3>6. Fresh(b)
      BY <3>2, <3>3, <3>4, <3>5 DEF Fresh
    <3>7. ASSUME NEW x \in Waiting, c \in Incoming PROVE ~Same(x, b)
      <4>1. PICK i \in 1..Len(mainq) : x = mainq[i]
        BY <1>0 DEF Waiting
      <4>2. x.op = "signal" /\ x.sig = "ended" /\ x.c = c => sdk[c] = "over"
        BY <3>7, <4>1 DEF MissedInv, EndIsOver
      <4>3. QED
        BY <3>2, <3>4, <4>2 DEF Same, Live
    <3>8. QED
      BY <1>b, <3>2, <3>3, <3>6, <3>7
  <2>3. QED
    BY <2>1, <2>2
<1>7. ASSUME NEW c \in Calls, NEW s \in {"answered", "busy"}, DidHandleOnAnotherDevice(c, s)
      PROVE  Kept
  <2>1. CASE UNCHANGED mainq
    BY <1>a, <2>1
  <2>2. CASE mainq' # mainq
    <3>1. mainq' = Append(mainq, BlockOf("dismiss", c)) /\ Alive(c) /\ sdk[c] = "ringing"
      BY <1>7, <2>2 DEF DidHandleOnAnotherDevice
    <3>2. Fresh(BlockOf("dismiss", c))
      BY <3>1 DEF Fresh, BlockOf
    <3>3. QED
      BY <1>c, <3>1, <3>2
  <2>3. QED
    BY <2>1, <2>2
<1>8. ASSUME NEW c \in Calls, MainQueue(c) PROVE Kept
  <2>1. CASE HandleIncomingCallEvent(c) \/ UpdateAnswerState(c)
    BY <1>d, <2>1 DEF HandleIncomingCallEvent, UpdateAnswerState
  <2>2. CASE MainSignal(c)
    <3>1. /\ mainq # << >> /\ Head(mainq).op = "signal" /\ Head(mainq).c = c
          /\ mainq' \in {Tail(mainq), Append(Tail(mainq), BlockOf("dismiss", c))}
      BY <2>2, SignalTaken DEF MainSignal
    <3>2. /\ Head(mainq) \in Waiting /\ OnceEach'
          /\ Waiting' \subseteq Waiting \cup {BlockOf("dismiss", c)}
      BY <3>1, Taken
    <3>3. Fresh(BlockOf("dismiss", c))
      BY <3>1, <3>2 DEF Fresh, BlockOf
    <3>4. QED
      BY <3>2, <3>3
  <2>3. ASSUME NEW active \in BOOLEAN, EndCallAndDismiss(c, active) PROVE Kept
    BY <1>d, <2>3 DEF EndCallAndDismiss
  <2>4. QED
    BY <1>8, <2>1, <2>2, <2>3 DEF MainQueue
<1>9. ASSUME NEW c \in Calls, Completions(c) PROVE Kept
  <2>1. CASE DismissCompleted(c)
    BY <1>a, <2>1 DEF DismissCompleted
  <2>2. ASSUME NEW op \in {"reject", "hangup"}, EndingCompleted(op, c) PROVE Kept
    <3>1. UNCHANGED mainq \/ (cur \in Calls /\ mainq' = Append(mainq, BlockOf("dismiss", cur)))
      BY <2>2, Told1 DEF EndingCompleted
    <3>2. Fresh(BlockOf("dismiss", cur))
      BY DEF Fresh, BlockOf
    <3>3. QED
      BY <1>a, <1>c, <3>1, <3>2
  <2>3. ASSUME NEW ok \in BOOLEAN, AnswerCompleted(c, ok) PROVE Kept
    <3> PICK op \in {"update", "dismiss"} : op = IF ok THEN "update" ELSE "dismiss"
      OBVIOUS
    <3>1. UNCHANGED mainq \/ (cur \in Calls /\ mainq' = Append(mainq, BlockOf(op, cur)))
      BY <2>3, Told1 DEF AnswerCompleted
    <3>2. op = "update" => /\ [op |-> "answer", c |-> c] \in req
                           /\ sdk[c] \in Live /\ sdk'[c] = "answered"
      BY <1>0, <2>3 DEF AnswerCompleted
    <3>3. Fresh(BlockOf(op, cur))
      BY <3>2 DEF Fresh, BlockOf
    <3>4. QED
      BY <1>a, <1>c, <3>1, <3>3
  <2>4. ASSUME NEW ok \in BOOLEAN, MakeCompleted(c, ok) PROVE Kept
    <3>1. /\ UNCHANGED mainq \/ mainq' = Append(mainq, BlockOf("dismiss", c))
          /\ [op |-> "make", c |-> c] \in req
      BY <2>4 DEF MakeCompleted
    <3>2. Fresh(BlockOf("dismiss", c))
      BY <3>1 DEF Fresh, BlockOf
    <3>3. QED
      BY <1>a, <1>c, <3>1, <3>2
  <2>5. QED
    BY <1>9, <2>1, <2>2, <2>3, <2>4 DEF Completions
<1>10. ASSUME NEW b \in delayed, Close(b) PROVE Kept
  BY <1>10, <1>a DEF Close
<1> HIDE DEF Kept
<1>11. ASSUME NEW c \in Calls, About(c) PROVE Kept
  BY <1>4, <1>5, <1>6, <1>7, <1>8, <1>9, <1>11 DEF About
<1>12. \/ Rests \/ AsksToEnd \/ AnswersCall
       \/ \E c \in Calls : About(c)
       \/ \E b \in delayed : Close(b)
  BY Kinds
<1>13. QED
  BY <1>1, <1>2, <1>3, <1>10, <1>11, <1>12

-----------------------------------------------------------------------------
(* What is new stays so until its beginning.                               *)

\* The screen of c is not made, before and after a step.
Idle(c) ==
  /\ vc[c].sig = "idle" /\ Unmade(vc'[c]) /\ cur' # c
  /\ \A b \in delayed' : b.c # c
  /\ [op |-> "make", c |-> c] \notin req'

LEMMA IdleKept ==
  ASSUME TypeOK, ScreenInv, NEW c \in Calls, vc' = vc, UNCHANGED <<cur, delayed, req>>,
         vc'[c].sig = "idle"
  PROVE  Idle(c)
  BY DEF ScreenInv, Idle

LEMMA IdleNext ==
  ASSUME TypeOK, BeginInv, MissedInv, [Next]_vars, NEW c \in Calls, vc'[c].sig = "idle"
  PROVE  Idle(c)
<1>0. /\ vc \in [Calls -> Screen] /\ cur \in Calls \cup {None} /\ None \notin Calls
      /\ ScreenInv
  BY CallCenterAssumption DEF TypeOK, BeginInv
<1>1. ASSUME Rests PROVE Idle(c)
  BY <1>0, <1>1, IdleKept DEF Rests, others
<1>2. ASSUME AsksToEnd PROVE Idle(c)
  <2>1. vc[c].sig = "idle" /\ UNCHANGED <<vc, cur, delayed>>
    BY <1>2 DEF AsksToEnd
  <2>2. [op |-> "make", c |-> c] \notin req'
    BY <1>0, <1>2, <2>1 DEF AsksToEnd, ScreenInv
  <2>3. QED
    BY <1>0, <2>1, <2>2 DEF ScreenInv, Idle
<1>3. ASSUME AnswersCall PROVE Idle(c)
  <2>1. vc[c].sig = "idle" /\ vc'[c] = vc[c]
    BY <1>0, <1>3 DEF AnswersCall, Screen
  <2>2. [op |-> "make", c |-> c] \notin req'
    BY <1>0, <1>3, <2>1 DEF AnswersCall, ScreenInv
  <2>3. QED
    BY <1>0, <1>3, <2>1, <2>2 DEF AnswersCall, ScreenInv, Idle
<1>4. ASSUME NEW d \in Calls, PlaceCall(d) \/ IncomingCallWithStringeeClient(d) PROVE Idle(c)
  BY <1>0, <1>4, IdleKept DEF PlaceCall, IncomingCallWithStringeeClient
<1>5. ASSUME NEW d \in Calls, cur' = d,
             vc' = [vc EXCEPT ![d] = [NoScreen EXCEPT !.sig = "ringing"]],
             delayed' = delayed \cup
               {[op |-> "present", c |-> d, presented |-> FALSE, again |-> FALSE]},
             UNCHANGED req
      PROVE  Idle(c)
  <2>1. c # d
    BY <1>0, <1>5 DEF NoScreen
  <2>2. QED
    BY <1>0, <1>5, <2>1 DEF ScreenInv, Idle
<1>6. ASSUME NEW d \in Calls, CallToPhone(d) PROVE Idle(c)
  BY <1>5, <1>6 DEF CallToPhone
<1>7. ASSUME NEW d \in Calls, NEW s \in {"answered", "busy", "ended"},
             DidChangeSignalingState(d, s)
      PROVE  Idle(c)
  <2>1. vc[c].sig = "idle" /\ vc'[c] = vc[c]
    BY <1>0, <1>7 DEF DidChangeSignalingState, Stored, Screen
  <2>2. QED
    BY <1>0, <1>7, <2>1 DEF DidChangeSignalingState, ScreenInv, Idle
<1>8. ASSUME NEW d \in Calls, NEW s \in {"answered", "busy"}, DidHandleOnAnotherDevice(d, s)
      PROVE  Idle(c)
  BY <1>0, <1>8, IdleKept DEF DidHandleOnAnotherDevice
<1>9. ASSUME NEW d \in Calls, MainQueue(d) PROVE Idle(c)
  <2>1. CASE HandleIncomingCallEvent(d)
    <3>1. CASE cur # None
      BY <1>0, <2>1, <3>1, IdleKept DEF HandleIncomingCallEvent, ShowCallingVC
    <3>2. CASE cur = None
      BY <1>5, <2>1, <3>2 DEF HandleIncomingCallEvent, ShowCallingVC
    <3>3. QED
      BY <3>1, <3>2
  <2>2. ASSUME vc' = StartTimer(d), UNCHANGED <<cur, delayed, req>> PROVE Idle(c)
    <3>1. vc[c].sig = "idle" /\ vc'[c] = vc[c]
      BY <1>0, <2>2 DEF StartTimer, Screen
    <3>2. QED
      BY <1>0, <2>2, <3>1 DEF ScreenInv, Idle
  <2>3. CASE MainSignal(d)
    BY <1>0, <2>2, <2>3, IdleKept DEF MainSignal
  <2>4. CASE UpdateAnswerState(d)
    BY <2>2, <2>4 DEF UpdateAnswerState
  <2>5. ASSUME NEW active \in BOOLEAN, EndCallAndDismiss(d, active) PROVE Idle(c)
    <3> DEFINE ended == [vc EXCEPT ![d].closed = TRUE, ![d].timer = FALSE,
                                   ![d].timeout = FALSE]
    <3>1. /\ mainq # << >> /\ mainq' = Tail(mainq) /\ Head(mainq) = BlockOf("dismiss", d)
          /\ vc' \in {ended, Dismiss(ended)}
          /\ cur' \in {cur, None}
          /\ delayed' \in {delayed, delayed \cup {Closing(d)}}
          /\ req' \in {req, req \cup Ask("dismiss", d)}
      BY <2>5 DEF EndCallAndDismiss
    <3>2. Head(mainq) \in Waiting
      BY <1>0, <3>1, Taken DEF BeginInv
    <3>3. ended \in [Calls -> Screen] /\ ended[c].sig = vc[c].sig /\ (c # d => ended[c] = vc[c])
      <4>1. ended \in [Calls -> Screen]
        BY <1>0, ScreensUpdates
      <4>2. c # d => ended[c] = vc[c]
        BY <1>0
      <4>3. c = d => ended[c].sig = vc[c].sig
        BY <1>0 DEF Screen
      <4>4. QED
        BY <4>1, <4>2, <4>3
    <3> HIDE DEF ended
    <3>4. vc[c].sig = "idle"
      BY <3>1, <3>3, DismissedScreens
    <3>5. c # d
      <4>1. Head(mainq).c = d /\ Head(mainq).op = "dismiss"
        BY <3>1 DEF BlockOf
      <4>2. QED
        BY <1>0, <3>2, <3>4, <4>1 DEF ScreenInv
    <3>6. Unmade(vc'[c])
      BY <1>0, <3>1, <3>3, <3>4, <3>5, DismissedScreens DEF ScreenInv
    <3>7. Closing(d).c = d /\ [op |-> "make", c |-> c] \notin Ask("dismiss", d)
      BY DEF Closing, Ask
    <3>8. QED
      BY <1>0, <3>1, <3>4, <3>5, <3>6, <3>7 DEF ScreenInv, Idle
  <2>6. QED
    BY <1>9, <2>1, <2>3, <2>4, <2>5 DEF MainQueue
<1>10. ASSUME NEW d \in Calls, Completions(d) PROVE Idle(c)
  <2>1. /\ vc' = vc /\ cur' \in {cur, None} /\ UNCHANGED delayed /\ req' \subseteq req
    BY <1>10 DEF Completions, DismissCompleted, EndingCompleted, AnswerCompleted, MakeCompleted
  <2>2. QED
    BY <1>0, <2>1 DEF ScreenInv, Idle
<1>11. ASSUME NEW d \in Calls, Present(d) PROVE Idle(c)
  <2> DEFINE b == [op |-> "present", c |-> d, presented |-> FALSE, again |-> FALSE]
  <2>1. /\ b \in delayed /\ delayed' \subseteq delayed /\ UNCHANGED cur
        /\ req' \in {req, req \cup Ask("make", d)}
        /\ vc' \in {vc, [vc EXCEPT ![d].shown = TRUE, ![d].timeout = TRUE]}
    BY <1>11 DEF Present
  <2>2. vc[c].sig = "idle"
    BY <1>0, <2>1 DEF Screen
  <2>3. c # d
    BY <1>0, <2>1, <2>2 DEF ScreenInv
  <2>4. vc'[c] = vc[c]
    BY <1>0, <2>1, <2>3
  <2>5. [op |-> "make", c |-> c] \notin Ask("make", d)
    BY <2>3 DEF Ask
  <2>6. QED
    BY <1>0, <2>1, <2>2, <2>4, <2>5 DEF ScreenInv, Idle
<1>12. ASSUME NEW b \in delayed, Close(b) PROVE Idle(c)
  <2>1. /\ vc' \in {vc, Dismiss(vc)} /\ cur' = None /\ delayed' \subseteq delayed
        /\ UNCHANGED req
    BY <1>12 DEF Close
  <2>2. vc[c].sig = "idle" /\ (Unmade(vc[c]) => Unmade(vc'[c]))
    BY <1>0, <2>1, DismissedScreens
  <2>3. QED
    BY <1>0, <2>1, <2>2 DEF ScreenInv, Idle
<1>13. ASSUME NEW d \in Calls, About(d) PROVE Idle(c)
  BY <1>4, <1>6, <1>7, <1>8, <1>9, <1>10, <1>11, <1>13 DEF About
<1>14. QED
  BY <1>1, <1>2, <1>3, <1>12, <1>13, Kinds

LEMMA ScreenNext ==
  ASSUME TypeOK, BeginInv, MissedInv, [Next]_vars
  PROVE  ScreenInv'
<1>0. ScreenInv /\ Kept
  BY QueueNext DEF BeginInv
<1>1. SUFFICES ASSUME NEW c \in Calls, vc'[c].sig = "idle"
               PROVE  Idle(c) /\ \A b \in Waiting' : b.c = c => b.op = "incoming"
  BY DEF ScreenInv, Idle
<1>2. Idle(c)
  BY <1>1, IdleNext
<1>3. \A b \in Waiting : b.c = c => b.op = "incoming"
  BY <1>0, <1>2 DEF Idle, ScreenInv
<1>4. ASSUME NEW b \in Waiting', b.c = c, Fresh(b) PROVE b.op = "incoming"
  <2>1. ~Alive(c) /\ cur # c /\ ~vc[c].timeout
    BY <1>0, <1>2, Unborn DEF Idle, ScreenInv, Unmade
  <2>2. [op |-> "make", c |-> c] \notin req
    BY <1>0, <1>2 DEF Idle, ScreenInv
  <2>3. \A x \in Waiting : x.op = "signal" => x.c # c
    BY <1>3
  <2>4. QED
    BY <1>4, <2>1, <2>2, <2>3 DEF Fresh
<1>5. QED
  BY <1>0, <1>2, <1>3, <1>4 DEF Kept

LEMMA Progress ==
  ASSUME TypeOK, [Next]_vars, NEW c \in Calls
  PROVE  /\ offered \subseteq offered' /\ (c \in offered' => c \in offered \/ sdk[c] = "ringing")
         /\ sdk[c] # "idle" => sdk'[c] # "idle"
<1> DEFINE Goal == /\ offered \subseteq offered'
                   /\ c \in offered' => c \in offered \/ sdk[c] = "ringing"
                   /\ sdk[c] # "idle" => sdk'[c] # "idle"
<1>0. sdk \in [Calls -> Signals]
  BY DEF TypeOK
<1>1. ASSUME UNCHANGED <<offered, sdk>> PROVE Goal
  BY <1>1
<1>2. Rests \/ AsksToEnd \/ AnswersCall => Goal
  BY <1>1 DEF Rests, others, AsksToEnd, AnswersCall
<1>3. ASSUME NEW b \in delayed, Close(b) PROVE Goal
  BY <1>1, <1>3 DEF Close
<1>4. ASSUME NEW d \in Calls, About(d) PROVE Goal
  <2>1. CASE PlaceCall(d) \/ IncomingCallWithStringeeClient(d) \/ CallToPhone(d) \/ Present(d)
    BY <1>0, <2>1 DEF PlaceCall, IncomingCallWithStringeeClient, CallToPhone, Present
  <2>2. ASSUME NEW s \in {"answered", "busy", "ended"},
               DidChangeSignalingState(d, s) \/ DidHandleOnAnotherDevice(d, s)
        PROVE  Goal
    BY <1>0, <2>2 DEF DidChangeSignalingState, Stored, DidHandleOnAnotherDevice
  <2>3. CASE MainQueue(d)
    BY <1>1, <2>3 DEF MainQueue, HandleIncomingCallEvent, MainSignal, UpdateAnswerState,
       EndCallAndDismiss
  <2>4. CASE Completions(d)
    BY <1>0, <2>4 DEF Completions, DismissCompleted, EndingCompleted, AnswerCompleted,
       MakeCompleted
  <2>5. QED
    BY <1>4, <2>1, <2>2, <2>3, <2>4 DEF About
<1>5. Goal
  BY <1>2, <1>3, <1>4, Kinds
<1>6. QED
  BY <1>5

\* Nothing is done for c in a step.
Untouched(c) ==
  /\ vc'[c].sig = "idle" /\ call'.sc # c /\ sdk'[c] # "answered"
  /\ \A r \in req' \cup told' : r.c # c

LEMMA NewNext ==
  ASSUME TypeOK, BeginInv, MissedInv, [Next]_vars
  PROVE  NewInv'
<1>0. /\ vc \in [Calls -> Screen] /\ sdk \in [Calls -> Signals] /\ None \notin Calls
      /\ cur \in Calls \cup {None} /\ mainq \in Seq(Block)
      /\ Incoming \subseteq Calls /\ Incoming \cap Outgoing = {}
      /\ ScreenInv /\ NewInv /\ OnceEach /\ Kept /\ offered \subseteq Incoming
  BY CallCenterAssumption, QueueNext DEF TypeOK, BeginInv, Calls
<1>1. ASSUME NEW b \in Waiting', b.op = "incoming" PROVE b.c \in offered'
  <2>1. CASE b \in Waiting
    BY <1>0, <1>1, <2>1, Progress DEF NewInv
  <2>2. CASE Fresh(b)
    BY <1>1, <2>2 DEF Fresh
  <2>3. QED
    BY <1>0, <2>1, <2>2 DEF Kept
<1>2. ASSUME NEW c \in offered' PROVE sdk'[c] # "idle"
  <2>1. c \in Calls
    BY <1>0, TypeNext DEF TypeOK
  <2>2. QED
    BY <1>0, <2>1, Progress DEF NewInv
<1>3. SUFFICES ASSUME NEW c \in Incoming, New(c)' PROVE Untouched(c)
  BY <1>1, <1>2 DEF NewInv, Untouched
<1>4. New(c)
  <2>1. CASE c \notin offered
    BY <2>1 DEF New
  <2>2. CASE c \in offered
    <3>1. PICK b \in Waiting' : b.op = "incoming" /\ b.c = c
      BY <1>0, <1>3, <2>2, Progress DEF New
    <3>2. b \in Waiting
      BY <1>0, <2>2, <3>1 DEF Kept, Fresh
    <3>3. QED
      BY <3>1, <3>2 DEF New
  <2>3. QED
    BY <2>1, <2>2
<1>5. /\ c \in Calls /\ c \notin Outgoing /\ c # None
      /\ vc[c].sig = "idle" /\ call.sc # c /\ sdk[c] # "answered"
      /\ \A r \in req \cup told : r.c # c
  BY <1>0, <1>4 DEF NewInv
<1>6. /\ ~Alive(c) /\ cur # c
      /\ \A b \in Waiting : b.c = c => b.op = "incoming"
  BY <1>0, <1>5, Unborn DEF ScreenInv
<1>7. \A op : /\ [op |-> op, c |-> c] \notin req
              /\ \A d : d # c => \A r \in Ask(op, d) : r.c # c
  BY <1>5 DEF Ask
<1>8. ASSUME UNCHANGED <<vc, sdk>>, KeepsOrLoses,
             req' \subseteq req, told' \subseteq told
      PROVE  Untouched(c)
  BY <1>5, <1>8 DEF KeepsOrLoses, Untouched
<1>9. ASSUME Rests PROVE Untouched(c)
  BY <1>8, <1>9 DEF Rests, others
<1>10. ASSUME AsksToEnd PROVE Untouched(c)
  BY <1>5, <1>10 DEF AsksToEnd, KeepsOrLoses, Untouched
<1>11. ASSUME AnswersCall PROVE Untouched(c)
  <2>1. vc'[c] = vc[c]
    BY <1>0, <1>5, <1>6, <1>11 DEF AnswersCall
  <2>2. QED
    <3>1. req' = req \/ req' = req \cup {[op |-> "answer", c |-> call.sc]}
      BY <1>11 DEF AnswersCall
    <3>2. UNCHANGED <<sdk, told>> /\ call'.sc = call.sc
      BY <1>11 DEF AnswersCall
    <3>3. \A r \in req' : r.c # c
      BY <1>5, <3>1
    <3>4. QED
      BY <1>5, <2>1, <3>2, <3>3 DEF Untouched
<1>12. ASSUME NEW b \in delayed, Close(b) PROVE Untouched(c)
  <2>1. vc'[c].sig = vc[c].sig
    BY <1>0, <1>5, <1>12, DismissedScreens DEF Close
  <2>2. QED
    BY <1>5, <1>12, <2>1 DEF Close, Untouched
<1>13. ASSUME NEW d \in Calls, PlaceCall(d) \/ IncomingCallWithStringeeClient(d)
       PROVE  Untouched(c)
  BY <1>0, <1>5, <1>13 DEF PlaceCall, IncomingCallWithStringeeClient, Untouched
<1>14. ASSUME NEW d \in Calls, CallToPhone(d) PROVE Untouched(c)
  BY <1>0, <1>5, <1>14 DEF CallToPhone, Untouched
<1>15. ASSUME NEW d \in Calls, NEW s \in {"answered", "busy", "ended"},
              DidChangeSignalingState(d, s)
       PROVE  Untouched(c)
  <2>1. vc'[c] = vc[c]
    BY <1>0, <1>5, <1>6, <1>15 DEF DidChangeSignalingState
  <2>2. sdk'[c] # "answered"
    BY <1>0, <1>5, <1>7, <1>15 DEF DidChangeSignalingState, Stored
  <2>3. QED
    BY <1>5, <1>15, <2>1, <2>2 DEF DidChangeSignalingState, Untouched
<1>16. ASSUME NEW d \in Calls, NEW s \in {"answered", "busy"}, DidHandleOnAnotherDevice(d, s)
       PROVE  Untouched(c)
  BY <1>0, <1>5, <1>16 DEF DidHandleOnAnotherDevice, Untouched
<1>17. ASSUME NEW d \in Calls, HandleIncomingCallEvent(d) PROVE Untouched(c)
  <2>1. /\ mainq # << >> /\ Head(mainq) = BlockOf("incoming", d) /\ mainq' = Tail(mainq)
        /\ Head(mainq).op = "incoming" /\ Head(mainq).c = d /\ UNCHANGED offered
    BY <1>17 DEF HandleIncomingCallEvent, BlockOf
  <2>2. /\ Head(mainq) \in Waiting
        /\ d \in Incoming => \A x \in Waiting' : ~Same(x, Head(mainq))
    BY <1>0, <2>1, Taken
  <2>3. d # c
    BY <1>0, <1>3, <2>1, <2>2 DEF New, Same, NewInv
  <2>4. /\ vc' \in {vc, [vc EXCEPT ![d] = [NoScreen EXCEPT !.sig = "ringing"]]}
        /\ req' = req /\ told' \in {told, told \cup Ask("reject", d)} /\ UNCHANGED sdk
    BY <1>17 DEF HandleIncomingCallEvent, ShowCallingVC
  <2>5. call'.sc = d
    <3>1. NewCall(d, d).sc = d /\ [call EXCEPT !.id = d, !.sc = d].sc = d
      BY DEF NewCall, NoCall, TypeOK, CallRecord
    <3>2. QED
      BY <1>17, <3>1 DEF HandleIncomingCallEvent
  <2>6. vc'[c] = vc[c]
    BY <1>0, <1>5, <2>3, <2>4
  <2>7. QED
    BY <1>5, <1>7, <2>3, <2>4, <2>5, <2>6 DEF Untouched
<1>18. ASSUME NEW d \in Calls,
              MainSignal(d) \/ UpdateAnswerState(d) \/ \E a \in BOOLEAN : EndCallAndDismiss(d, a)
       PROVE  Untouched(c)
  <2>1. mainq # << >> /\ Head(mainq).op # "incoming" /\ Head(mainq).c = d
    <3>1. CASE MainSignal(d)
      BY <3>1 DEF MainSignal
    <3>2. CASE UpdateAnswerState(d)
      BY <3>2 DEF UpdateAnswerState, BlockOf
    <3>3. CASE \E a \in BOOLEAN : EndCallAndDismiss(d, a)
      BY <3>3 DEF EndCallAndDismiss, BlockOf
    <3>4. QED
      BY <1>18, <3>1, <3>2, <3>3
  <2>2. Head(mainq) \in Waiting
    BY <1>0, <2>1 DEF Waiting
  <2>3. d # c
    BY <1>6, <2>1, <2>2
  <2>4. CASE MainSignal(d) \/ UpdateAnswerState(d)
    BY <1>5, <1>0, <2>3, <2>4 DEF MainSignal, UpdateAnswerState, StartTimer, Untouched
  <2>5. ASSUME NEW a \in BOOLEAN, EndCallAndDismiss(d, a) PROVE Untouched(c)
    <3> DEFINE ended == [vc EXCEPT ![d].closed = TRUE, ![d].timer = FALSE,
                                   ![d].timeout = FALSE]
    <3>1. /\ vc' \in {ended, Dismiss(ended)} /\ call'.sc = None
          /\ req' \in {req, req \cup Ask("dismiss", d)} /\ UNCHANGED <<sdk, told>>
      BY <2>5 DEF EndCallAndDismiss, NoCall
    <3>2. ended \in [Calls -> Screen]
      BY <1>0, ScreensUpdates
    <3>3. ended[c] = vc[c]
      BY <1>0, <1>5, <2>3
    <3> HIDE DEF ended
    <3>4. vc'[c].sig = "idle"
      BY <1>5, <3>1, <3>2, <3>3, DismissedScreens
    <3>5. QED
      BY <1>5, <1>7, <2>3, <3>1, <3>4 DEF Untouched
  <2>6. QED
    BY <1>18, <2>4, <2>5
<1>19. ASSUME NEW d \in Calls, Completions(d) PROVE Untouched(c)
  <2>1. CASE DismissCompleted(d)
    BY <1>8, <2>1 DEF KeepsOrLoses, DismissCompleted
  <2>2. ASSUME NEW op \in {"reject", "hangup"}, EndingCompleted(op, d) PROVE Untouched(c)
    BY <1>8, <2>2 DEF KeepsOrLoses, EndingCompleted
  <2>3. ASSUME NEW ok \in BOOLEAN, AnswerCompleted(d, ok) PROVE Untouched(c)
    <3>1. d # c
      BY <1>7, <2>3 DEF AnswerCompleted
    <3>2. QED
      BY <1>0, <1>5, <2>3, <3>1 DEF AnswerCompleted, Untouched
  <2>4. ASSUME NEW ok \in BOOLEAN, MakeCompleted(d, ok) PROVE Untouched(c)
    <3>1. d # c
      BY <1>7, <2>4 DEF MakeCompleted
    <3>2. QED
      BY <1>0, <1>5, <2>4, <3>1 DEF MakeCompleted, NoCall, Untouched
  <2>5. QED
    BY <1>19, <2>1, <2>2, <2>3, <2>4 DEF Completions
<1>20. ASSUME NEW d \in Calls, Present(d) PROVE Untouched(c)
  <2>1. /\ vc' \in {vc, [vc EXCEPT ![d].shown = TRUE, ![d].timeout = TRUE]}
        /\ sdk' \in {sdk, [sdk EXCEPT ![d] = "ringing"]}
        /\ UNCHANGED <<told, call>>
        /\ req' = req \/ (d \in Outgoing /\ req' = req \cup Ask("make", d))
    BY <1>20 DEF Present
  <2>2. vc'[c].sig = vc[c].sig
    BY <1>0, <1>5, <2>1 DEF Screen
  <2>3. sdk'[c] # "answered"
    BY <1>0, <1>5, <2>1
  <2>4. QED
    BY <1>5, <1>7, <2>1, <2>2, <2>3 DEF Untouched
<1>21. ASSUME NEW d \in Calls, About(d) PROVE Untouched(c)
  BY <1>13, <1>14, <1>15, <1>16, <1>17, <1>18, <1>19, <1>20, <1>21 DEF About, MainQueue
<1>22. QED
  BY <1>9, <1>10, <1>11, <1>12, <1>21, Kinds

LEMMA BeginNext ==
  ASSUME TypeOK, BeginInv, MissedInv, [Next]_vars
  PROVE  BeginInv'
  BY QueueNext, ScreenNext, NewNext DEF BeginInv, Kept

LEMMA BeginInit == Init => BeginInv
<1> SUFFICES ASSUME Init PROVE BeginInv
  OBVIOUS
<1>1. /\ Waiting = {} /\ DOMAIN mainq = {} /\ None \notin Calls /\ Incoming \subseteq Calls
  BY CallCenterAssumption DEF Init, Waiting, Calls
<1>2. \A c \in Calls : vc[c] = NoScreen /\ sdk[c] = "idle"
  BY DEF Init
<1>3. QED
  BY <1>1, <1>2 DEF Init, NoCall, NoScreen, BeginInv, ScreenInv, NewInv, OnceEach, Unmade, New

-----------------------------------------------------------------------------
(* A call is answered with consent, and once.                              *)

Answering(c) == [op |-> "answer", c |-> c] \in req \/ sdk[c] = "answered"

\* The call the manager answered keeps its CallKit call; only outgoing calls are
\* made, and the manager knows them for what they are.
ConsentInv ==
  /\ call.sc \in Outgoing => ~call.incoming
  /\ \A c \in Calls : [op |-> "make", c |-> c] \in req => c \in Outgoing
  /\ AnsweredWithConsent

\* With its CallKit call it keeps the session, when nothing interrupts it.
AnswerInv == \A c \in Incoming : call.sc = c /\ Answering(c) => session

LEMMA Consents ==
  AnsweredWithConsent <=>
    \A c \in Incoming : call.sc = c /\ Answering(c) => \E u \in Uuids : kit[u] = "active"
<1>1. \A c \in Incoming : Ask("answer", c) = {[op |-> "answer", c |-> c]}
  BY CallCenterAssumption DEF Ask, Calls
<1>2. QED
  BY <1>1 DEF AnsweredWithConsent, Answering

\* A call CallKit put through stays so, unless the manager loses its call.
LEMMA StaysActive ==
  ASSUME TypeOK, Ledger, [Next]_vars, NEW u \in Uuids, kit[u] = "active"
  PROVE  kit'[u] = "active" \/ call'.sc = None
<1> DEFINE Goal == kit'[u] = "active" \/ call'.sc = None
<1>0. kit \in [Uuids -> KitState] /\ \A r \in reports : r.uuid \in Uuids
  BY DEF TypeOK, Report
<1>1. ASSUME NEW d \in Calls, Environment(d) PROVE Goal
  BY <1>0, <1>1 DEF Environment, PlaceCall, HandleIncomingPushEvent, ReportIncomingCall,
     IncomingCallWithStringeeClient, CallToPhone, DidChangeSignalingState,
     DidHandleOnAnotherDevice, AcceptTapped, DeclineTapped, EndCallTapped
<1>2. ASSUME NEW d \in Calls, MainQueue(d) PROVE Goal
  BY <1>0, <1>2 DEF MainQueue, HandleIncomingCallEvent, ReportIncomingCall, MainSignal,
     UpdateAnswerState, EndCallAndDismiss
<1>3. ASSUME NEW d \in Calls, Completions(d) PROVE Goal
  BY <1>0, <1>3 DEF Completions, DismissCompleted, EndingCompleted, AnswerCompleted,
     MakeCompleted
<1>4. ASSUME NEW d \in Calls, Present(d) \/ CheckCallTimeOut(d) PROVE Goal
  BY <1>4 DEF Present, CheckCallTimeOut
<1>5. ASSUME NEW b \in delayed, Close(b) PROVE Goal
  BY <1>5 DEF Close
<1>6. ASSUME NEW v \in Uuids, CallKit(v) \/ SystemAnswer(v) \/ SystemEnd(v) PROVE Goal
  <2>1. CASE StartRefused(v) \/ PerformStartCallAction(v)
    BY <1>0, <2>1 DEF StartRefused, PerformStartCallAction, Ledger
  <2>2. CASE PerformAnswerCallAction(v)
    BY <1>0, <2>2 DEF PerformAnswerCallAction, AnswerCallWithCondition, Anwser
  <2>3. CASE PerformEndCallAction(v)
    BY <2>3 DEF PerformEndCallAction, NoCall
  <2>4. CASE AnswerActionTimedOut(v) \/ SystemAnswer(v) \/ SystemEnd(v)
    BY <1>0, <2>4 DEF AnswerActionTimedOut, SystemAnswer, SystemEnd
  <2>5. QED
    BY <1>6, <2>1, <2>2, <2>3, <2>4 DEF CallKit
<1>7. ASSUME NEW r \in reports, NEW ok \in BOOLEAN, ReportCompleted(r, ok) PROVE Goal
  BY <1>0, <1>7 DEF ReportCompleted, Ledger
<1>8. CASE DidActivateAudioSession
  BY <1>0, <1>8 DEF DidActivateAudioSession, AnswerCallWithCondition, Anwser
<1>9. CASE DidDeactivateAudioSession \/ UNCHANGED vars
  BY <1>9 DEF DidDeactivateAudioSession, vars
<1>10. QED
  BY <1>1, <1>2, <1>3, <1>4, <1>5, <1>6, <1>7, <1>8, <1>9 DEF Next

\* Without interruptions the session lasts as long as a CallKit call does.
LEMMA SessionLasts ==
  ASSUME "interruption" \notin Features, [Next]_vars, session, NEW u \in Uuids, kit[u] = "active"
  PROVE  session'
<1>1. ASSUME NEW d \in Calls,
             Environment(d) \/ MainQueue(d) \/ Completions(d) \/ Present(d) \/ CheckCallTimeOut(d)
      PROVE  session'
  BY <1>1 DEF Environment, PlaceCall, HandleIncomingPushEvent,
     IncomingCallWithStringeeClient, CallToPhone, DidChangeSignalingState,
     DidHandleOnAnotherDevice, AcceptTapped, DeclineTapped, EndCallTapped,
     MainQueue, HandleIncomingCallEvent, MainSignal, UpdateAnswerState, EndCallAndDismiss,
     Completions, DismissCompleted, EndingCompleted, AnswerCompleted, MakeCompleted,
     Present, CheckCallTimeOut
<1>2. ASSUME NEW b \in delayed, Close(b) PROVE session'
  BY <1>2 DEF Close
<1>3. ASSUME NEW v \in Uuids, CallKit(v) \/ SystemAnswer(v) \/ SystemEnd(v) PROVE session'
  BY <1>3 DEF CallKit, StartRefused, PerformStartCallAction, PerformAnswerCallAction,
     PerformEndCallAction, AnswerActionTimedOut, SystemAnswer, SystemEnd
<1>4. ASSUME NEW r \in reports, NEW ok \in BOOLEAN, ReportCompleted(r, ok) PROVE session'
  BY <1>4 DEF ReportCompleted
<1>5. CASE DidActivateAudioSession \/ DidDeactivateAudioSession \/ UNCHANGED vars
  BY <1>5 DEF DidActivateAudioSession, DidDeactivateAudioSession, vars
<1>6. QED
  BY <1>1, <1>2, <1>3, <1>4, <1>5 DEF Next

\* The manager takes a Stringee call in two places.
LEMMA Adopted ==
  ASSUME TypeOK, [Next]_vars
  PROVE  \/ KeepsOrLoses
         \/ \E c \in Calls : HandleIncomingCallEvent(c) /\ call'.sc = c
         \/ \E c \in Calls : MakeCompleted(c, TRUE) /\ call'.sc = c /\ ~call'.incoming
<1> DEFINE Goal == \/ KeepsOrLoses
                   \/ \E c \in Calls : HandleIncomingCallEvent(c) /\ call'.sc = c
                   \/ \E c \in Calls : /\ MakeCompleted(c, TRUE) /\ call'.sc = c
                                       /\ ~call'.incoming
<1>1. Rests \/ AsksToEnd \/ AnswersCall => Goal
  BY DEF Rests, AsksToEnd, AnswersCall
<1>2. ASSUME NEW b \in delayed, Close(b) PROVE KeepsOrLoses
  BY <1>2 DEF Close, KeepsOrLoses
<1>3. ASSUME NEW c \in Calls, About(c) PROVE Goal
  <2>1. CASE HandleIncomingCallEvent(c)
    <3>1. NewCall(c, c).sc = c /\ [call EXCEPT !.id = c, !.sc = c].sc = c
      BY DEF NewCall, NoCall, TypeOK, CallRecord
    <3>2. call'.sc = c
      BY <2>1, <3>1 DEF HandleIncomingCallEvent
    <3>3. QED
      BY <2>1, <3>2
  <2>2. CASE MainQueue(c) /\ ~HandleIncomingCallEvent(c)
    <3>1. CASE MainSignal(c) \/ UpdateAnswerState(c)
      BY <3>1 DEF MainSignal, UpdateAnswerState, KeepsOrLoses
    <3>2. ASSUME NEW active \in BOOLEAN, EndCallAndDismiss(c, active) PROVE KeepsOrLoses
      BY <3>2 DEF EndCallAndDismiss, NoCall, KeepsOrLoses
    <3>3. QED
      BY <2>2, <3>1, <3>2 DEF MainQueue
  <2>3. CASE MakeCompleted(c, TRUE)
    BY <2>3 DEF MakeCompleted, NoCall, KeepsOrLoses
  <2>4. CASE Completions(c) /\ ~MakeCompleted(c, TRUE)
    BY <2>4 DEF Completions, DismissCompleted, EndingCompleted, AnswerCompleted,
       MakeCompleted, KeepsOrLoses
  <2>5. ASSUME NEW s \in {"answered", "busy", "ended"},
               DidChangeSignalingState(c, s) \/ DidHandleOnAnotherDevice(c, s)
        PROVE  KeepsOrLoses
    BY <2>5 DEF DidChangeSignalingState, DidHandleOnAnotherDevice, KeepsOrLoses
  <2>6. CASE PlaceCall(c) \/ IncomingCallWithStringeeClient(c) \/ CallToPhone(c) \/ Present(c)
    BY <2>6 DEF PlaceCall, IncomingCallWithStringeeClient, CallToPhone, Present, KeepsOrLoses
  <2>7. QED
    BY <1>3, <2>1, <2>2, <2>3, <2>4, <2>5, <2>6 DEF About
<1>4. Goal
  BY <1>1, <1>2, <1>3, Kinds
<1>5. QED
  BY <1>4

\* Only an outgoing call is made, when its screen is presented.
LEMMA Makes ==
  ASSUME TypeOK, [Next]_vars, NEW c \in Calls,
         [op |-> "make", c |-> c] \in req', [op |-> "make", c |-> c] \notin req
  PROVE  c \in Outgoing /\ Present(c)
<1> DEFINE r == [op |-> "make", c |-> c]
<1>1. ASSUME Rests \/ AsksToEnd \/ AnswersCall PROVE FALSE
  BY <1>1 DEF Rests, others, AsksToEnd, AnswersCall
<1>2. ASSUME NEW b \in delayed, Close(b) PROVE FALSE
  BY <1>2 DEF Close
<1>3. ASSUME NEW d \in Calls, About(d) PROVE c \in Outgoing /\ Present(c)
  <2>1. CASE Present(d)
    <3>1. d \in Outgoing /\ req' = req \cup Ask("make", d)
      BY <2>1 DEF Present
    <3>2. c = d
      BY <3>1 DEF Ask
    <3>3. QED
      BY <2>1, <3>1, <3>2
  <2>2. CASE MainQueue(d)
    <3>1. req' \in {req, req \cup Ask("dismiss", d)}
      BY <2>2 DEF MainQueue, HandleIncomingCallEvent, ShowCallingVC, MainSignal,
         UpdateAnswerState, EndCallAndDismiss
    <3>2. QED
      BY <3>1 DEF Ask
  <2>3. CASE Completions(d)
    BY <2>3 DEF Completions, DismissCompleted, EndingCompleted, AnswerCompleted, MakeCompleted
  <2>4. ASSUME NEW s \in {"answered", "busy", "ended"},
               DidChangeSignalingState(d, s) \/ DidHandleOnAnotherDevice(d, s)
        PROVE  FALSE
    BY <2>4 DEF DidChangeSignalingState, DidHandleOnAnotherDevice
  <2>5. CASE PlaceCall(d) \/ IncomingCallWithStringeeClient(d) \/ CallToPhone(d)
    BY <2>5 DEF PlaceCall, IncomingCallWithStringeeClient, CallToPhone
  <2>6. QED
    BY <1>3, <2>1, <2>2, <2>3, <2>4, <2>5 DEF About
<1>4. QED
  BY <1>1, <1>2, <1>3, Kinds

\* A call of the manager that is being answered was so before, or the audio
\* session was just activated: a call is new to the manager only when nothing
\* was done for it yet.
LEMMA AnsweringBegins ==
  ASSUME TypeOK, BeginInv, ConsentInv, [Next]_vars,
         NEW c \in Incoming, call'.sc = c, Answering(c)'
  PROVE  call.sc = c /\ (Answering(c) \/ DidActivateAudioSession)
<1>0. /\ Incoming \subseteq Calls /\ None \notin Calls
      /\ Incoming \cap Outgoing = {}
      /\ mainq \in Seq(Block) /\ NewInv
  BY CallCenterAssumption DEF TypeOK, BeginInv, Calls
<1>1. CASE call.sc # c
  <2>1. HandleIncomingCallEvent(c) \/ MakeCompleted(c, TRUE)
    BY <1>0, <1>1, Adopted DEF KeepsOrLoses
  <2>2. CASE HandleIncomingCallEvent(c)
    <3>1. mainq # << >> /\ Head(mainq).op = "incoming" /\ Head(mainq).c = c
      BY <2>2 DEF HandleIncomingCallEvent, BlockOf
    <3>2. Head(mainq) \in Waiting
      BY <1>0, <3>1 DEF Waiting
    <3>3. New(c) /\ UNCHANGED <<sdk, req>>
      BY <1>0, <2>2, <3>1, <3>2 DEF HandleIncomingCallEvent, ShowCallingVC, New, NewInv
    <3>4. QED
      BY <1>0, <3>3 DEF NewInv, Answering
  <2>3. CASE MakeCompleted(c, TRUE)
    BY <1>0, <2>3 DEF MakeCompleted, ConsentInv
  <2>4. QED
    BY <2>1, <2>2, <2>3
<1>2. CASE call.sc = c /\ ~Answering(c)
  <2>1. [op |-> "answer", c |-> c] \in req' /\ [op |-> "answer", c |-> c] \notin req
    BY <1>2, AnswerIsHeard DEF Answering
  <2>2. Answers(c)
    BY <1>0, <2>1 DEF Answers, Ask
  <2>3. QED
    BY <1>0, <1>2, <2>2, AnswerOnActivation
<1>3. QED
  BY <1>1, <1>2

LEMMA ConsentNext ==
  ASSUME TypeOK, Ledger, BeginInv, ConsentInv, [Next]_vars
  PROVE  ConsentInv'
<1>0. /\ Incoming \subseteq Calls /\ None \notin Calls /\ None \notin Outgoing
      /\ Incoming \cap Outgoing = {}
      /\ mainq \in Seq(Block) /\ offered \subseteq Incoming /\ NewInv
  BY CallCenterAssumption DEF TypeOK, BeginInv, Calls
<1>1. \A c \in Calls : [op |-> "make", c |-> c] \in req' => c \in Outgoing
  BY Makes DEF ConsentInv
<1>2. ASSUME NEW c \in Calls, HandleIncomingCallEvent(c)
      PROVE  c \in Incoming
  <2>1. mainq # << >> /\ Head(mainq).op = "incoming" /\ Head(mainq).c = c
    BY <1>2 DEF HandleIncomingCallEvent, BlockOf
  <2>2. Head(mainq) \in Waiting
    BY <1>0, <2>1 DEF Waiting
  <2>3. QED
    BY <1>0, <2>1, <2>2 DEF NewInv
<1>3. call'.sc \in Outgoing => ~call'.incoming
  BY <1>0, <1>2, Adopted DEF ConsentInv, KeepsOrLoses
<1>4. ASSUME NEW c \in Incoming, call'.sc = c, Answering(c)'
      PROVE  \E u \in Uuids : kit'[u] = "active"
  <2>1. call.sc = c /\ (Answering(c) \/ DidActivateAudioSession)
    BY <1>4, AnsweringBegins
  <2>2. PICK u \in Uuids : kit[u] = "active"
    BY <2>1, Consents DEF ConsentInv, DidActivateAudioSession
  <2>3. QED
    BY <1>0, <1>4, <2>2, StaysActive
<1>5. AnsweredWithConsent'
  <2>1. \A c \in Incoming : Ask("answer", c) = {[op |-> "answer", c |-> c]}
    BY CallCenterAssumption DEF Ask, Calls
  <2>2. QED
    BY <1>4, <2>1 DEF AnsweredWithConsent, Answering, Ask
<1>6. QED
  BY <1>1, <1>3, <1>5 DEF ConsentInv

LEMMA ConsentInit == Init => Ledger /\ MissedInv /\ ConsentInv /\ AnswerInv
<1> SUFFICES ASSUME Init PROVE Ledger /\ MissedInv /\ ConsentInv /\ AnswerInv
  OBVIOUS
<1>1. Ledger /\ MissedInv
  BY DEF Init, Ledger, MissedInv, EndIsOver, MissedIsOver
<1>2. call.sc \notin Calls
  BY CallCenterAssumption DEF Init, NoCall
<1>3. QED
  BY <1>1, <1>2 DEF Init, ConsentInv, AnswerInv, AnsweredWithConsent, Calls

LEMMA ConsentAlways == Spec => [](TypeOK /\ Ledger /\ MissedInv /\ BeginInv /\ ConsentInv)
<1>1. /\ TypeOK /\ Ledger /\ MissedInv /\ BeginInv /\ ConsentInv /\ [Next]_vars
      => (Ledger /\ MissedInv /\ BeginInv /\ ConsentInv)'
  BY LedgerNext, MissedNext, BeginNext, ConsentNext
<1>2. QED
  BY <1>1, ConsentInit, BeginInit, TypeCorrect, PTL DEF Spec

\* Whatever overlaps, fails or is interrupted, a Stringee call the manager has
\* asked to answer, or that is talking, has beside it a live CallKit call that
\* the agent put through: the end of any CallKit call takes the manager's call
\* away (anwser:, CallManager.m 384-413, performEndCallAction:, 553-603).
THEOREM ConsentBeforeAnswer == Spec => []AnsweredWithConsent
<1>1. TypeOK /\ Ledger /\ MissedInv /\ BeginInv /\ ConsentInv => AnsweredWithConsent
  BY DEF ConsentInv
<1>2. QED
  BY <1>1, ConsentAlways, PTL

LEMMA AnswerNext ==
  ASSUME "interruption" \notin Features,
         TypeOK, BeginInv, ConsentInv, AnswerInv, [Next]_vars
  PROVE  AnswerInv'
<1> SUFFICES ASSUME NEW c \in Incoming, call'.sc = c, Answering(c)'
             PROVE  session'
  BY DEF AnswerInv, Answering
<1>1. call.sc = c /\ (Answering(c) \/ DidActivateAudioSession)
  BY AnsweringBegins
<1>2. CASE Answering(c)
  <2>1. session /\ \E u \in Uuids : kit[u] = "active"
    BY <1>1, <1>2, Consents DEF AnswerInv, ConsentInv
  <2>2. QED
    BY <2>1, SessionLasts
<1>3. CASE DidActivateAudioSession
  BY <1>3 DEF DidActivateAudioSession
<1>4. QED
  BY <1>1, <1>2, <1>3

\* While the audio session is not taken from it, the application sends no
\* second answer for a call that is talking, however many CallKit calls there
\* are (anwser:, CallManager.m 384-413).
THEOREM CallIsAnsweredOnce ==
  ASSUME "interruption" \notin Features
  PROVE  Spec => AnsweredOnce
<1>1. TypeOK /\ BeginInv /\ ConsentInv /\ AnswerInv /\ [Next]_vars => AnswerInv'
  BY AnswerNext
<1>2. /\ TypeOK /\ ConsentInv /\ AnswerInv /\ [Next]_vars
      => [\A c \in Calls : Ask("answer", c) \subseteq req' \ req => sdk[c] # "answered"]_vars
  <2> SUFFICES ASSUME TypeOK, ConsentInv, AnswerInv, [Next]_vars, NEW c \in Calls, Answers(c),
                      sdk[c] = "answered"
               PROVE  FALSE
    BY DEF Answers
  <2>1. DidActivateAudioSession
    BY AnswerOnActivation
  <2>2. call.incoming /\ c = call.sc
    <3>1. Ask("answer", c) = {[op |-> "answer", c |-> c]}
      BY CallCenterAssumption DEF Ask
    <3>2. [op |-> "answer", c |-> c] \in req' /\ [op |-> "answer", c |-> c] \notin req
      BY <3>1 DEF Answers
    <3> DEFINE k == [call EXCEPT !.audio = TRUE]
    <3>3. k.sc = call.sc /\ k.incoming = call.incoming
      BY DEF TypeOK, CallRecord
    <3>4. HasCall /\ AnswerCallWithCondition(k, kit)
      BY <2>1, <3>2 DEF DidActivateAudioSession
    <3> HIDE DEF k
    <3>5. k.incoming /\ req' = req \cup Ask("answer", k.sc)
      BY <3>2, <3>4 DEF AnswerCallWithCondition, Anwser
    <3>6. QED
      BY <3>2, <3>3, <3>5 DEF Ask
  <2>3. c \in Incoming
    BY <2>2 DEF ConsentInv, Calls
  <2>4. session
    BY <2>2, <2>3 DEF AnswerInv, Answering
  <2>5. QED
    BY <2>1, <2>4 DEF DidActivateAudioSession
<1>3. QED
  BY <1>1, <1>2, ConsentInit, ConsentAlways, PTL DEF Spec, AnsweredOnce

-----------------------------------------------------------------------------
(* One call at a time.                                                     *)

\* A block that waits for c, a delayed block of c.
Awaits(op, c) == \E b \in Waiting : b.op = op /\ b.c = c
Later(op, c) == \E b \in delayed : b.op = op /\ b.c = c
Asked(op, c) == [op |-> op, c |-> c] \in req

\* Where what the application has to do with c comes from.
Source(c) ==
  /\ sdk'[c] \in Live => sdk[c] \in Live \/ Later("present", c)
  /\ cur' = c => cur = c \/ Awaits("incoming", c)
  /\ call'.sc = c => call.sc = c \/ Awaits("incoming", c) \/ Asked("make", c)
  /\ Asked("make", c)' => Asked("make", c) \/ Later("present", c)
  /\ Asked("answer", c)' => Asked("answer", c) \/ call.sc = c
  /\ Asked("dismiss", c)' => Asked("dismiss", c) \/ Awaits("dismiss", c)
  /\ Later("present", c)' => Later("present", c) \/ Awaits("incoming", c)
  /\ Later("close", c)' => Later("close", c) \/ Awaits("dismiss", c)

LEMMA Sources ==
  ASSUME TypeOK, [Next]_vars, NEW c \in Calls, ~PlaceCall(c), ~CallToPhone(c)
  PROVE  Source(c)
<1>0. /\ sdk \in [Calls -> Signals] /\ mainq \in Seq(Block) /\ c # None
      /\ cur \in Calls \cup {None}
  BY CallCenterAssumption DEF TypeOK
<1> USE DEF Asked, Later
<1>1. ASSUME KeepsOrLoses, UNCHANGED <<cur, sdk, req, delayed>> PROVE Source(c)
  BY <1>0, <1>1 DEF KeepsOrLoses, Source
<1>2. ASSUME Rests PROVE Source(c)
  BY <1>1, <1>2 DEF Rests, others
<1>3. ASSUME AsksToEnd PROVE Source(c)
  BY <1>0, <1>3 DEF AsksToEnd, KeepsOrLoses, Source
<1>4. ASSUME AnswersCall PROVE Source(c)
  BY <1>0, <1>4 DEF AnswersCall, KeepsOrLoses, Source
<1>5. ASSUME NEW b \in delayed, Close(b) PROVE Source(c)
  BY <1>0, <1>5 DEF Close, Source
<1>6. ASSUME NEW d \in Calls, PlaceCall(d) \/ IncomingCallWithStringeeClient(d) PROVE Source(c)
  BY <1>0, <1>6 DEF PlaceCall, IncomingCallWithStringeeClient, Source
<1>7. ASSUME NEW d \in Calls, CallToPhone(d) PROVE Source(c)
  <2>1. d # c
    BY <1>7
  <2>2. QED
    BY <1>0, <1>7, <2>1 DEF CallToPhone, Source
<1>8. ASSUME NEW d \in Calls, NEW s \in {"answered", "busy", "ended"},
             DidChangeSignalingState(d, s) \/ DidHandleOnAnotherDevice(d, s)
      PROVE  Source(c)
  <2>1. sdk'[c] \in Live => sdk[c] \in Live
    BY <1>0, <1>8 DEF DidChangeSignalingState, DidHandleOnAnotherDevice, Live
  <2>2. UNCHANGED <<cur, req, delayed, call>>
    BY <1>8 DEF DidChangeSignalingState, DidHandleOnAnotherDevice
  <2>3. QED
    BY <2>1, <2>2 DEF Source
<1>9. ASSUME NEW d \in Calls, HandleIncomingCallEvent(d) PROVE Source(c)
  <2>1. mainq # << >> /\ Head(mainq).op = "incoming" /\ Head(mainq).c = d
    BY <1>9 DEF HandleIncomingCallEvent, BlockOf
  <2>2. Awaits("incoming", d)
    BY <1>0, <2>1 DEF Awaits, Waiting
  <2>3. call'.sc = c => c = d
    <3>1. NewCall(d, d).sc = d /\ [call EXCEPT !.id = d, !.sc = d].sc = d
      BY DEF NewCall, NoCall, TypeOK, CallRecord
    <3>2. QED
      BY <1>9, <3>1 DEF HandleIncomingCallEvent
  <2>4. /\ UNCHANGED <<sdk, req>> /\ cur' \in {cur, d}
        /\ delayed' \in {delayed, delayed \cup
             {[op |-> "present", c |-> d, presented |-> FALSE, again |-> FALSE]}}
    BY <1>9 DEF HandleIncomingCallEvent, ShowCallingVC
  <2>5. CASE c = d
    BY <2>2, <2>4, <2>5 DEF Source
  <2>6. CASE c # d
    BY <2>3, <2>4, <2>6 DEF Source
  <2>7. QED
    BY <2>5, <2>6
<1>10. ASSUME NEW d \in Calls, MainSignal(d) \/ UpdateAnswerState(d) PROVE Source(c)
  BY <1>10 DEF MainSignal, UpdateAnswerState, Source
<1>11. ASSUME NEW d \in Calls, NEW active \in BOOLEAN, EndCallAndDismiss(d, active)
       PROVE  Source(c)
  <2>1. mainq # << >> /\ Head(mainq).op = "dismiss" /\ Head(mainq).c = d
    BY <1>11 DEF EndCallAndDismiss, BlockOf
  <2>2. Awaits("dismiss", d)
    BY <1>0, <2>1 DEF Awaits, Waiting
  <2>3. /\ UNCHANGED sdk /\ cur' \in {cur, None} /\ call'.sc = None
        /\ req' \in {req, req \cup {[op |-> "dismiss", c |-> d]}}
        /\ delayed' \in {delayed, delayed \cup {Closing(d)}}
    <3>1. Ask("dismiss", d) = {[op |-> "dismiss", c |-> d]}
      BY CallCenterAssumption DEF Ask
    <3>2. QED
      BY <1>11, <3>1 DEF EndCallAndDismiss, NoCall
  <2>4. Closing(d).c = d /\ Closing(d).op = "close"
    BY DEF Closing
  <2>5. CASE c = d
    BY <1>0, <2>2, <2>3, <2>4, <2>5 DEF Source
  <2>6. CASE c # d
    BY <1>0, <2>3, <2>4, <2>6 DEF Source
  <2>7. QED
    BY <2>5, <2>6
<1>12. ASSUME NEW d \in Calls, Completions(d) PROVE Source(c)
  <2>1. CASE DismissCompleted(d)
    BY <1>0, <2>1 DEF DismissCompleted, Source
  <2>2. ASSUME NEW op \in {"reject", "hangup"}, EndingCompleted(op, d) PROVE Source(c)
    BY <2>2 DEF EndingCompleted, Source
  <2>3. ASSUME NEW ok \in BOOLEAN, AnswerCompleted(d, ok) PROVE Source(c)
    <3>1. sdk'[c] \in Live => sdk[c] \in Live
      BY <1>0, <2>3 DEF AnswerCompleted
    <3>2. UNCHANGED <<cur, call, delayed>> /\ req' \subseteq req
      BY <2>3 DEF AnswerCompleted
    <3>3. QED
      BY <3>1, <3>2 DEF Source
  <2>4. ASSUME NEW ok \in BOOLEAN, MakeCompleted(d, ok) PROVE Source(c)
    <3>1. sdk'[c] \in Live => sdk[c] \in Live
      BY <1>0, <2>4 DEF MakeCompleted, Live
    <3>2. /\ UNCHANGED <<cur, delayed>> /\ req' \subseteq req
          /\ call'.sc = c => call.sc = c \/ [op |-> "make", c |-> c] \in req
      BY <2>4 DEF MakeCompleted, NoCall
    <3>3. QED
      BY <3>1, <3>2 DEF Source
  <2>5. QED
    BY <1>12, <2>1, <2>2, <2>3, <2>4 DEF Completions
<1>13. ASSUME NEW d \in Calls, Present(d) PROVE Source(c)
  <2>1. /\ Later("present", d) /\ delayed' \subseteq delayed /\ UNCHANGED <<cur, call>>
        /\ sdk' \in {sdk, [sdk EXCEPT ![d] = "ringing"]}
        /\ req' \in {req, req \cup {[op |-> "make", c |-> d]}}
    <3>1. Ask("make", d) = {[op |-> "make", c |-> d]}
      BY CallCenterAssumption DEF Ask
    <3>2. QED
      BY <1>13, <3>1 DEF Present
  <2>2. CASE c = d
    BY <2>1, <2>2 DEF Source
  <2>3. CASE c # d
    BY <1>0, <2>1, <2>3 DEF Source
  <2>4. QED
    BY <2>2, <2>3
<1>14. ASSUME NEW d \in Calls, About(d) PROVE Source(c)
  BY <1>6, <1>7, <1>8, <1>9, <1>10, <1>11, <1>12, <1>13, <1>14 DEF About, MainQueue
<1>15. QED
  BY <1>2, <1>3, <1>4, <1>5, <1>14, Kinds

\* Without a call the manager has no Stringee call.
ManagerInv == call.id = None => call.sc = None

LEMMA ManagerNext ==
  ASSUME TypeOK, ManagerInv, [Next]_vars
  PROVE  ManagerInv'
<1> DEFINE Same3(k) == k.id = call.id /\ k.sc = call.sc
<1>0. call \in CallRecord /\ None \notin Calls
  BY CallCenterAssumption DEF TypeOK
<1>1. ASSUME call' = call \/ call' = NoCall \/ Same3(call') PROVE ManagerInv'
  BY <1>1 DEF ManagerInv, NoCall
<1>2. ASSUME NEW k \in CallRecord, NEW kitNow, Same3(k), AnswerCallWithCondition(k, kitNow)
      PROVE  ManagerInv'
  <2>1. Same3(call')
    BY <1>2 DEF AnswerCallWithCondition, Anwser, CallRecord
  <2>2. QED
    BY <1>1, <2>1
<1>3. ASSUME NEW d \in Calls, Environment(d) PROVE ManagerInv'
  <2>1. CASE HandleIncomingPushEvent(d)
    <3>1. NewCall(d, None).id = d
      BY DEF NewCall, NoCall
    <3>2. QED
      BY <1>0, <1>1, <2>1, <3>1 DEF HandleIncomingPushEvent, ManagerInv
  <2>2. QED
    BY <1>1, <1>3, <2>1 DEF Environment, PlaceCall,
       IncomingCallWithStringeeClient, CallToPhone, DidChangeSignalingState,
       DidHandleOnAnotherDevice, AcceptTapped, DeclineTapped, EndCallTapped
<1>4. ASSUME NEW d \in Calls, MainQueue(d) PROVE ManagerInv'
  <2>1. CASE HandleIncomingCallEvent(d)
    <3>1. NewCall(d, d).id = d /\ [call EXCEPT !.id = d, !.sc = d].id = d
      BY <1>0 DEF NewCall, NoCall, CallRecord
    <3>2. QED
      BY <1>0, <2>1, <3>1 DEF HandleIncomingCallEvent, ManagerInv
  <2>2. QED
    BY <1>1, <1>4, <2>1 DEF MainQueue, MainSignal, UpdateAnswerState, EndCallAndDismiss
<1>5. ASSUME NEW d \in Calls, Completions(d) PROVE ManagerInv'
  <2>1. \A u \in Uuids : [NoCall EXCEPT !.id = d, !.sc = d, !.uuid = u].id = d
    BY DEF NoCall
  <2>2. ASSUME NEW ok \in BOOLEAN, MakeCompleted(d, ok) PROVE ManagerInv'
    BY <1>0, <1>1, <2>1, <2>2 DEF MakeCompleted, ManagerInv
  <2>3. QED
    BY <1>1, <1>5, <2>2 DEF Completions, DismissCompleted, EndingCompleted, AnswerCompleted
<1>6. ASSUME NEW d \in Calls, Present(d) \/ CheckCallTimeOut(d) PROVE ManagerInv'
  BY <1>1, <1>6 DEF Present, CheckCallTimeOut
<1>7. ASSUME NEW b \in delayed, Close(b) PROVE ManagerInv'
  BY <1>1, <1>7 DEF Close
<1>8. ASSUME NEW u \in Uuids, CallKit(u) \/ SystemAnswer(u) \/ SystemEnd(u) PROVE ManagerInv'
  <2>1. CASE PerformAnswerCallAction(u)
    <3> DEFINE k == [call EXCEPT !.answered = TRUE, !.answerAction = u]
               answering == [kit EXCEPT ![u] = "answering"]
    <3>1. k \in CallRecord /\ Same3(k)
      BY <1>0, CallUpdates DEF CallRecord
    <3>2. HasCall => AnswerCallWithCondition(k, answering)
      BY <2>1 DEF PerformAnswerCallAction
    <3>3. ~HasCall => call' = call
      BY <2>1 DEF PerformAnswerCallAction
    <3> HIDE DEF k, answering
    <3>4. QED
      BY <1>1, <1>2, <3>1, <3>2, <3>3
  <2>2. QED
    BY <1>1, <1>8, <2>1 DEF CallKit, StartRefused, PerformStartCallAction,
       PerformEndCallAction, AnswerActionTimedOut, SystemAnswer, SystemEnd
<1>9. ASSUME NEW r \in reports, NEW ok \in BOOLEAN, ReportCompleted(r, ok) PROVE ManagerInv'
  BY <1>0, <1>1, <1>9 DEF ReportCompleted, CallRecord
<1>10. CASE DidActivateAudioSession
  <2> DEFINE k == [call EXCEPT !.audio = TRUE]
  <2>1. k \in CallRecord /\ Same3(k)
    BY <1>0, CallUpdates DEF CallRecord
  <2>2. HasCall => AnswerCallWithCondition(k, kit)
    BY <1>10 DEF DidActivateAudioSession
  <2>3. ~HasCall => call' = call
    BY <1>10 DEF DidActivateAudioSession
  <2> HIDE DEF k
  <2>4. QED
    BY <1>1, <1>2, <2>1, <2>2, <2>3
<1>11. CASE DidDeactivateAudioSession \/ UNCHANGED vars
  BY <1>0, <1>1, <1>11 DEF DidDeactivateAudioSession, CallRecord, vars
<1>12. QED
  BY <1>3, <1>4, <1>5, <1>6, <1>7, <1>8, <1>9, <1>10, <1>11 DEF Next

\* What the application still has to do with a call.
Around(c) ==
  \/ sdk[c] \in Live \/ cur = c \/ call.sc = c
  \/ \E op \in {"incoming", "signal", "update"} : Awaits(op, c)
  \/ Asked("make", c) \/ Asked("answer", c) \/ Later("present", c)

AroundScreen(c) ==
  Around(c) \/ Awaits("dismiss", c) \/ Later("close", c) \/ Asked("dismiss", c)

SoleInv == ManagerInv /\ \A c, d \in Calls : Around(c) /\ Around(d) => c = d

Begins(c) == PlaceCall(c) \/ CallToPhone(c)

\* A call begins only when nothing is left to be done with another one.
LEMMA Alone ==
  ASSUME TypeOK, ManagerInv, "overlap" \notin Features, NEW c \in Calls, Begins(c),
         NEW d \in Calls
  PROVE  ~AroundScreen(d)
<1>1. AtRest /\ sdk[d] \notin Live
  BY DEF Begins, PlaceCall, CallToPhone, Quiet
<1>2. call.sc = None /\ d # None /\ Waiting = {}
  BY <1>1, CallCenterAssumption DEF AtRest, HasCall, ManagerInv, Waiting
<1>3. QED
  BY <1>1, <1>2 DEF AtRest, Around, AroundScreen, Awaits, Asked, Later

LEMMA OneBegins ==
  ASSUME TypeOK, "overlap" \notin Features, NEW c \in Calls, Begins(c),
         NEW d \in Calls, Begins(d)
  PROVE  c = d
<1>1. cur = None /\ None \notin Calls /\ sdk \in [Calls -> Signals] /\ sdk[d] \notin Live
  BY CallCenterAssumption DEF Begins, PlaceCall, CallToPhone, Quiet, AtRest, TypeOK
<1>2. CASE PlaceCall(c)
  <2>1. cur' = None /\ (c # d => sdk'[d] = sdk[d])
    BY <1>1, <1>2 DEF PlaceCall
  <2>2. QED
    BY <1>1, <2>1 DEF Begins, PlaceCall, CallToPhone, Live
<1>3. CASE CallToPhone(c)
  <2>1. cur' = c /\ sdk' = sdk
    BY <1>3 DEF CallToPhone
  <2>2. QED
    BY <1>1, <2>1 DEF Begins, PlaceCall, CallToPhone
<1>4. QED
  BY <1>2, <1>3 DEF Begins

LEMMA Remains ==
  ASSUME TypeOK, BeginInv, MissedInv, [Next]_vars, NEW c \in Calls, ~Begins(c), Around(c)'
  PROVE  Around(c)
<1>1. Source(c) /\ Kept
  BY Sources, QueueNext DEF BeginInv, Begins
<1>2. ASSUME NEW b \in Waiting', b.op # "dismiss", b.c = c PROVE Around(c)
  <2>1. CASE b \in Waiting
    <3>1. b \in Block
      BY <2>1 DEF Waiting, TypeOK
    <3>2. QED
      BY <1>2, <2>1, <3>1 DEF Around, Awaits, Block
  <2>2. CASE Fresh(b)
    BY <1>2, <2>2 DEF Fresh, Around, Live
  <2>3. QED
    BY <1>1, <2>1, <2>2 DEF Kept
<1>3. \A op \in {"incoming", "signal", "update"} : Awaits(op, c)' => Around(c)
  BY <1>2 DEF Awaits
<1>4. QED
  BY <1>1, <1>3 DEF Source, Around

LEMMA SoleNext ==
  ASSUME "overlap" \notin Features, TypeOK, BeginInv, MissedInv, SoleInv, [Next]_vars
  PROVE  SoleInv'
<1>1. ASSUME NEW c \in Calls, Begins(c), NEW d \in Calls, Around(d)'
      PROVE  d = c
  <2>1. ~Around(d)
    BY <1>1, Alone DEF SoleInv, AroundScreen
  <2>2. Begins(d)
    BY <1>1, <2>1, Remains
  <2>3. QED
    BY <1>1, <2>2, OneBegins
<1>2. CASE \E c \in Calls : Begins(c)
  BY <1>1, <1>2, ManagerNext DEF SoleInv
<1>3. CASE \A c \in Calls : ~Begins(c)
  BY <1>3, Remains, ManagerNext DEF SoleInv
<1>4. QED
  BY <1>2, <1>3

LEMMA MissedInit == Init => MissedInv
  BY DEF Init, MissedInv, EndIsOver, MissedIsOver

LEMMA BeginAlways == Spec => [](TypeOK /\ MissedInv /\ BeginInv)
<1>1. TypeOK /\ MissedInv /\ BeginInv /\ [Next]_vars => (MissedInv /\ BeginInv)'
  BY MissedNext, BeginNext
<1>2. QED
  BY <1>1, MissedInit, BeginInit, TypeCorrect, PTL DEF Spec

LEMMA SoleAlways == ASSUME "overlap" \notin Features PROVE Spec => []SoleInv
<1>1. ASSUME Init PROVE SoleInv
  <2>1. ManagerInv /\ \A c \in Calls : ~Around(c)
    BY <1>1, CallCenterAssumption
       DEF Init, NoCall, ManagerInv, Around, Awaits, Waiting, Asked, Later, Live
  <2>2. QED
    BY <2>1 DEF SoleInv
<1>2. TypeOK /\ MissedInv /\ BeginInv /\ SoleInv /\ [Next]_vars => SoleInv'
  BY SoleNext
<1>3. QED
  BY <1>1, <1>2, BeginAlways, PTL DEF Spec

-----------------------------------------------------------------------------
(* Rejected calls.                                                         *)

\* The end of c, or that c was put through, is still to be handled.
Said(c, s) == \E b \in Waiting : b.op = "signal" /\ b.c = c /\ b.sig = s

\* A rejection is remembered until the end of its call was handled.
RejectInv ==
  \A c \in Incoming : [op |-> "reject", c |-> c] \in told =>
    rejected \/ (sdk[c] = "over" /\ ~Said(c, "ended"))

\* CallManager.rejected is reset where the end of a call is handled.
HandlesEnd(c) == MainSignal(c) /\ Head(mainq).sig = "ended"

LEMMA RejectSteps ==
  ASSUME TypeOK, [Next]_vars
  PROVE  /\ rejected => rejected' \/ \E c \in Calls : HandlesEnd(c)
         /\ missed' = missed \/ \E c \in Calls :
              HandlesEnd(c) /\ ~rejected /\ missed' = missed \cup {c}
         /\ \A c \in Calls : [op |-> "reject", c |-> c] \in told' \ told =>
              rejected' \/ (HandleIncomingCallEvent(c) /\ cur # None)
<1> DEFINE Goal ==
      /\ rejected => rejected' \/ \E c \in Calls : HandlesEnd(c)
      /\ missed' = missed \/ \E c \in Calls :
           HandlesEnd(c) /\ ~rejected /\ missed' = missed \cup {c}
      /\ \A c \in Calls : [op |-> "reject", c |-> c] \in told' \ told =>
           rejected' \/ (HandleIncomingCallEvent(c) /\ cur # None)
<1>1. ASSUME UNCHANGED <<missed, told>>, rejected => rejected' PROVE Goal
  BY <1>1
<1>2. ASSUME Rests \/ AsksToEnd \/ AnswersCall PROVE Goal
  BY <1>2 DEF Rests, others, AsksToEnd, AnswersCall
<1>3. ASSUME NEW b \in delayed, Close(b) PROVE Goal
  BY <1>1, <1>3 DEF Close
<1>4. ASSUME NEW d \in Calls, About(d) PROVE Goal
  <2>1. CASE PlaceCall(d) \/ IncomingCallWithStringeeClient(d) \/ CallToPhone(d) \/ Present(d)
    BY <1>1, <2>1 DEF PlaceCall, IncomingCallWithStringeeClient, CallToPhone, Present
  <2>2. ASSUME NEW s \in {"answered", "busy", "ended"},
               DidChangeSignalingState(d, s) \/ DidHandleOnAnotherDevice(d, s)
        PROVE  Goal
    BY <1>1, <2>2 DEF DidChangeSignalingState, DidHandleOnAnotherDevice
  <2>3. CASE Completions(d)
    BY <1>1, <2>3 DEF Completions, DismissCompleted, EndingCompleted, AnswerCompleted,
       MakeCompleted
  <2>4. CASE HandleIncomingCallEvent(d)
    <3>1. UNCHANGED <<missed, rejected>>
      BY <2>4 DEF HandleIncomingCallEvent
    <3>2. told' = told \/ (cur # None /\ told' = told \cup Ask("reject", d))
      BY <2>4 DEF HandleIncomingCallEvent, ShowCallingVC
    <3>3. QED
      BY <2>4, <3>1, <3>2 DEF Ask
  <2>5. CASE MainSignal(d)
    <3>1. UNCHANGED told
      BY <2>5 DEF MainSignal
    <3>2. CASE Head(mainq).sig = "ended"
      BY <2>5, <3>1, <3>2 DEF MainSignal, HandlesEnd
    <3>3. CASE Head(mainq).sig # "ended"
      BY <2>5, <3>1, <3>3 DEF MainSignal
    <3>4. QED
      BY <3>2, <3>3
  <2>6. CASE UpdateAnswerState(d) \/ \E active \in BOOLEAN : EndCallAndDismiss(d, active)
    BY <1>1, <2>6 DEF UpdateAnswerState, EndCallAndDismiss
  <2>7. QED
    BY <1>4, <2>1, <2>2, <2>3, <2>4, <2>5, <2>6 DEF About, MainQueue
<1>5. Goal
  BY <1>2, <1>3, <1>4, Kinds
<1>6. QED
  BY <1>5

\* Handling the end of a call.
LEMMA EndHandled ==
  ASSUME TypeOK, BeginInv, MissedInv, NEW c \in Calls, HandlesEnd(c)
  PROVE  /\ Said(c, "ended")
         /\ c \in Incoming => ~Said(c, "ended")' /\ sdk[c] = "over"
<1>1. /\ mainq # << >> /\ Head(mainq).op = "signal" /\ Head(mainq).c = c
      /\ Head(mainq).sig = "ended" /\ mainq \in Seq(Block)
      /\ mainq' \in {Tail(mainq), Append(Tail(mainq), BlockOf("dismiss", c))}
  BY SignalTaken DEF HandlesEnd, MainSignal, TypeOK
<1>2. /\ Head(mainq) \in Waiting
      /\ c \in Incoming => \A x \in Waiting' : ~Same(x, Head(mainq))
  BY <1>1, Taken DEF BeginInv
<1>3. Said(c, "ended")
  BY <1>1, <1>2 DEF Said
<1>4. c \in Incoming => ~Said(c, "ended")'
  BY <1>1, <1>2 DEF Said, Same
<1>5. c \in Incoming => sdk[c] = "over"
  <2>1. 1 \in 1..Len(mainq) /\ Head(mainq) = mainq[1]
    BY <1>1
  <2>2. QED
    BY <1>1, <2>1 DEF MissedInv, EndIsOver
<1>6. QED
  BY <1>3, <1>4, <1>5

LEMMA RejectNext ==
  ASSUME TypeOK, BeginInv, MissedInv, SoleInv, RejectInv, [Next]_vars
  PROVE  RejectInv'
<1>0. /\ Incoming \subseteq Calls /\ None \notin Calls /\ Lasting /\ Kept
      /\ sdk \in [Calls -> Signals] /\ mainq \in Seq(Block) /\ cur \in Calls \cup {None}
      /\ NewInv /\ ScreenInv
  BY CallCenterAssumption, OverLasts, QueueNext DEF TypeOK, Calls, BeginInv
<1>1. SUFFICES ASSUME NEW c \in Incoming, [op |-> "reject", c |-> c] \in told', ~rejected'
               PROVE  sdk'[c] = "over" /\ ~Said(c, "ended")'
  BY DEF RejectInv
<1>2. ASSUME sdk[c] = "over", ~Said(c, "ended") PROVE sdk'[c] = "over" /\ ~Said(c, "ended")'
  <2>1. \A b \in Waiting' : Fresh(b) /\ b.c = c => b.op # "signal"
    BY <1>2 DEF Fresh, Live
  <2>2. QED
    BY <1>0, <1>2, <2>1 DEF Kept, Said, Lasting
<1>3. CASE [op |-> "reject", c |-> c] \notin told
  <2>1. HandleIncomingCallEvent(c) /\ cur # None
    BY <1>0, <1>1, <1>3, RejectSteps
  <2>2. Head(mainq).op = "incoming" /\ Head(mainq).c = c /\ Head(mainq) \in Waiting
    BY <1>0, <2>1 DEF HandleIncomingCallEvent, BlockOf, Waiting
  <2>3. Around(c) /\ Around(cur) /\ cur \in Calls /\ c \in Calls
    BY <1>0, <2>1, <2>2 DEF Around, Awaits
  <2>4. cur # c
    BY <1>0, <2>2 DEF New, NewInv, ScreenInv
  <2>5. QED
    BY <2>3, <2>4 DEF SoleInv
<1>4. CASE [op |-> "reject", c |-> c] \in told /\ rejected
  <2>1. PICK d \in Calls : HandlesEnd(d)
    BY <1>1, <1>4, RejectSteps
  <2>2. CASE d = c
    BY <1>0, <2>1, <2>2, EndHandled DEF Lasting
  <2>3. CASE d # c
    <3>1. Around(d)
      BY <2>1, EndHandled DEF Said, Around, Awaits
    <3>2. ~Around(c)
      BY <1>0, <2>3, <3>1 DEF SoleInv
    <3>3. sdk[c] # "idle"
      BY <1>0, <1>4 DEF NewInv, New
    <3>4. sdk[c] = "over"
      BY <1>0, <3>2, <3>3 DEF Around, Live, Signals
    <3>5. ~Said(c, "ended")
      BY <3>2 DEF Around, Awaits, Said
    <3>6. QED
      BY <1>2, <3>4, <3>5
  <2>4. QED
    BY <2>2, <2>3
<1>5. QED
  BY <1>2, <1>3, <1>4 DEF RejectInv

\* A call the agent rejected is never reported to the agent as missed, when a
\* call begins only after nothing is left of the one before: a single flag,
\* CallManager.rejected, then tells of which call it speaks
\* (didChangeSignalingState:, CallingViewController.m 827-832).
THEOREM RejectedNotReported ==
  ASSUME "overlap" \notin Features
  PROVE  Spec => RejectedIsNotMissed
<1>1. Init => RejectInv
  BY DEF Init, RejectInv
<1>2. TypeOK /\ MissedInv /\ BeginInv /\ SoleInv /\ RejectInv /\ [Next]_vars => RejectInv'
  BY RejectNext
<1>3. /\ TypeOK /\ MissedInv /\ BeginInv /\ RejectInv /\ MissedInv' /\ [Next]_vars
      => [\A c \in missed' \ missed : Ask("reject", c) \cap told = {}]_vars
  <2> SUFFICES ASSUME TypeOK, MissedInv, BeginInv, RejectInv, MissedInv', [Next]_vars,
                      NEW c \in missed' \ missed
               PROVE  Ask("reject", c) \cap told = {}
    OBVIOUS
  <2>1. c \in Incoming /\ c \in Calls
    BY DEF MissedInv, EndIsOver, Calls
  <2>2. HandlesEnd(c) /\ ~rejected
    BY RejectSteps
  <2>3. [op |-> "reject", c |-> c] \notin told
    BY <2>1, <2>2, EndHandled DEF RejectInv
  <2>4. QED
    BY <2>3 DEF Ask
<1>4. QED
  BY <1>1, <1>2, <1>3, BeginAlways, SoleAlways, PTL DEF Spec, RejectedIsNotMissed

-----------------------------------------------------------------------------
(* Talking time.                                                           *)

\* The screen of c counts talking time, or was told to.
Counting(c) == vc[c].timer \/ Said(c, "answered") \/ Awaits("update", c)

\* An outgoing call exists for Stringee only when its screen was made and
\* presented.
PresentInv ==
  /\ \A b \in delayed : b.op = "present" => ~b.presented /\ ~b.again
  /\ \A c \in Outgoing :
       /\ sdk[c] # "idle" => vc[c].sig # "idle"
       /\ Asked("make", c) => sdk[c] # "idle"
       /\ Later("present", c) => sdk[c] = "idle"

CountInv == PresentInv /\ \A c \in Calls : Counting(c) => sdk[c] \in {"answered", "over"}

\* What a step does to the state of a Stringee call.
LEMMA SdkSteps ==
  ASSUME TypeOK, [Next]_vars, NEW c \in Calls, sdk'[c] # sdk[c]
  PROVE  \/ sdk[c] = "idle" /\ PlaceCall(c)
         \/ Present(c) /\ c \in Outgoing
         \/ sdk[c] \in Live /\ sdk'[c] \in {"answered", "over"}
         \/ Asked("make", c) /\ sdk'[c] = "over"
<1> DEFINE Goal == \/ sdk[c] = "idle" /\ PlaceCall(c)
                   \/ Present(c) /\ c \in Outgoing
                   \/ sdk[c] \in Live /\ sdk'[c] \in {"answered", "over"}
                   \/ Asked("make", c) /\ sdk'[c] = "over"
<1>0. sdk \in [Calls -> Signals]
  BY DEF TypeOK
<1>1. ASSUME Rests \/ AsksToEnd \/ AnswersCall PROVE FALSE
  BY <1>1 DEF Rests, others, AsksToEnd, AnswersCall
<1>2. ASSUME NEW b \in delayed, Close(b) PROVE FALSE
  BY <1>2 DEF Close
<1>3. ASSUME NEW d \in Calls, About(d) PROVE Goal
  <2>1. CASE PlaceCall(d)
    BY <1>0, <2>1 DEF PlaceCall
  <2>2. CASE Present(d)
    BY <1>0, <2>2 DEF Present
  <2>3. CASE IncomingCallWithStringeeClient(d) \/ CallToPhone(d)
    BY <2>3 DEF IncomingCallWithStringeeClient, CallToPhone
  <2>4. ASSUME NEW s \in {"answered", "busy", "ended"},
               DidChangeSignalingState(d, s) \/ DidHandleOnAnotherDevice(d, s)
        PROVE  Goal
    BY <1>0, <2>4 DEF DidChangeSignalingState, DidHandleOnAnotherDevice, Stored, Live
  <2>5. CASE MainQueue(d)
    BY <2>5 DEF MainQueue, HandleIncomingCallEvent, MainSignal, UpdateAnswerState,
       EndCallAndDismiss
  <2>6. CASE Completions(d)
    BY <1>0, <2>6 DEF Completions, DismissCompleted, EndingCompleted, AnswerCompleted,
       MakeCompleted, Asked
  <2>7. QED
    BY <1>3, <2>1, <2>2, <2>3, <2>4, <2>5, <2>6 DEF About
<1>4. Goal
  BY <1>1, <1>2, <1>3, Kinds
<1>5. QED
  BY <1>4

\* What a step does to the delayed presentations.
LEMMA PresentSteps ==
  ASSUME TypeOK, [Next]_vars, NEW b \in delayed', b.op = "present"
  PROVE  \/ b \in delayed
         \/ \E c \in Calls :
              /\ HandleIncomingCallEvent(c) \/ CallToPhone(c)
              /\ b = [op |-> "present", c |-> c, presented |-> FALSE, again |-> FALSE]
<1> DEFINE Goal ==
      \/ b \in delayed
      \/ \E c \in Calls :
           /\ HandleIncomingCallEvent(c) \/ CallToPhone(c)
           /\ b = [op |-> "present", c |-> c, presented |-> FALSE, again |-> FALSE]
<1>1. ASSUME Rests \/ AsksToEnd \/ AnswersCall PROVE Goal
  BY <1>1 DEF Rests, others, AsksToEnd, AnswersCall
<1>2. ASSUME NEW x \in delayed, Close(x) PROVE Goal
  BY <1>2 DEF Close
<1>3. ASSUME NEW d \in Calls, About(d) PROVE Goal
  <2>1. CASE PlaceCall(d) \/ IncomingCallWithStringeeClient(d) \/ Present(d)
    BY <2>1 DEF PlaceCall, IncomingCallWithStringeeClient, Present
  <2>2. CASE CallToPhone(d)
    BY <2>2 DEF CallToPhone
  <2>3. ASSUME NEW s \in {"answered", "busy", "ended"},
               DidChangeSignalingState(d, s) \/ DidHandleOnAnotherDevice(d, s)
        PROVE  Goal
    BY <2>3 DEF DidChangeSignalingState, DidHandleOnAnotherDevice
  <2>4. CASE HandleIncomingCallEvent(d)
    BY <2>4 DEF HandleIncomingCallEvent, ShowCallingVC
  <2>5. CASE MainSignal(d) \/ UpdateAnswerState(d)
    BY <2>5 DEF MainSignal, UpdateAnswerState
  <2>6. ASSUME NEW active \in BOOLEAN, EndCallAndDismiss(d, active) PROVE Goal
    <3>1. Closing(d).op = "close"
      BY DEF Closing
    <3>2. QED
      BY <2>6, <3>1 DEF EndCallAndDismiss
  <2>7. CASE Completions(d)
    BY <2>7 DEF Completions, DismissCompleted, EndingCompleted, AnswerCompleted, MakeCompleted
  <2>8. QED
    BY <1>3, <2>1, <2>2, <2>3, <2>4, <2>5, <2>6, <2>7 DEF About, MainQueue
<1>4. Goal
  BY <1>1, <1>2, <1>3, Kinds
<1>5. QED
  BY <1>4

\* A screen starts counting when it was told to.
LEMMA TimerSteps ==
  ASSUME TypeOK, [Next]_vars, NEW c \in Calls, vc'[c].timer, ~vc[c].timer
  PROVE  Said(c, "answered") \/ Awaits("update", c)
<1> DEFINE Goal == Said(c, "answered") \/ Awaits("update", c)
<1>0. vc \in [Calls -> Screen] /\ mainq \in Seq(Block)
  BY DEF TypeOK
<1>1. ASSUME Rests \/ AsksToEnd PROVE FALSE
  BY <1>1 DEF Rests, others, AsksToEnd
<1>2. ASSUME AnswersCall PROVE FALSE
  BY <1>0, <1>2 DEF AnswersCall, Screen
<1>3. ASSUME NEW b \in delayed, Close(b) PROVE FALSE
  BY <1>0, <1>3, DismissedScreens DEF Close
<1>4. ASSUME NEW d \in Calls, About(d) PROVE Goal
  <2>1. ASSUME UNCHANGED vc PROVE FALSE
    BY <2>1
  <2>2. ASSUME vc' = [vc EXCEPT ![d] = [NoScreen EXCEPT !.sig = "ringing"]] PROVE FALSE
    BY <1>0, <2>2 DEF NoScreen
  <2>3. CASE PlaceCall(d) \/ IncomingCallWithStringeeClient(d) \/ CallToPhone(d)
    BY <2>1, <2>2, <2>3 DEF PlaceCall, IncomingCallWithStringeeClient, CallToPhone
  <2>4. CASE Present(d)
    <3>1. vc' = vc \/ vc' = [vc EXCEPT ![d].shown = TRUE, ![d].timeout = TRUE]
      BY <2>4 DEF Present
    <3>2. QED
      BY <1>0, <3>1 DEF Screen
  <2>5. ASSUME NEW s \in {"answered", "busy", "ended"}, DidChangeSignalingState(d, s)
        PROVE  FALSE
    <3>1. vc' = vc \/ vc' = [vc EXCEPT ![d].sig = Stored(s)]
      BY <2>5 DEF DidChangeSignalingState
    <3>2. QED
      BY <1>0, <3>1 DEF Screen
  <2>6. ASSUME NEW s \in {"answered", "busy"}, DidHandleOnAnotherDevice(d, s) PROVE FALSE
    BY <2>1, <2>6 DEF DidHandleOnAnotherDevice
  <2>7. CASE HandleIncomingCallEvent(d)
    BY <2>1, <2>2, <2>7 DEF HandleIncomingCallEvent, ShowCallingVC
  <2>8. CASE MainSignal(d) \/ UpdateAnswerState(d)
    <3>1. /\ mainq # << >> /\ Head(mainq).c = d
          /\ vc' # vc => vc' = StartTimer(d) /\
               \/ Head(mainq).op = "signal" /\ Head(mainq).sig = "answered"
               \/ Head(mainq).op = "update"
      <4>1. CASE MainSignal(d)
        BY <4>1 DEF MainSignal
      <4>2. CASE UpdateAnswerState(d)
        BY <4>2 DEF UpdateAnswerState, BlockOf
      <4>3. QED
        BY <2>8, <4>1, <4>2
    <3>2. Head(mainq) \in Waiting
      BY <1>0, <3>1 DEF Waiting
    <3>3. d = c
      BY <1>0, <3>1 DEF StartTimer
    <3>4. QED
      BY <2>1, <3>1, <3>2, <3>3 DEF Said, Awaits
  <2>9. ASSUME NEW active \in BOOLEAN, EndCallAndDismiss(d, active) PROVE FALSE
    <3> DEFINE ended == [vc EXCEPT ![d].closed = TRUE, ![d].timer = FALSE,
                                   ![d].timeout = FALSE]
    <3>1. vc' \in {ended, Dismiss(ended)}
      BY <2>9 DEF EndCallAndDismiss
    <3>2. ended \in [Calls -> Screen] /\ ~ended[c].timer
      <4>1. ended \in [Calls -> Screen]
        BY <1>0, ScreensUpdates
      <4>2. c # d => ended[c] = vc[c]
        BY <1>0
      <4>3. c = d => ~ended[c].timer
        BY <1>0 DEF Screen
      <4>4. QED
        BY <4>1, <4>2, <4>3
    <3> HIDE DEF ended
    <3>3. QED
      BY <3>1, <3>2, DismissedScreens
  <2>10. CASE Completions(d)
    BY <2>1, <2>10 DEF Completions, DismissCompleted, EndingCompleted, AnswerCompleted,
       MakeCompleted
  <2>11. QED
    BY <1>4, <2>3, <2>4, <2>5, <2>6, <2>7, <2>8, <2>9, <2>10 DEF About, MainQueue
<1>5. Goal
  BY <1>1, <1>2, <1>3, <1>4, Kinds
<1>6. QED
  BY <1>5

\* A screen is told to count when it was counting, or had its answer.
LEMMA CountSteps ==
  ASSUME TypeOK, BeginInv, MissedInv, SoleInv, [Next]_vars, NEW c \in Calls, Counting(c)',
         ~Counting(c)
  PROVE  /\ sdk'[c] = "answered" /\ sdk[c] \in Live
         /\ \/ /\ \E b \in Waiting' : Fresh(b) /\ b.op = "signal" /\ b.c = c /\ b.sig = "answered"
               /\ UNCHANGED <<req, told, delayed, cur, call, missed>>
            \/ Asked("answer", c) /\ cur = c
<1>0. Kept /\ c # None
  BY QueueNext, CallCenterAssumption DEF BeginInv
<1>1. Said(c, "answered")' \/ Awaits("update", c)'
  BY TimerSteps DEF Counting
<1>2. CASE Said(c, "answered")'
  <2>1. PICK b \in Waiting' : b.op = "signal" /\ b.c = c /\ b.sig = "answered"
    BY <1>2 DEF Said
  <2>2. Fresh(b)
    BY <1>0, <2>1 DEF Kept, Counting, Said
  <2>3. QED
    BY <2>1, <2>2 DEF Fresh, Stored
<1>3. CASE Awaits("update", c)'
  <2>1. PICK b \in Waiting' : b.op = "update" /\ b.c = c
    BY <1>3 DEF Awaits
  <2>2. Fresh(b)
    BY <1>0, <2>1 DEF Kept, Counting, Awaits
  <2>3. PICK d \in Calls : /\ [op |-> "answer", c |-> d] \in req
                           /\ sdk[d] \in Live /\ sdk'[d] = "answered"
    BY <2>1, <2>2 DEF Fresh
  <2>4. cur = c
    BY <2>1, <2>2 DEF Fresh
  <2>5. d = c
    BY <2>3, <2>4 DEF SoleInv, Around, Asked
  <2>6. QED
    BY <2>3, <2>4, <2>5 DEF Asked
<1>4. QED
  BY <1>1, <1>2, <1>3

LEMMA PresentNext ==
  ASSUME TypeOK, BeginInv, MissedInv, PresentInv, [Next]_vars
  PROVE  PresentInv'
<1>0. /\ Incoming \subseteq Calls /\ Outgoing \subseteq Calls /\ Incoming \cap Outgoing = {}
      /\ ScreenInv /\ NewInv /\ offered \subseteq Incoming
      /\ mainq \in Seq(Block) /\ delayed \subseteq Delayed /\ sdk \in [Calls -> Signals]
  BY CallCenterAssumption DEF TypeOK, Calls, BeginInv
<1>1. \A b \in delayed' : b.op = "present" => ~b.presented /\ ~b.again
  BY PresentSteps DEF PresentInv
<1>2. SUFFICES ASSUME NEW c \in Outgoing
               PROVE  /\ sdk'[c] # "idle" => vc'[c].sig # "idle"
                      /\ Asked("make", c)' => sdk'[c] # "idle"
                      /\ Later("present", c)' => sdk'[c] = "idle"
  BY <1>1 DEF PresentInv
<1>3. ASSUME vc'[c].sig = "idle" PROVE sdk'[c] = "idle"
  <2>1. Idle(c)
    BY <1>0, <1>3, IdleNext
  <2>2. sdk[c] = "idle" /\ ~Present(c) /\ ~Asked("make", c) /\ ~PlaceCall(c)
    BY <1>0, <2>1 DEF Idle, ScreenInv, PresentInv, Present, Asked, PlaceCall
  <2>3. QED
    BY <1>0, <2>2, SdkSteps DEF Live
<1>4. ASSUME Asked("make", c)' PROVE sdk'[c] # "idle"
  <2>1. CASE Asked("make", c)
    BY <1>0, <2>1, Progress DEF PresentInv
  <2>2. CASE ~Asked("make", c)
    <3>1. Present(c)
      BY <1>0, <1>4, <2>2, Makes DEF Asked
    <3>2. QED
      BY <1>0, <1>4, <2>2, <3>1 DEF Present, Asked
  <2>3. QED
    BY <2>1, <2>2
<1>5. ASSUME Later("present", c)' PROVE sdk'[c] = "idle"
  <2>1. PICK b \in delayed' : b.op = "present" /\ b.c = c
    BY <1>5 DEF Later
  <2>2. CASE b \in delayed
    <3>1. sdk[c] = "idle" /\ ~Asked("make", c)
      BY <1>0, <2>1, <2>2 DEF PresentInv, Later
    <3>2. ~Present(c)
      <4>1. b = [op |-> "present", c |-> c, presented |-> FALSE, again |-> FALSE]
        BY <1>0, <2>1, <2>2 DEF PresentInv, Delayed
      <4>2. QED
        BY <2>1, <4>1 DEF Present
    <3>3. ~PlaceCall(c)
      BY <1>0 DEF PlaceCall
    <3>4. QED
      BY <1>0, <3>1, <3>2, <3>3, SdkSteps DEF Live
  <2>3. CASE b \notin delayed
    <3>1. HandleIncomingCallEvent(c) \/ CallToPhone(c)
      BY <2>1, <2>3, PresentSteps
    <3>2. CASE HandleIncomingCallEvent(c)
      <4>1. Head(mainq) \in Waiting /\ Head(mainq).op = "incoming" /\ Head(mainq).c = c
        BY <1>0, <3>2 DEF HandleIncomingCallEvent, BlockOf, Waiting
      <4>2. QED
        BY <1>0, <4>1 DEF NewInv
    <3>3. CASE CallToPhone(c)
      BY <3>3 DEF CallToPhone, NoScreen, PresentInv
    <3>4. QED
      BY <3>1, <3>2, <3>3
  <2>4. QED
    BY <2>2, <2>3
<1>6. QED
  BY <1>3, <1>4, <1>5

LEMMA CountNext ==
  ASSUME TypeOK, BeginInv, MissedInv, SoleInv, CountInv, [Next]_vars
  PROVE  CountInv'
<1>1. PresentInv'
  BY PresentNext DEF CountInv
<1>2. ASSUME NEW c \in Calls, Counting(c)' PROVE sdk'[c] \in {"answered", "over"}
  <2>1. CASE Counting(c)
    <3>1. sdk[c] \in {"answered", "over"}
      BY <2>1 DEF CountInv
    <3>2. Present(c) /\ c \in Outgoing => sdk[c] = "idle"
      BY DEF Present, CountInv, PresentInv, Later
    <3>3. QED
      BY <3>1, <3>2, SdkSteps
  <2>2. CASE ~Counting(c)
    BY <1>2, <2>2, CountSteps
  <2>3. QED
    BY <2>1, <2>2
<1>3. QED
  BY <1>1, <1>2 DEF CountInv

LEMMA CountInit == Init => CountInv
<1> SUFFICES ASSUME Init PROVE CountInv
  OBVIOUS
<1>1. Waiting = {} /\ \A c \in Calls : vc[c] = NoScreen /\ sdk[c] = "idle"
  BY DEF Init, Waiting
<1>2. QED
  BY <1>1 DEF Init, NoScreen, CountInv, PresentInv, Counting, Said, Awaits, Asked, Later, Calls

\* A screen counts talking time only for a call that Stringee put through,
\* when a call begins only after nothing is left of the one before: the
\* completion of an answer, which tells whichever screen is current
\* (CallManager.m 390-400), then tells the screen of its own call.
THEOREM TalksAreAnswered ==
  ASSUME "overlap" \notin Features
  PROVE  Spec => []TalkingIsAnswered
<1>1. TypeOK /\ MissedInv /\ BeginInv /\ SoleInv /\ CountInv /\ [Next]_vars => CountInv'
  BY CountNext
<1>2. CountInv => TalkingIsAnswered
  BY DEF CountInv, Counting, TalkingIsAnswered
<1>3. QED
  BY <1>1, <1>2, CountInit, BeginAlways, SoleAlways, PTL DEF Spec

-----------------------------------------------------------------------------
(* Missed calls and talks.                                                 *)

\* What a step does to the state a screen shows.
LEMMA ScreenSteps ==
  ASSUME TypeOK, [Next]_vars, NEW c \in Calls,
         vc'[c].sig # vc[c].sig \/ (vc[c].closed /\ ~vc'[c].closed)
  PROVE  \/ HandleIncomingCallEvent(c) /\ cur = None /\ cur' = c
         \/ CallToPhone(c)
         \/ /\ vc'[c].closed = vc[c].closed
            /\ \/ \E s \in {"answered", "busy", "ended"} :
                    DidChangeSignalingState(c, s) /\ Alive(c) /\ vc'[c].sig = Stored(s)
               \/ AnswersCall /\ cur = c /\ vc'[c].sig = "answered"
               \/ /\ Said(c, "answered") \/ Awaits("update", c)
                  /\ vc'[c].sig = "answered" /\ UNCHANGED sdk
<1> DEFINE Same4 == vc'[c].sig = vc[c].sig /\ vc'[c].closed = vc[c].closed
           Goal ==
             \/ HandleIncomingCallEvent(c) /\ cur = None /\ cur' = c
             \/ CallToPhone(c)
             \/ /\ vc'[c].closed = vc[c].closed
                /\ \/ \E s \in {"answered", "busy", "ended"} :
                        DidChangeSignalingState(c, s) /\ Alive(c) /\ vc'[c].sig = Stored(s)
                   \/ AnswersCall /\ cur = c /\ vc'[c].sig = "answered"
                   \/ /\ Said(c, "answered") \/ Awaits("update", c)
                      /\ vc'[c].sig = "answered" /\ UNCHANGED sdk
<1>0. vc \in [Calls -> Screen] /\ mainq \in Seq(Block)
  BY DEF TypeOK
<1>a. ASSUME NEW d \in Calls, NEW g, vc' = [vc EXCEPT ![d].sig = g]
      PROVE  /\ vc'[c].closed = vc[c].closed
             /\ c # d => Same4
             /\ c = d => vc'[c].sig = g
  BY <1>0, <1>a DEF Screen
<1>1. ASSUME Rests \/ AsksToEnd PROVE FALSE
  BY <1>1 DEF Rests, others, AsksToEnd
<1>2. ASSUME AnswersCall PROVE Goal
  <2>1. cur \in Calls /\ vc' = [vc EXCEPT ![cur].sig = "answered"]
    BY <1>2 DEF AnswersCall, TypeOK
  <2>2. QED
    BY <1>2, <1>a, <2>1
<1>3. ASSUME NEW b \in delayed, Close(b) PROVE FALSE
  BY <1>0, <1>3, DismissedScreens DEF Close
<1>4. ASSUME NEW d \in Calls, About(d) PROVE Goal
  <2>1. ASSUME UNCHANGED vc PROVE FALSE
    BY <2>1
  <2>2. CASE PlaceCall(d) \/ IncomingCallWithStringeeClient(d)
    BY <2>1, <2>2 DEF PlaceCall, IncomingCallWithStringeeClient
  <2>3. CASE CallToPhone(d)
    <3>1. d = c
      BY <1>0, <2>3 DEF CallToPhone
    <3>2. QED
      BY <2>3, <3>1
  <2>4. CASE Present(d)
    <3>1. vc' = vc \/ vc' = [vc EXCEPT ![d].shown = TRUE, ![d].timeout = TRUE]
      BY <2>4 DEF Present
    <3>2. QED
      BY <1>0, <3>1 DEF Screen
  <2>5. ASSUME NEW s \in {"answered", "busy", "ended"}, DidChangeSignalingState(d, s)
        PROVE  Goal
    <3>1. Alive(d) /\ vc' = [vc EXCEPT ![d].sig = Stored(s)]
      BY <2>1, <2>5 DEF DidChangeSignalingState
    <3>2. d = c /\ vc'[c].closed = vc[c].closed /\ vc'[c].sig = Stored(s)
      BY <1>a, <3>1
    <3>3. QED
      BY <2>5, <3>1, <3>2
  <2>6. ASSUME NEW s \in {"answered", "busy"}, DidHandleOnAnotherDevice(d, s) PROVE FALSE
    BY <2>1, <2>6 DEF DidHandleOnAnotherDevice
  <2>7. CASE HandleIncomingCallEvent(d)
    <3>1. /\ cur = None /\ cur' = d
          /\ vc' = [vc EXCEPT ![d] = [NoScreen EXCEPT !.sig = "ringing"]]
      BY <2>1, <2>7 DEF HandleIncomingCallEvent, ShowCallingVC
    <3>2. d = c
      BY <1>0, <3>1
    <3>3. QED
      BY <2>7, <3>1, <3>2
  <2>8. CASE MainSignal(d) \/ UpdateAnswerState(d)
    <3>1. /\ mainq # << >> /\ Head(mainq).c = d /\ UNCHANGED sdk
          /\ vc' # vc => vc' = StartTimer(d) /\
               \/ Head(mainq).op = "signal" /\ Head(mainq).sig = "answered"
               \/ Head(mainq).op = "update"
      <4>1. CASE MainSignal(d)
        BY <4>1 DEF MainSignal
      <4>2. CASE UpdateAnswerState(d)
        BY <4>2 DEF UpdateAnswerState, BlockOf
      <4>3. QED
        BY <2>8, <4>1, <4>2
    <3>2. Head(mainq) \in Waiting
      BY <1>0, <3>1 DEF Waiting
    <3>3. vc' = StartTimer(d)
      BY <2>1, <3>1
    <3>4. d = c /\ vc'[c].closed = vc[c].closed /\ vc'[c].sig = "answered"
      BY <1>0, <3>3 DEF StartTimer, Screen
    <3>5. QED
      BY <2>1, <3>1, <3>2, <3>4 DEF Said, Awaits
  <2>9. ASSUME NEW active \in BOOLEAN, EndCallAndDismiss(d, active) PROVE FALSE
    <3> DEFINE ended == [vc EXCEPT ![d].closed = TRUE, ![d].timer = FALSE,
                                   ![d].timeout = FALSE]
    <3>1. vc' \in {ended, Dismiss(ended)}
      BY <2>9 DEF EndCallAndDismiss
    <3>2. /\ ended \in [Calls -> Screen] /\ ended[c].sig = vc[c].sig
          /\ vc[c].closed => ended[c].closed
      <4>1. ended \in [Calls -> Screen]
        BY <1>0, ScreensUpdates
      <4>2. c # d => ended[c] = vc[c]
        BY <1>0
      <4>3. c = d => ended[c].sig = vc[c].sig /\ ended[c].closed
        BY <1>0 DEF Screen
      <4>4. QED
        BY <4>1, <4>2, <4>3
    <3> HIDE DEF ended
    <3>3. QED
      BY <3>1, <3>2, DismissedScreens
  <2>10. CASE Completions(d)
    BY <2>1, <2>10 DEF Completions, DismissCompleted, EndingCompleted, AnswerCompleted,
       MakeCompleted
  <2>11. QED
    BY <1>4, <2>2, <2>3, <2>4, <2>5, <2>6, <2>7, <2>8, <2>9, <2>10 DEF About, MainQueue
<1>5. Goal
  BY <1>1, <1>2, <1>3, <1>4, Kinds
<1>6. QED
  BY <1>5

\* The agent talks, or the talk is about to begin.
Talks(c) == Counting(c) \/ (Asked("answer", c) /\ cur = c /\ sdk[c] \in Live)

\* The blocks that wait to report the end of c know of the talk.
EndsTalk(c) ==
  \A b \in Waiting : b.op = "signal" /\ b.c = c /\ b.sig = "ended" => b.prev = "answered"

\* A talk is not missed, its screen knows of it while it lasts, and so does
\* what will report its end.
TalkInv ==
  \A c \in Incoming : Talks(c) =>
    /\ c \notin missed
    /\ sdk[c] \in Live => vc[c].sig = "answered"
    /\ EndsTalk(c)

\* A call is found missed when its end is handled, by the state noted before.
LEMMA MissedSteps ==
  ASSUME TypeOK, BeginInv, MissedInv, [Next]_vars, NEW c \in Calls, c \in missed' \ missed
  PROVE  ~EndsTalk(c)
<1>1. PICK d \in Calls : HandlesEnd(d) /\ missed' = missed \cup {d}
  BY RejectSteps
<1>2. d = c /\ HandlesEnd(c)
  BY <1>1
<1>3. /\ mainq # << >> /\ Head(mainq).op = "signal" /\ Head(mainq).c = c
      /\ Head(mainq).sig = "ended" /\ Head(mainq).prev # "answered"
  BY <1>2 DEF HandlesEnd, MainSignal
<1>4. Head(mainq) \in Waiting
  BY <1>3 DEF TypeOK, Waiting
<1>5. QED
  BY <1>3, <1>4 DEF EndsTalk

\* The end of a call that is not over is not yet to be handled.
LEMMA NoEndYet ==
  ASSUME TypeOK, MissedInv, NEW c \in Incoming, sdk[c] # "over"
  PROVE  ~Said(c, "ended") /\ c \notin missed
<1>1. mainq \in Seq(Block)
  BY DEF TypeOK
<1>2. ASSUME NEW b \in Waiting, b.op = "signal", b.c = c, b.sig = "ended" PROVE FALSE
  <2>1. PICK i \in 1..Len(mainq) : b = mainq[i]
    BY <1>1 DEF Waiting
  <2>2. QED
    BY <1>2, <2>1 DEF MissedInv, EndIsOver
<1>3. QED
  BY <1>2 DEF Said, MissedInv, MissedIsOver

\* An answer is sent by a step that answers the manager's call.
LEMMA AnsweredHere ==
  ASSUME TypeOK, [Next]_vars, DidActivateAudioSession, req' # req
  PROVE  AnswersCall
<1>1. call \in CallRecord
  BY DEF TypeOK
<1> DEFINE k == [call EXCEPT !.audio = TRUE]
<1>2. k \in CallRecord /\ k.sc = call.sc /\ k.incoming = call.incoming
  BY <1>1 DEF CallRecord
<1>3. /\ HasCall /\ AnswerCallWithCondition(k, kit)
      /\ UNCHANGED <<cur, sdk, mainq, delayed, told, offered, missed, rejected>>
  BY DEF DidActivateAudioSession
<1> HIDE DEF k
<1>4. Rests \/ AnswersCall
  BY <1>2, <1>3, AnswerKinds
<1>5. QED
  BY <1>4 DEF Rests, others

\* A call that is talked in is not new.
LEMMA TalksBegun ==
  ASSUME TypeOK, BeginInv, NEW c \in Incoming, Talks(c)
  PROVE  vc[c].sig # "idle" /\ sdk[c] # "idle" /\ ~New(c)
<1>0. c \in Calls /\ ScreenInv /\ NewInv /\ mainq \in Seq(Block)
  BY DEF Calls, BeginInv, TypeOK
<1>1. vc[c].sig # "idle"
  BY <1>0 DEF Talks, Counting, Said, Awaits, ScreenInv, Unmade
<1>2. ~New(c)
  BY <1>0, <1>1 DEF NewInv
<1>3. QED
  BY <1>0, <1>1, <1>2 DEF New, NewInv

\* How a talk of an incoming call begins.
LEMMA TalkBegins ==
  ASSUME TypeOK, BeginInv, MissedInv, SoleInv, [Next]_vars, NEW c \in Incoming,
         ~Talks(c), Talks(c)'
  PROVE  /\ sdk[c] \in Live
         /\ \/ /\ sdk'[c] = "answered" /\ vc'[c].sig = "answered" /\ UNCHANGED missed
            \/ AnswersCall /\ cur = c
<1>0. /\ c \in Calls /\ c \notin Outgoing /\ c # None /\ Kept /\ ScreenInv /\ NewInv
      /\ sdk \in [Calls -> Signals] /\ mainq \in Seq(Block) /\ vc \in [Calls -> Screen]
      /\ offered \subseteq Incoming
  BY CallCenterAssumption, QueueNext DEF TypeOK, Calls, BeginInv
<1>1. CASE Counting(c)'
  <2>1. ~Counting(c)
    BY DEF Talks
  <2>2. /\ sdk'[c] = "answered" /\ sdk[c] \in Live
        /\ \E b \in Waiting' : Fresh(b) /\ b.op = "signal" /\ b.c = c /\ b.sig = "answered"
    BY <1>0, <1>1, <2>1, CountSteps DEF Talks
  <2>3. QED
    BY <2>2 DEF Fresh, Stored
<1>2. CASE ~Counting(c)'
  <2>1. Asked("answer", c)' /\ cur' = c /\ sdk'[c] \in Live
    BY <1>2 DEF Talks
  <2>2. CASE Asked("answer", c)
    <3>1. ~New(c)
      BY <1>0, <2>2 DEF NewInv, Asked
    <3>2. sdk[c] \in Live
      <4>1. sdk[c] # "idle"
        BY <1>0, <3>1 DEF New, NewInv
      <4>2. ~(Asked("make", c) /\ sdk'[c] = "over")
        BY <2>1 DEF Live
      <4>3. QED
        BY <1>0, <2>1, <4>1, <4>2, SdkSteps
    <3>3. cur = c
      <4>1. ~PlaceCall(c)
        BY <3>2 DEF PlaceCall, Live
      <4>2. Source(c)
        BY <1>0, <4>1, Sources DEF CallToPhone
      <4>3. ~Awaits("incoming", c)
        BY <3>1 DEF New, Awaits
      <4>4. QED
        BY <2>1, <4>2, <4>3 DEF Source
    <3>4. QED
      BY <2>2, <3>2, <3>3 DEF Talks
  <2>3. CASE ~Asked("answer", c)
    <3>1. Answers(c)
      BY <1>0, <2>1, <2>3 DEF Answers, Ask, Asked
    <3>2. DidActivateAudioSession
      BY <1>0, <3>1, AnswerOnActivation
    <3>3. UNCHANGED <<cur, sdk>>
      BY <3>2 DEF DidActivateAudioSession
    <3>4. AnswersCall
      BY <1>0, <2>1, <2>3, <3>2, AnsweredHere DEF Asked
    <3>5. QED
      BY <2>1, <3>3, <3>4
  <2>4. QED
    BY <2>2, <2>3
<1>3. QED
  BY <1>1, <1>2

LEMMA TalkNext ==
  ASSUME TypeOK, BeginInv, MissedInv, SoleInv, TalkInv, [Next]_vars
  PROVE  TalkInv'
<1>0. /\ Incoming \subseteq Calls /\ Incoming \cap Outgoing = {} /\ Kept /\ NewInv
      /\ ScreenInv /\ mainq \in Seq(Block) /\ MissedInv' /\ TypeOK'
      /\ sdk \in [Calls -> Signals] /\ vc \in [Calls -> Screen]
  BY CallCenterAssumption, QueueNext, MissedNext, TypeNext DEF TypeOK, Calls, BeginInv
<1>1. SUFFICES ASSUME NEW c \in Incoming, Talks(c)'
               PROVE  /\ c \notin missed'
                      /\ sdk'[c] \in Live => vc'[c].sig = "answered"
                      /\ EndsTalk(c)'
  BY DEF TalkInv
<1>2. CASE Talks(c)
  <2>1. /\ c \notin missed /\ (sdk[c] \in Live => vc[c].sig = "answered") /\ EndsTalk(c)
    BY <1>2 DEF TalkInv
  <2>2. c \notin missed'
    BY <1>0, <2>1, MissedSteps
  <2>3. EndsTalk(c)'
    <3>1. \A b \in Waiting' : Fresh(b) /\ b.op = "signal" /\ b.c = c => b.prev = "answered"
      BY <2>1 DEF Fresh
    <3>2. QED
      BY <1>0, <2>1, <3>1 DEF Kept, EndsTalk
  <2>4. ASSUME sdk'[c] \in Live PROVE vc'[c].sig = "answered"
    <3>1. vc[c].sig # "idle" /\ sdk[c] # "idle" /\ ~New(c)
      BY <1>0, <1>2, <2>1, TalksBegun
    <3>2. sdk[c] \in Live
      <4>1. ~(Asked("make", c) /\ sdk'[c] = "over")
        BY <2>4 DEF Live
      <4>2. QED
        BY <1>0, <2>4, <3>1, <4>1, SdkSteps
    <3>3. ~HandleIncomingCallEvent(c) /\ ~CallToPhone(c)
      <4>1. HandleIncomingCallEvent(c) => New(c)
        BY <1>0 DEF HandleIncomingCallEvent, BlockOf, Waiting, New
      <4>2. QED
        BY <1>0, <3>1, <4>1 DEF CallToPhone
    <3>4. CASE vc'[c].sig # vc[c].sig
      <4>1. ASSUME NEW s \in {"answered", "busy", "ended"}, DidChangeSignalingState(c, s),
                   vc'[c].sig = Stored(s)
            PROVE  vc'[c].sig = "answered"
        BY <1>0, <2>4, <4>1 DEF DidChangeSignalingState, Stored, Live
      <4>2. QED
        BY <1>0, <3>3, <3>4, <4>1, ScreenSteps
    <3>5. QED
      BY <2>1, <3>2, <3>4
  <2>5. QED
    BY <2>2, <2>3, <2>4
<1>3. CASE ~Talks(c)
  <2>1. sdk[c] \in Live
    BY <1>1, <1>3, TalkBegins
  <2>2. sdk[c] # "over" /\ ~Said(c, "ended") /\ c \notin missed
    BY <2>1, NoEndYet DEF Live
  <2>3. CASE sdk'[c] = "answered" /\ vc'[c].sig = "answered" /\ UNCHANGED missed
    <3>1. mainq' \in Seq(Block)
      BY <1>0 DEF TypeOK
    <3>2. ASSUME NEW b \in Waiting', b.op = "signal", b.c = c, b.sig = "ended" PROVE FALSE
      <4>1. PICK i \in 1..Len(mainq') : b = mainq'[i]
        BY <3>1, <3>2 DEF Waiting
      <4>2. QED
        BY <1>0, <2>3, <3>2, <4>1 DEF MissedInv, EndIsOver
    <3>3. QED
      BY <2>2, <2>3, <3>2 DEF EndsTalk
  <2>4. CASE AnswersCall /\ cur = c
    <3>1. vc'[c].sig = "answered" /\ UNCHANGED <<mainq, missed>>
      BY <1>0, <2>4, CallCenterAssumption DEF AnswersCall, Screen, Calls
    <3>2. QED
      BY <2>2, <3>1 DEF EndsTalk, Said, Waiting
  <2>5. QED
    BY <1>1, <1>3, <2>3, <2>4, TalkBegins
<1>4. QED
  BY <1>2, <1>3

\* A missed call was never talked in on this screen, when a call begins only
\* after nothing is left of the one before: the state its screen had before
\* the end tells of the talk (didChangeSignalingState:,
\* CallingViewController.m 816-832).
THEOREM MissedWereNoTalks ==
  ASSUME "overlap" \notin Features
  PROVE  Spec => []MissedNeverTalked
<1>1. Init => TalkInv
  <2>1. ASSUME Init, NEW c \in Incoming PROVE ~Talks(c)
    <3>1. Waiting = {} /\ vc[c] = NoScreen /\ sdk[c] = "idle"
      BY <2>1 DEF Init, Waiting, Calls
    <3>2. QED
      BY <3>1 DEF Talks, Counting, NoScreen, Said, Awaits, Live
  <2>2. QED
    BY <2>1 DEF TalkInv
<1>2. TypeOK /\ MissedInv /\ BeginInv /\ SoleInv /\ TalkInv /\ [Next]_vars => TalkInv'
  BY TalkNext
<1>3. MissedInv /\ TalkInv => MissedNeverTalked
  BY DEF MissedInv, EndIsOver, TalkInv, Talks, Counting, MissedNeverTalked
<1>4. QED
  BY <1>1, <1>2, <1>3, BeginAlways, SoleAlways, PTL DEF Spec

-----------------------------------------------------------------------------
(* The open screen.                                                        *)

\* There is only one call; or calls follow each other and none times out.
OneAtATime ==
  \/ \A c, d \in Calls : c = d
  \/ "overlap" \notin Features /\ "timeout" \notin Features

SoleScreenInv ==
  ManagerInv /\ \A c, d \in Calls : AroundScreen(c) /\ AroundScreen(d) => c = d

\* What makes the manager forget the current screen comes from a closed one.
OpenInv ==
  /\ OpenScreenIsCurrent
  /\ \A c \in Calls : Later("close", c) \/ Asked("dismiss", c) => vc[c].closed

LEMMA ScreenRemains ==
  ASSUME TypeOK, BeginInv, MissedInv, "timeout" \notin Features, [Next]_vars,
         NEW c \in Calls, ~Begins(c), AroundScreen(c)'
  PROVE  AroundScreen(c)
<1>1. Source(c) /\ Kept
  BY Sources, QueueNext DEF BeginInv, Begins
<1>2. CASE Around(c)'
  BY <1>2, Remains DEF AroundScreen
<1>3. CASE Awaits("dismiss", c)'
  <2>1. PICK b \in Waiting' : b.op = "dismiss" /\ b.c = c
    BY <1>3 DEF Awaits
  <2>2. CASE b \in Waiting
    BY <2>1, <2>2 DEF AroundScreen, Awaits
  <2>3. CASE Fresh(b)
    BY <2>1, <2>3 DEF Fresh, AroundScreen, Around, Awaits, Asked, Live
  <2>4. QED
    BY <1>1, <2>2, <2>3 DEF Kept
<1>4. CASE Later("close", c)' \/ Asked("dismiss", c)'
  BY <1>1, <1>4 DEF Source, AroundScreen
<1>5. QED
  BY <1>2, <1>3, <1>4 DEF AroundScreen

LEMMA SoleScreenNext ==
  ASSUME OneAtATime, TypeOK, BeginInv, MissedInv, SoleScreenInv, [Next]_vars
  PROVE  SoleScreenInv'
<1>0. ManagerInv /\ ManagerInv'
  BY ManagerNext DEF SoleScreenInv
<1>1. CASE \A c, d \in Calls : c = d
  BY <1>0, <1>1 DEF SoleScreenInv
<1>2. CASE "overlap" \notin Features /\ "timeout" \notin Features
  <2>1. ASSUME NEW c \in Calls, Begins(c), NEW d \in Calls, AroundScreen(d)'
        PROVE  d = c
    <3>1. ~AroundScreen(d)
      BY <1>0, <1>2, <2>1, Alone
    <3>2. Begins(d)
      BY <1>2, <2>1, <3>1, ScreenRemains
    <3>3. QED
      BY <1>2, <2>1, <3>2, OneBegins
  <2>2. CASE \E c \in Calls : Begins(c)
    BY <1>0, <2>1, <2>2 DEF SoleScreenInv
  <2>3. CASE \A c \in Calls : ~Begins(c)
    BY <1>0, <1>2, <2>3, ScreenRemains DEF SoleScreenInv
  <2>4. QED
    BY <2>2, <2>3
<1>3. QED
  BY <1>1, <1>2 DEF OneAtATime

\* The screen of a call is made once: once closed it stays closed.
LEMMA ClosedStays ==
  ASSUME TypeOK, BeginInv, [Next]_vars, NEW c \in Calls, vc[c].closed
  PROVE  vc'[c].closed
<1>0. vc[c].sig # "idle" /\ vc[c] # NoScreen /\ mainq \in Seq(Block) /\ NewInv
  <2>1. vc[c].sig # "idle" /\ NewInv
    BY DEF BeginInv, ScreenInv, Unmade
  <2>2. vc[c] # NoScreen
    BY DEF NoScreen
  <2>3. QED
    BY <2>1, <2>2 DEF TypeOK
<1>1. ~CallToPhone(c)
  BY <1>0 DEF CallToPhone
<1>2. ~HandleIncomingCallEvent(c)
  <2>1. ASSUME HandleIncomingCallEvent(c) PROVE FALSE
    <3>1. /\ mainq # << >> /\ Head(mainq) = BlockOf("incoming", c)
          /\ Head(mainq).op = "incoming" /\ Head(mainq).c = c
      BY <2>1 DEF HandleIncomingCallEvent, BlockOf
    <3>2. Head(mainq) \in Waiting
      BY <1>0, <3>1 DEF Waiting
    <3>3. c \in Incoming /\ New(c)
      BY <1>0, <3>1, <3>2 DEF New, NewInv, TypeOK
    <3>4. QED
      BY <1>0, <3>3 DEF NewInv
  <2>2. QED
    BY <2>1
<1>3. QED
  BY <1>1, <1>2, ScreenSteps

\* What is left of the dismissal of a screen, once it is to be dismissed.
LEMMA Dismissal ==
  ASSUME TypeOK, NEW d \in Calls, NEW active \in BOOLEAN, EndCallAndDismiss(d, active)
  PROVE  /\ Awaits("dismiss", d) /\ vc'[d].closed /\ cur' \in {cur, None}
         /\ \A c \in Calls : c # d =>
              /\ Later("close", c)' => Later("close", c)
              /\ Asked("dismiss", c)' => Asked("dismiss", c)
<1>0. vc \in [Calls -> Screen] /\ mainq \in Seq(Block)
  BY DEF TypeOK
<1>1. Awaits("dismiss", d)
  <2>1. mainq # << >> /\ Head(mainq).op = "dismiss" /\ Head(mainq).c = d
    BY DEF EndCallAndDismiss, BlockOf
  <2>2. QED
    BY <1>0, <2>1 DEF Awaits, Waiting
<1>2. vc'[d].closed
  <2> DEFINE ended == [vc EXCEPT ![d].closed = TRUE, ![d].timer = FALSE,
                                 ![d].timeout = FALSE]
  <2>1. vc' \in {ended, Dismiss(ended)}
    BY DEF EndCallAndDismiss
  <2>2. ended \in [Calls -> Screen]
    BY <1>0, ScreensUpdates
  <2>3. ended[d].closed
    BY <1>0 DEF Screen
  <2> HIDE DEF ended
  <2>4. QED
    BY <2>1, <2>2, <2>3, DismissedScreens
<1>3. /\ cur' \in {cur, None}
      /\ req' \in {req, req \cup {[op |-> "dismiss", c |-> d]}}
      /\ delayed' \in {delayed, delayed \cup {Closing(d)}}
  <2>1. Ask("dismiss", d) = {[op |-> "dismiss", c |-> d]}
    BY CallCenterAssumption DEF Ask
  <2>2. QED
    BY <2>1 DEF EndCallAndDismiss
<1>4. Closing(d).c = d
  BY DEF Closing
<1>5. QED
  BY <1>1, <1>2, <1>3, <1>4 DEF Later, Asked

\* How the current screen changes.
LEMMA CurSteps ==
  ASSUME TypeOK, [Next]_vars, cur' # cur
  PROVE  \/ cur = None
         \/ \E c \in Calls : CallToPhone(c)
         \/ \E c \in Calls :
              \/ Later("close", c) \/ Asked("dismiss", c)
              \/ \E active \in BOOLEAN : EndCallAndDismiss(c, active)
<1>1. ASSUME Rests \/ AsksToEnd \/ AnswersCall PROVE FALSE
  BY <1>1 DEF Rests, others, AsksToEnd, AnswersCall
<1>2. ASSUME NEW b \in delayed, Close(b) PROVE b.c \in Calls /\ Later("close", b.c)
  BY <1>2 DEF Close, Later, TypeOK, Delayed
<1>3. ASSUME NEW d \in Calls, About(d)
      PROVE  \/ cur = None \/ CallToPhone(d) \/ Asked("dismiss", d)
             \/ \E active \in BOOLEAN : EndCallAndDismiss(d, active)
  <2>1. CASE Completions(d)
    BY <2>1 DEF Completions, DismissCompleted, EndingCompleted, AnswerCompleted,
       MakeCompleted, Asked
  <2>2. CASE MainQueue(d)
    BY <2>2 DEF MainQueue, HandleIncomingCallEvent, ShowCallingVC, MainSignal,
       UpdateAnswerState
  <2>3. QED
    BY <1>3, <2>1, <2>2 DEF About, PlaceCall, IncomingCallWithStringeeClient,
       DidChangeSignalingState, DidHandleOnAnotherDevice, Present
<1>4. QED
  BY <1>1, <1>2, <1>3, Kinds

\* Where the blocks and completions that forget the current screen come from.
LEMMA Forgetting ==
  ASSUME TypeOK, [Next]_vars, NEW c \in Calls,
         \/ Later("close", c)' /\ ~Later("close", c)
         \/ Asked("dismiss", c)' /\ ~Asked("dismiss", c)
  PROVE  vc'[c].closed
<1>1. ASSUME Rests \/ AsksToEnd \/ AnswersCall PROVE FALSE
  BY <1>1 DEF Rests, others, AsksToEnd, AnswersCall, Later, Asked
<1>2. ASSUME NEW b \in delayed, Close(b) PROVE FALSE
  BY <1>2 DEF Close, Later, Asked
<1>3. ASSUME NEW d \in Calls, NEW active \in BOOLEAN, EndCallAndDismiss(d, active)
      PROVE  vc'[c].closed
  BY <1>3, Dismissal
<1>4. ASSUME NEW d \in Calls, About(d),
             ~\E active \in BOOLEAN : EndCallAndDismiss(d, active)
      PROVE  FALSE
  <2>1. CASE CallToPhone(d) \/ Present(d)
    <3>1. Ask("make", d) = {[op |-> "make", c |-> d]}
      BY CallCenterAssumption DEF Ask
    <3>2. QED
      BY <2>1, <3>1 DEF CallToPhone, Present, Later, Asked
  <2>2. CASE Completions(d)
    BY <2>2 DEF Completions, DismissCompleted, EndingCompleted, AnswerCompleted,
       MakeCompleted, Later, Asked
  <2>3. CASE MainQueue(d)
    <3>1. CASE MainSignal(d) \/ UpdateAnswerState(d)
      BY <3>1 DEF MainSignal, UpdateAnswerState, Later, Asked
    <3>2. CASE HandleIncomingCallEvent(d)
      <4>1. UNCHANGED req /\ (UNCHANGED delayed \/ ShowCallingVC(d))
        BY <3>2 DEF HandleIncomingCallEvent, ShowCallingVC
      <4>2. ~(Asked("dismiss", c)' /\ ~Asked("dismiss", c))
        BY <4>1 DEF Asked
      <4>3. ~(Later("close", c)' /\ ~Later("close", c))
        BY <4>1 DEF ShowCallingVC, Later
      <4>4. QED
        BY <4>2, <4>3
    <3>3. QED
      BY <1>4, <2>3, <3>1, <3>2 DEF MainQueue
  <2>4. QED
    BY <1>4, <2>1, <2>2, <2>3 DEF About, PlaceCall, IncomingCallWithStringeeClient,
       DidChangeSignalingState, DidHandleOnAnotherDevice, Later, Asked
<1>5. QED
  BY <1>1, <1>2, <1>3, <1>4, Kinds

LEMMA OpenNext ==
  ASSUME OneAtATime, TypeOK, BeginInv, SoleScreenInv, OpenInv, [Next]_vars
  PROVE  OpenInv'
<1>0. ScreenInv /\ None \notin Calls
  BY CallCenterAssumption DEF BeginInv
<1>1. ASSUME NEW c \in Calls, Later("close", c)' \/ Asked("dismiss", c)'
      PROVE  vc'[c].closed
  <2>1. CASE Later("close", c) \/ Asked("dismiss", c)
    BY <2>1, ClosedStays DEF OpenInv
  <2>2. QED
    BY <1>1, <2>1, Forgetting
<1>2. ASSUME NEW c \in Calls, vc'[c].sig # "idle", ~vc'[c].closed
      PROVE  cur' = c
  <2>1. ~vc[c].closed
    BY <1>2, ClosedStays
  <2>2. CASE vc[c].sig = "idle"
    <3>1. ~Alive(c) /\ cur # c
      BY <1>0, <2>2, Unborn
    <3>2. ~Said(c, "answered") /\ ~Awaits("update", c)
      BY <1>0, <2>2 DEF ScreenInv, Said, Awaits
    <3>3. (HandleIncomingCallEvent(c) /\ cur' = c) \/ CallToPhone(c)
      BY <1>2, <2>2, <3>1, <3>2, ScreenSteps
    <3>4. QED
      BY <3>3 DEF CallToPhone
  <2>3. CASE vc[c].sig # "idle"
    <3>1. cur = c /\ AroundScreen(c)
      BY <2>1, <2>3 DEF OpenInv, OpenScreenIsCurrent, AroundScreen, Around
    <3>2. ASSUME NEW d \in Calls, CallToPhone(d) PROVE cur' = c
      <4>1. CASE \A x, y \in Calls : x = y
        BY <3>2, <4>1 DEF CallToPhone
      <4>2. CASE "overlap" \notin Features
        BY <1>0, <3>1, <3>2, <4>2 DEF CallToPhone, Quiet, AtRest
      <4>3. QED
        BY <4>1, <4>2 DEF OneAtATime
    <3>3. ASSUME NEW d \in Calls, AroundScreen(d), vc'[d].closed PROVE FALSE
      BY <1>2, <3>1, <3>3 DEF SoleScreenInv
    <3>4. ASSUME NEW d \in Calls, Later("close", d) \/ Asked("dismiss", d) PROVE FALSE
      BY <3>3, <3>4, ClosedStays DEF OpenInv, AroundScreen
    <3>5. ASSUME NEW d \in Calls, NEW active \in BOOLEAN, EndCallAndDismiss(d, active)
          PROVE  FALSE
      BY <3>3, <3>5, Dismissal DEF AroundScreen
    <3>6. QED
      BY <1>0, <3>1, <3>2, <3>4, <3>5, CurSteps
  <2>4. QED
    BY <2>2, <2>3
<1>3. QED
  BY <1>1, <1>2 DEF OpenInv, OpenScreenIsCurrent

\* As long as there is one call, or calls follow each other and none times
\* out, an open calling screen is the one InstanceManager hands to the
\* completions that must close it (InstanceManager.callingViewController,
\* endCallAndDismissWithTitle:, CallManager.m 395).
THEOREM OpenScreensAreKnown ==
  ASSUME OneAtATime
  PROVE  Spec => []OpenScreenIsCurrent
<1>1. Init => SoleScreenInv /\ OpenInv
  <2>1. ASSUME Init PROVE ManagerInv /\ \A c \in Calls : ~AroundScreen(c)
    <3>1. /\ Waiting = {} /\ delayed = {} /\ req = {} /\ cur = None
          /\ call = NoCall /\ \A c \in Calls : sdk[c] \notin Live
      BY <2>1 DEF Init, Waiting, Live
    <3>2. QED
      BY <3>1, CallCenterAssumption DEF ManagerInv, NoCall, AroundScreen, Around,
         Awaits, Later, Asked
  <2>2. ASSUME Init PROVE OpenInv
    <3>1. delayed = {} /\ req = {} /\ \A c \in Calls : vc[c].sig = "idle"
      BY <2>2 DEF Init, NoScreen
    <3>2. QED
      BY <3>1 DEF OpenInv, OpenScreenIsCurrent, Later, Asked
  <2>3. QED
    BY <2>1, <2>2 DEF SoleScreenInv
<1>2. TypeOK /\ MissedInv /\ BeginInv /\ SoleScreenInv /\ OpenInv /\ [Next]_vars
        => SoleScreenInv' /\ OpenInv'
  BY SoleScreenNext, OpenNext
<1>3. OpenInv => OpenScreenIsCurrent
  BY DEF OpenInv
<1>4. QED
  BY <1>1, <1>2, <1>3, BeginAlways, PTL DEF Spec
=============================================================================
