-------------------------- MODULE CallCenter_proofs --------------------------
(***************************************************************************)
(* What is proved of the call centre for every set of calls and CallKit    *)
(* identities and for every behaviour of the environment (Features),       *)
(* overlapping calls and audio interruptions included:                     *)
(*   TypeCorrect        the state keeps its type                           *)
(*   SessionIsTheSystems, AnswerNeedsAudio, MissedCallsAreOver,            *)
(*   DisplayedScreensEnd                                                   *)
(***************************************************************************)
EXTENDS CallCenter, TLAPS

-----------------------------------------------------------------------------
(* The records the handlers update keep their types.                       *)

\* The writes to a CallKitCall.
LEMMA CallUpdates ==
  ASSUME NEW k \in CallRecord
  PROVE  /\ \A v \in BOOLEAN : /\ [k EXCEPT !.answered = v] \in CallRecord
                               /\ [k EXCEPT !.audio = v] \in CallRecord
         /\ \A u \in Uuids \cup {None} :
              /\ [k EXCEPT !.uuid = u] \in CallRecord
              /\ [k EXCEPT !.answerAction = u] \in CallRecord
         /\ \A c \in Calls \cup {None}, d \in Calls \cup {None} :
              [k EXCEPT !.id = c, !.sc = d] \in CallRecord
  BY DEF CallRecord

\* The calls handlers create.
LEMMA NewCalls ==
  /\ NoCall \in CallRecord
  /\ \A c \in Calls, d \in Calls \cup {None} : NewCall(c, d) \in CallRecord
  /\ \A c \in Calls, u \in Uuids :
       [NoCall EXCEPT !.id = c, !.sc = c, !.uuid = u] \in CallRecord
  BY DEF CallRecord, NoCall, NewCall

\* The writes to a CallingViewController.
LEMMA ScreenUpdates ==
  /\ NoScreen \in Screen
  /\ [NoScreen EXCEPT !.sig = "ringing"] \in Screen
  /\ \A s \in Screen :
       /\ \A g \in Signals : [s EXCEPT !.sig = g] \in Screen
       /\ [s EXCEPT !.shown = FALSE] \in Screen
       /\ [s EXCEPT !.shown = TRUE, !.timeout = TRUE] \in Screen
       /\ [s EXCEPT !.sig = "answered", !.timer = TRUE, !.timeout = FALSE] \in Screen
       /\ [s EXCEPT !.closed = TRUE, !.timer = FALSE, !.timeout = FALSE] \in Screen
  BY DEF Screen, NoScreen, Signals

LEMMA ScreensUpdates ==
  ASSUME vc \in [Calls -> Screen], NEW c \in Calls
  PROVE  /\ [vc EXCEPT ![c] = [NoScreen EXCEPT !.sig = "ringing"]] \in [Calls -> Screen]
         /\ \A g \in Signals : [vc EXCEPT ![c].sig = g] \in [Calls -> Screen]
         /\ [vc EXCEPT ![c].shown = TRUE, ![c].timeout = TRUE] \in [Calls -> Screen]
         /\ StartTimer(c) \in [Calls -> Screen]
         /\ [vc EXCEPT ![c].closed = TRUE, ![c].timer = FALSE, ![c].timeout = FALSE]
              \in [Calls -> Screen]
  BY ScreenUpdates DEF StartTimer

LEMMA Dismissed ==
  ASSUME NEW s \in [Calls -> Screen]
  PROVE  Dismiss(s) \in [Calls -> Screen]
  BY ScreenUpdates DEF Dismiss

\* What is handed to the main queue, to Stringee, to CallKit and to a timer.
LEMMA Blocks ==
  ASSUME NEW c \in Calls, NEW op \in {"incoming", "signal", "dismiss", "update"}
  PROVE  BlockOf(op, c) \in Block
  BY DEF BlockOf, Block, Signals

LEMMA Asks ==
  ASSUME NEW c \in Calls \cup {None}
  PROVE  /\ \A op \in {"reject", "hangup"} : Ask(op, c) \in SUBSET Told
         /\ \A op \in {"make", "answer", "reject", "hangup", "dismiss"} :
              Ask(op, c) \in SUBSET Request
  BY DEF Ask, Told, Request

LEMMA EndCalls ==
  ASSUME NEW k \in CallRecord, NEW kitNow
  PROVE  EndCall(k, kitNow) \in SUBSET Action
  BY DEF EndCall, Action, CallRecord

LEMMA Deliverables ==
  ASSUME NEW acts \in SUBSET Action, NEW k
  PROVE  Deliverable(acts, k) \in SUBSET Action
  BY DEF Deliverable

LEMMA Presents ==
  ASSUME NEW c \in Calls
  PROVE  [op |-> "present", c |-> c, presented |-> FALSE, again |-> FALSE] \in Delayed
  BY DEF Delayed

\* Answering, with the manager's call and CallKit's state handed over.
LEMMA AnswerType ==
  ASSUME TypeOK, NEW k \in CallRecord, NEW kitNow \in [Uuids -> KitState],
         AnswerCallWithCondition(k, kitNow)
  PROVE  /\ call' \in CallRecord
         /\ kit' \in [Uuids -> KitState]
         /\ vc' \in [Calls -> Screen]
         /\ req' \in SUBSET Request
<1>1. k.sc \in Calls \cup {None} /\ k.answerAction \in Uuids \cup {None}
  BY DEF CallRecord
<1>2. CASE Anwser(k, kitNow)
  <2>1. vc' \in [Calls -> Screen]
    BY <1>2, ScreensUpdates DEF Anwser, Signals, TypeOK
  <2>2. Ask("answer", k.sc) \in SUBSET Request
    BY <1>1, Asks
  <2>3. [k EXCEPT !.answerAction = None] \in CallRecord
    BY CallUpdates
  <2>4. call' \in CallRecord /\ req' \in SUBSET Request
    BY <1>2, <2>2, <2>3 DEF Anwser, TypeOK
  <2>5. kit' \in [Uuids -> KitState]
    BY <1>1, <1>2 DEF Anwser, KitState
  <2> QED BY <2>1, <2>4, <2>5
<1>3. CASE call' = k /\ kit' = kitNow /\ UNCHANGED <<vc, req>>
  BY <1>3 DEF TypeOK
<1> QED BY <1>2, <1>3 DEF AnswerCallWithCondition

-----------------------------------------------------------------------------
(* Type correctness: one step per action.                                  *)

LEMMA EnvironmentType ==
  ASSUME TypeOK, NEW c \in Calls, Environment(c)
  PROVE  TypeOK'
<1>1. CASE PlaceCall(c)
  BY <1>1 DEF PlaceCall, TypeOK, Signals
<1>2. CASE HandleIncomingPushEvent(c)
  <2> USE <1>2 DEF TypeOK, HandleIncomingPushEvent
  <2>1. NewCall(c, None) \in CallRecord
    BY NewCalls
  <2>2. call' \in CallRecord
    BY <2>1
  <2>3. kit' \in [Uuids -> KitState] /\ reports' \in SUBSET Report
    BY DEF ReportIncomingCall, KitState, Report
  <2> QED BY <2>2, <2>3
<1>3. CASE IncomingCallWithStringeeClient(c)
  BY <1>3, Blocks DEF IncomingCallWithStringeeClient, TypeOK
<1>4. CASE CallToPhone(c)
  <2>1. [vc EXCEPT ![c] = [NoScreen EXCEPT !.sig = "ringing"]] \in [Calls -> Screen]
    BY ScreensUpdates DEF TypeOK
  <2> QED BY <1>4, <2>1, Presents DEF CallToPhone, TypeOK
<1>5. ASSUME NEW s \in {"answered", "busy", "ended"}, DidChangeSignalingState(c, s)
      PROVE  TypeOK'
  <2> USE <1>5 DEF TypeOK, DidChangeSignalingState
  <2> DEFINE b == [op |-> "signal", c |-> c, sig |-> s, prev |-> vc[c].sig]
  <2>1. Stored(s) \in Signals
    BY DEF Stored, Signals
  <2>2. [vc EXCEPT ![c].sig = Stored(s)] \in [Calls -> Screen]
    BY <2>1, ScreensUpdates
  <2>3. vc' \in [Calls -> Screen]
    BY <2>2
  <2>4. b \in Block
    BY DEF Screen, Block
  <2>5. mainq \in Seq(Block) /\ (mainq' = mainq \/ mainq' = Append(mainq, b))
    OBVIOUS
  <2>6. mainq' \in Seq(Block)
    <3> HIDE <1>5 DEF b, TypeOK, DidChangeSignalingState
    <3> QED BY <2>4, <2>5
  <2> QED BY <2>1, <2>3, <2>6
<1>6. ASSUME NEW s \in {"answered", "busy"}, DidHandleOnAnotherDevice(c, s)
      PROVE  TypeOK'
  <2> USE <1>6 DEF TypeOK, DidHandleOnAnotherDevice
  <2>1. BlockOf("dismiss", c) \in Block
    BY Blocks
  <2>2. mainq' \in Seq(Block)
    BY <2>1
  <2> QED BY <2>2 DEF Signals
<1>7. CASE AcceptTapped(c)
  BY <1>7 DEF AcceptTapped, TypeOK, CallRecord, Action
<1>8. CASE DeclineTapped(c)
  BY <1>8, EndCalls, Asks DEF DeclineTapped, TypeOK, CallRecord, Reject
<1>9. CASE EndCallTapped(c)
  BY <1>9, EndCalls, Asks DEF EndCallTapped, TypeOK, CallRecord, Hangup
<1> QED BY <1>1, <1>2, <1>3, <1>4, <1>5, <1>6, <1>7, <1>8, <1>9, Environment(c)
        DEF Environment

LEMMA MainQueueType ==
  ASSUME TypeOK, NEW c \in Calls, MainQueue(c)
  PROVE  TypeOK'
<1>1. CASE HandleIncomingCallEvent(c)
  <2> USE <1>1 DEF TypeOK, HandleIncomingCallEvent
  <2>1. mainq' \in Seq(Block)
    OBVIOUS
  <2>2. kit' \in [Uuids -> KitState] /\ reports' \in SUBSET Report
    BY DEF ReportIncomingCall, KitState, Report
  <2>3. NewCall(c, c) \in CallRecord /\ [call EXCEPT !.id = c, !.sc = c] \in CallRecord
    BY NewCalls, CallUpdates
  <2>4. call' \in CallRecord
    BY <2>3
  <2>5. /\ cur' \in Calls \cup {None}
        /\ vc' \in [Calls -> Screen]
        /\ delayed' \in SUBSET Delayed
        /\ told' \in SUBSET Told
        /\ req' \in SUBSET Request
    <3>1. CASE ShowCallingVC(c)
      <4>1. Ask("reject", c) \in SUBSET Told
        BY Asks
      <4>2. [vc EXCEPT ![c] = [NoScreen EXCEPT !.sig = "ringing"]] \in [Calls -> Screen]
        BY ScreensUpdates
      <4>3. CASE cur = None
        BY <3>1, <4>2, <4>3, Presents DEF ShowCallingVC
      <4>4. CASE cur # None
        BY <3>1, <4>1, <4>4 DEF ShowCallingVC
      <4> QED BY <4>3, <4>4
    <3>2. CASE UNCHANGED <<cur, vc, delayed, req, told>>
      BY <3>2
    <3> QED BY <3>1, <3>2
  <2> QED BY <2>1, <2>2, <2>4, <2>5
<1>2. CASE MainSignal(c)
  <2> USE <1>2 DEF TypeOK, MainSignal
  <2>1. vc' \in [Calls -> Screen]
    BY ScreensUpdates
  <2>2. mainq' \in Seq(Block)
    BY Blocks
  <2> QED BY <2>1, <2>2
<1>3. CASE UpdateAnswerState(c)
  <2> USE <1>3 DEF TypeOK, UpdateAnswerState
  <2>1. StartTimer(c) \in [Calls -> Screen]
    BY ScreensUpdates
  <2>2. mainq' \in Seq(Block)
    OBVIOUS
  <2> QED BY <2>1, <2>2
<1>4. ASSUME NEW active \in BOOLEAN, EndCallAndDismiss(c, active)
      PROVE  TypeOK'
  <2> USE <1>4 DEF TypeOK, EndCallAndDismiss
  <2> DEFINE ended == [vc EXCEPT ![c].closed = TRUE, ![c].timer = FALSE,
                                 ![c].timeout = FALSE]
  <2>1. ended \in [Calls -> Screen]
    BY ScreensUpdates
  <2>2. vc' \in [Calls -> Screen]
    BY <2>1, Dismissed
  <2>3. Closing(c) \in Delayed
    BY DEF Closing, Delayed, Screen
  <2>4. actions' \in SUBSET Action
    BY EndCalls
  <2>5. mainq' \in Seq(Block)
    OBVIOUS
  <2>6. req' \in SUBSET Request
    BY Asks
  <2> HIDE DEF ended
  <2>7. delayed' \in SUBSET Delayed /\ cur' \in Calls \cup {None}
    BY <2>3
  <2> QED BY <2>2, <2>4, <2>5, <2>6, <2>7, NewCalls
<1> QED BY <1>1, <1>2, <1>3, <1>4, MainQueue(c) DEF MainQueue

LEMMA CompletionsType ==
  ASSUME TypeOK, NEW c \in Calls, Completions(c)
  PROVE  TypeOK'
<1>1. CASE DismissCompleted(c)
  BY <1>1 DEF DismissCompleted, TypeOK
<1>2. ASSUME NEW op \in {"reject", "hangup"}, EndingCompleted(op, c)
      PROVE  TypeOK'
  BY <1>2, Blocks DEF EndingCompleted, TypeOK, TellScreen
<1>3. ASSUME NEW ok \in BOOLEAN, AnswerCompleted(c, ok)
      PROVE  TypeOK'
  <2>1. mainq' \in Seq(Block)
    BY <1>3, Blocks DEF AnswerCompleted, TypeOK, TellScreen
  <2>2. actions' \in SUBSET Action
    BY <1>3, EndCalls DEF AnswerCompleted, TypeOK
  <2>3. sdk' \in [Calls -> Signals]
    BY <1>3 DEF AnswerCompleted, TypeOK, Signals
  <2> QED BY <1>3, <2>1, <2>2, <2>3 DEF AnswerCompleted, TypeOK
<1>4. ASSUME NEW ok \in BOOLEAN, MakeCompleted(c, ok)
      PROVE  TypeOK'
  <2>1. CASE ok
    <3>1. CASE HasCall
      BY <1>4, <2>1, <3>1 DEF MakeCompleted, TypeOK
    <3>2. CASE ~HasCall
      <4>1. PICK u \in Uuids :
              /\ kit' = [kit EXCEPT ![u] = "reporting"]
              /\ call' = [NoCall EXCEPT !.id = c, !.sc = c, !.uuid = u]
              /\ actions' = actions \cup {[kind |-> "start", uuid |-> u]}
        BY <1>4, <2>1, <3>2 DEF MakeCompleted
      <4>2. call' \in CallRecord
        BY <4>1, NewCalls
      <4>3. kit' \in [Uuids -> KitState]
        BY <4>1 DEF TypeOK, KitState
      <4>4. actions' \in SUBSET Action
        BY <4>1 DEF TypeOK, Action
      <4> QED BY <1>4, <2>1, <3>2, <4>2, <4>3, <4>4 DEF MakeCompleted, TypeOK
    <3> QED BY <3>1, <3>2
  <2>2. CASE ~ok
    <3>1. BlockOf("dismiss", c) \in Block
      BY Blocks
    <3>2. mainq' \in Seq(Block)
      <4>1. mainq' = Append(mainq, BlockOf("dismiss", c))
        BY <1>4, <2>2 DEF MakeCompleted
      <4> QED BY <3>1, <4>1 DEF TypeOK
    <3>3. sdk' \in [Calls -> Signals]
      BY <1>4, <2>2 DEF MakeCompleted, TypeOK, Signals
    <3> QED BY <1>4, <2>2, <3>2, <3>3 DEF MakeCompleted, TypeOK
  <2> QED BY <2>1, <2>2
<1> QED BY <1>1, <1>2, <1>3, <1>4, Completions(c) DEF Completions

LEMMA CallKitType ==
  ASSUME TypeOK, NEW u \in Uuids, CallKit(u) \/ SystemAnswer(u) \/ SystemEnd(u)
  PROVE  TypeOK'
<1>1. CASE SystemAnswer(u)
  BY <1>1 DEF SystemAnswer, TypeOK, Action
<1>2. CASE SystemEnd(u)
  BY <1>2 DEF SystemEnd, TypeOK, Action
<1>3. CASE StartRefused(u)
  BY <1>3, Deliverables DEF StartRefused, TypeOK, KitState
<1>4. CASE PerformStartCallAction(u)
  BY <1>4 DEF PerformStartCallAction, TypeOK, KitState
<1>5. CASE PerformAnswerCallAction(u)
  <2> USE <1>5 DEF TypeOK, PerformAnswerCallAction
  <2> DEFINE answering == [kit EXCEPT ![u] = "answering"]
             k == [call EXCEPT !.answered = TRUE, !.answerAction = u]
  <2>1. answering \in [Uuids -> KitState]
    BY DEF KitState
  <2>2. k \in CallRecord
    BY CallUpdates
  <2>3. actions' \in SUBSET Action
    BY Deliverables
  <2>4. CASE HasCall
    <3>1. AnswerCallWithCondition(k, answering)
      BY <2>4
    <3> HIDE DEF k, answering
    <3> QED BY <2>1, <2>2, <2>3, <3>1, AnswerType
  <2>5. CASE ~HasCall
    BY <2>1, <2>3, <2>5
  <2> QED BY <2>4, <2>5
<1>6. CASE PerformEndCallAction(u)
  <2> USE <1>6 DEF TypeOK, PerformEndCallAction
  <2>1. kit' \in [Uuids -> KitState]
    BY DEF KitState
  <2>2. call.sc \in Calls \cup {None}
    BY DEF CallRecord
  <2>3. /\ actions' \in SUBSET Action
        /\ rejected' \in BOOLEAN
        /\ req' \in SUBSET Request
        /\ told' \in SUBSET Told
    BY <2>2, EndCalls, Asks, Deliverables DEF Reject, Hangup
  <2> QED BY <2>1, <2>3, NewCalls
<1>7. CASE AnswerActionTimedOut(u)
  BY <1>7, Deliverables DEF AnswerActionTimedOut, TypeOK, KitState
<1> QED BY <1>1, <1>2, <1>3, <1>4, <1>5, <1>6, <1>7 DEF CallKit

LEMMA AudioType ==
  ASSUME TypeOK, DidActivateAudioSession \/ DidDeactivateAudioSession
  PROVE  TypeOK'
<1>1. CASE DidActivateAudioSession
  <2> USE <1>1 DEF TypeOK, DidActivateAudioSession
  <2> DEFINE k == [call EXCEPT !.audio = TRUE]
  <2>1. k \in CallRecord
    BY CallUpdates
  <2>2. CASE HasCall
    <3>1. AnswerCallWithCondition(k, kit)
      BY <2>2
    <3> HIDE DEF k
    <3> QED BY <2>1, <3>1, AnswerType
  <2>3. CASE ~HasCall
    BY <2>3
  <2> QED BY <2>2, <2>3
<1>2. CASE DidDeactivateAudioSession
  BY <1>2, CallUpdates DEF DidDeactivateAudioSession, TypeOK
<1> QED BY <1>1, <1>2

LEMMA TypeNext == TypeOK /\ [Next]_vars => TypeOK'
<1> SUFFICES ASSUME TypeOK, [Next]_vars PROVE TypeOK'
  OBVIOUS
<1>1. ASSUME NEW c \in Calls, Present(c) PROVE TypeOK'
  <2>1. vc' \in [Calls -> Screen]
    <3>1. [vc EXCEPT ![c].shown = TRUE, ![c].timeout = TRUE] \in [Calls -> Screen]
      BY ScreensUpdates DEF TypeOK
    <3> QED BY <1>1, <3>1 DEF Present, TypeOK
  <2>2. sdk' \in [Calls -> Signals]
    BY <1>1 DEF Present, TypeOK, Signals
  <2>3. req' \in SUBSET Request
    <3>1. Ask("make", c) \in SUBSET Request
      BY Asks
    <3> QED BY <1>1, <3>1 DEF Present, TypeOK
  <2>4. delayed' \in SUBSET Delayed
    BY <1>1 DEF Present, TypeOK
  <2> QED BY <1>1, <2>1, <2>2, <2>3, <2>4 DEF Present, TypeOK
<1>2. ASSUME NEW c \in Calls, CheckCallTimeOut(c) PROVE TypeOK'
  BY <1>2, EndCalls, Asks, Blocks DEF CheckCallTimeOut, TypeOK, CallRecord, Hangup
<1>3. ASSUME NEW b \in delayed, Close(b) PROVE TypeOK'
  BY <1>3, Dismissed DEF Close, TypeOK
<1>4. ASSUME NEW r \in reports, NEW ok \in BOOLEAN, ReportCompleted(r, ok)
      PROVE  TypeOK'
  <2> USE <1>4 DEF TypeOK, ReportCompleted
  <2>1. r.uuid \in Uuids
    BY DEF Report
  <2>2. call' \in CallRecord
    BY <2>1, NewCalls, CallUpdates
  <2> QED BY <2>1, <2>2 DEF KitState
<1>5. CASE UNCHANGED vars
  BY <1>5 DEF vars, TypeOK
<1> QED BY <1>1, <1>2, <1>3, <1>4, <1>5, EnvironmentType, MainQueueType,
           CompletionsType, CallKitType, AudioType DEF Next

\* Whatever the interleaving, the state of the call centre keeps its type.
THEOREM TypeCorrect == Spec => []TypeOK
<1>1. Init => TypeOK
  <2> SUFFICES ASSUME Init PROVE TypeOK
    OBVIOUS
  <2> USE DEF Init
  <2>1. vc \in [Calls -> Screen] /\ call \in CallRecord
    BY NewCalls, ScreenUpdates
  <2>2. sdk \in [Calls -> Signals] /\ kit \in [Uuids -> KitState]
    BY DEF Signals, KitState
  <2>3. mainq \in Seq(Block)
    OBVIOUS
  <2> QED BY <2>1, <2>2, <2>3 DEF TypeOK
<1> QED BY <1>1, TypeNext, PTL DEF Spec

-----------------------------------------------------------------------------
(* The audio session.                                                      *)

\* What answering does to the manager's call.
LEMMA AnswerKeepsAudio ==
  ASSUME NEW k \in CallRecord, NEW kitNow, AnswerCallWithCondition(k, kitNow)
  PROVE  call'.audio = k.audio
  BY DEF AnswerCallWithCondition, Anwser, CallRecord

LEMMA AudioNext ==
  TypeOK /\ AudioIsTheSystems /\ [Next]_vars => AudioIsTheSystems'
<1> SUFFICES ASSUME TypeOK, AudioIsTheSystems, [Next]_vars PROVE AudioIsTheSystems'
  OBVIOUS
<1> USE DEF AudioIsTheSystems
<1>0. call \in CallRecord
  BY DEF TypeOK
<1>1. ASSUME NEW c \in Calls, Environment(c) PROVE AudioIsTheSystems'
  BY <1>1 DEF Environment, PlaceCall, HandleIncomingPushEvent, NewCall, NoCall,
     IncomingCallWithStringeeClient, CallToPhone, DidChangeSignalingState,
     DidHandleOnAnotherDevice, AcceptTapped, DeclineTapped, EndCallTapped
<1>2. ASSUME NEW c \in Calls, MainQueue(c) PROVE AudioIsTheSystems'
  <2>1. CASE HandleIncomingCallEvent(c)
    <3>1. [call EXCEPT !.id = c, !.sc = c].audio = call.audio
      BY <1>0 DEF CallRecord
    <3>2. NewCall(c, c).audio = FALSE
      BY DEF NewCall, NoCall
    <3> QED BY <2>1, <3>1, <3>2 DEF HandleIncomingCallEvent
  <2>2. CASE MainSignal(c) \/ UpdateAnswerState(c)
    BY <2>2 DEF MainSignal, UpdateAnswerState
  <2>3. ASSUME NEW active \in BOOLEAN, EndCallAndDismiss(c, active)
        PROVE  AudioIsTheSystems'
    BY <2>3 DEF EndCallAndDismiss, NoCall
  <2> QED BY <1>2, <2>1, <2>2, <2>3 DEF MainQueue
<1>3. ASSUME NEW c \in Calls, Completions(c) PROVE AudioIsTheSystems'
  BY <1>3 DEF Completions, DismissCompleted, EndingCompleted, AnswerCompleted,
     MakeCompleted, NoCall
<1>4. ASSUME NEW c \in Calls, Present(c) \/ CheckCallTimeOut(c)
      PROVE  AudioIsTheSystems'
  BY <1>4 DEF Present, CheckCallTimeOut
<1>5. ASSUME NEW b \in delayed, Close(b) PROVE AudioIsTheSystems'
  BY <1>5 DEF Close
<1>6. ASSUME NEW u \in Uuids, CallKit(u) \/ SystemAnswer(u) \/ SystemEnd(u)
      PROVE  AudioIsTheSystems'
  <2>1. CASE PerformAnswerCallAction(u)
    <3>1. CASE HasCall
      <4> DEFINE k == [call EXCEPT !.answered = TRUE, !.answerAction = u]
                 answering == [kit EXCEPT ![u] = "answering"]
      <4>1. k \in CallRecord /\ k.audio = call.audio
        BY <1>0, CallUpdates DEF CallRecord
      <4>2. AnswerCallWithCondition(k, answering) /\ session' = session
        BY <2>1, <3>1 DEF PerformAnswerCallAction
      <4> HIDE DEF k, answering
      <4> QED BY <4>1, <4>2, AnswerKeepsAudio
    <3>2. CASE ~HasCall
      BY <2>1, <3>2 DEF PerformAnswerCallAction
    <3> QED BY <3>1, <3>2
  <2>2. CASE PerformEndCallAction(u)
    BY <2>2 DEF PerformEndCallAction, NoCall
  <2> QED BY <1>6, <2>1, <2>2 DEF CallKit, StartRefused, PerformStartCallAction,
          AnswerActionTimedOut, SystemAnswer, SystemEnd
<1>7. ASSUME NEW r \in reports, NEW ok \in BOOLEAN, ReportCompleted(r, ok)
      PROVE  AudioIsTheSystems'
  BY <1>0, <1>7 DEF ReportCompleted, NoCall, CallRecord
<1>8. CASE DidActivateAudioSession
  BY <1>0, <1>8 DEF DidActivateAudioSession, HasCall
<1>9. CASE DidDeactivateAudioSession
  BY <1>0, <1>9 DEF DidDeactivateAudioSession, CallRecord
<1>10. CASE UNCHANGED vars
  BY <1>10 DEF vars
<1> QED BY <1>1, <1>2, <1>3, <1>4, <1>5, <1>6, <1>7, <1>8, <1>9, <1>10 DEF Next

\* The manager never believes it has an audio session CallKit took away.
THEOREM SessionIsTheSystems == Spec => []AudioIsTheSystems
<1>1. Init => AudioIsTheSystems
  BY DEF Init, NoCall, AudioIsTheSystems
<1> QED BY <1>1, TypeCorrect, AudioNext, PTL DEF Spec

-----------------------------------------------------------------------------
(* Answers.                                                                *)

\* A Stringee call is answered in one place only: when the audio session is
\* activated.
Answers(c) == Ask("answer", c) \subseteq req' \ req

LEMMA AnswerOnActivation ==
  ASSUME TypeOK, [Next]_vars, NEW c \in Calls, Answers(c)
  PROVE  DidActivateAudioSession
<1> USE DEF Answers
<1>0. [op |-> "answer", c |-> c] \in req' /\ [op |-> "answer", c |-> c] \notin req
  BY CallCenterAssumption DEF Ask
<1>1. ASSUME NEW d \in Calls, Environment(d) PROVE FALSE
  BY <1>0, <1>1 DEF Environment, PlaceCall, HandleIncomingPushEvent,
     IncomingCallWithStringeeClient, CallToPhone, DidChangeSignalingState,
     DidHandleOnAnotherDevice, AcceptTapped, DeclineTapped, EndCallTapped,
     Reject, Hangup, Ask
<1>2. ASSUME NEW d \in Calls, MainQueue(d) PROVE FALSE
  <2>1. CASE HandleIncomingCallEvent(d)
    BY <1>0, <2>1 DEF HandleIncomingCallEvent, ShowCallingVC
  <2>2. CASE MainSignal(d) \/ UpdateAnswerState(d)
    BY <1>0, <2>2 DEF MainSignal, UpdateAnswerState
  <2>3. ASSUME NEW active \in BOOLEAN, EndCallAndDismiss(d, active) PROVE FALSE
    BY <1>0, <2>3 DEF EndCallAndDismiss, Ask
  <2> QED BY <1>2, <2>1, <2>2, <2>3 DEF MainQueue
<1>3. ASSUME NEW d \in Calls, Completions(d) PROVE FALSE
  BY <1>0, <1>3 DEF Completions, DismissCompleted, EndingCompleted, AnswerCompleted,
     MakeCompleted
<1>4. ASSUME NEW d \in Calls, Present(d) \/ CheckCallTimeOut(d) PROVE FALSE
  BY <1>0, <1>4 DEF Present, CheckCallTimeOut, Hangup, Ask
<1>5. ASSUME NEW b \in delayed, Close(b) PROVE FALSE
  BY <1>0, <1>5 DEF Close
<1>6. ASSUME NEW u \in Uuids, CallKit(u) \/ SystemAnswer(u) \/ SystemEnd(u)
      PROVE  FALSE
  <2>1. CASE PerformAnswerCallAction(u)
    <3> DEFINE k == [call EXCEPT !.answered = TRUE, !.answerAction = u]
    <3>1. k.answerAction # None
      BY CallCenterAssumption DEF TypeOK, CallRecord
    <3>2. UNCHANGED req
      BY <2>1, <3>1 DEF PerformAnswerCallAction, AnswerCallWithCondition, Anwser
    <3> QED BY <1>0, <3>2
  <2>2. CASE PerformEndCallAction(u)
    BY <1>0, <2>2 DEF PerformEndCallAction, Reject, Hangup, Ask
  <2> QED BY <1>0, <1>6, <2>1, <2>2 DEF CallKit, StartRefused, PerformStartCallAction,
          AnswerActionTimedOut, SystemAnswer, SystemEnd
<1>7. ASSUME NEW r \in reports, NEW ok \in BOOLEAN, ReportCompleted(r, ok) PROVE FALSE
  BY <1>0, <1>7 DEF ReportCompleted
<1>8. CASE DidDeactivateAudioSession
  BY <1>0, <1>8 DEF DidDeactivateAudioSession
<1>9. CASE UNCHANGED vars
  BY <1>0, <1>9 DEF vars
<1> QED BY <1>1, <1>2, <1>3, <1>4, <1>5, <1>6, <1>7, <1>8, <1>9 DEF Next

\* Stringee is asked to answer only with the audio session active.
THEOREM AnswerNeedsAudio == Spec => AnswersWithAudio
<1>1. TypeOK /\ [Next]_vars =>
        [\A c \in Calls : Ask("answer", c) \subseteq req' \ req => session']_vars
  BY AnswerOnActivation DEF Answers, DidActivateAudioSession
<1> QED BY <1>1, TypeCorrect, PTL DEF Spec, AnswersWithAudio

-----------------------------------------------------------------------------
(* What CallKit still owes.                                                *)

\* An identity the application still waits for is CallKit's to report or to
\* start, by one request only.
Ledger ==
  /\ \A r \in reports : /\ kit[r.uuid] = "reporting"
                         /\ [kind |-> "start", uuid |-> r.uuid] \notin actions
                         /\ \A q \in reports : q.uuid = r.uuid => q = r
  /\ \A u \in Uuids : [kind |-> "start", uuid |-> u] \in actions => kit[u] = "reporting"

LEMMA LedgerNext ==
  ASSUME TypeOK, Ledger, [Next]_vars
  PROVE  Ledger'
<1>0. /\ kit \in [Uuids -> KitState]
      /\ \A r \in reports : r.uuid \in Uuids
  BY DEF TypeOK, Report
<1>a. ASSUME UNCHANGED <<kit, reports>>,
             \A u \in Uuids : [kind |-> "start", uuid |-> u] \in actions' =>
                                [kind |-> "start", uuid |-> u] \in actions
      PROVE  Ledger'
  BY <1>0, <1>a DEF Ledger
<1>b. ASSUME NEW k, NEW kitNow, NEW u \in Uuids
      PROVE  [kind |-> "start", uuid |-> u] \notin EndCall(k, kitNow)
  BY DEF EndCall
<1>1. ASSUME NEW c \in Calls, HandleIncomingPushEvent(c) \/ HandleIncomingCallEvent(c)
      PROVE  Ledger'
  <2>1. CASE UNCHANGED <<kit, reports>>
    BY <1>1, <2>1, <1>a DEF HandleIncomingPushEvent, HandleIncomingCallEvent
  <2>2. ASSUME NEW src \in {"push", "sdk"}, ReportIncomingCall(src) PROVE Ledger'
    <3>1. PICK u \in Uuids :
            /\ kit[u] = "free"
            /\ kit' = [kit EXCEPT ![u] = "reporting"]
            /\ reports' = reports \cup {[uuid |-> u, src |-> src]}
      BY <2>2 DEF ReportIncomingCall
    <3>2. actions' = actions
      BY <1>1 DEF HandleIncomingPushEvent, HandleIncomingCallEvent
    <3>3. [kind |-> "start", uuid |-> u] \notin actions
      BY <3>1 DEF Ledger
    <3>4. \A r \in reports : r.uuid # u
      BY <3>1 DEF Ledger
    <3> QED BY <1>0, <3>1, <3>2, <3>3, <3>4 DEF Ledger
  <2> QED BY <1>1, <2>1, <2>2 DEF HandleIncomingPushEvent, HandleIncomingCallEvent
<1>2. ASSUME NEW c \in Calls, Environment(c) PROVE Ledger'
  <2>1. CASE PlaceCall(c) \/ IncomingCallWithStringeeClient(c) \/ CallToPhone(c)
    BY <2>1, <1>a DEF PlaceCall, IncomingCallWithStringeeClient, CallToPhone
  <2>2. ASSUME NEW s \in {"answered", "busy", "ended"},
               DidChangeSignalingState(c, s) \/ DidHandleOnAnotherDevice(c, s)
        PROVE  Ledger'
    BY <2>2, <1>a DEF DidChangeSignalingState, DidHandleOnAnotherDevice
  <2>3. CASE AcceptTapped(c)
    BY <2>3, <1>a DEF AcceptTapped
  <2>4. CASE DeclineTapped(c) \/ EndCallTapped(c)
    BY <2>4, <1>a, <1>b DEF DeclineTapped, EndCallTapped, Reject, Hangup
  <2> QED BY <1>1, <1>2, <2>1, <2>2, <2>3, <2>4 DEF Environment
<1>3. ASSUME NEW c \in Calls, MainQueue(c) PROVE Ledger'
  <2>1. CASE MainSignal(c) \/ UpdateAnswerState(c)
    BY <2>1, <1>a DEF MainSignal, UpdateAnswerState
  <2>2. ASSUME NEW active \in BOOLEAN, EndCallAndDismiss(c, active) PROVE Ledger'
    BY <2>2, <1>a, <1>b DEF EndCallAndDismiss
  <2> QED BY <1>1, <1>3, <2>1, <2>2 DEF MainQueue
<1>4. ASSUME NEW c \in Calls, Completions(c) PROVE Ledger'
  <2>1. CASE DismissCompleted(c)
    BY <2>1, <1>a DEF DismissCompleted
  <2>2. ASSUME NEW op \in {"reject", "hangup"}, EndingCompleted(op, c) PROVE Ledger'
    BY <2>2, <1>a DEF EndingCompleted
  <2>3. ASSUME NEW ok \in BOOLEAN, AnswerCompleted(c, ok) PROVE Ledger'
    BY <2>3, <1>a, <1>b DEF AnswerCompleted
  <2>4. ASSUME NEW ok \in BOOLEAN, MakeCompleted(c, ok) PROVE Ledger'
    <3>1. CASE UNCHANGED <<call, kit, actions>>
      BY <2>4, <3>1, <1>a DEF MakeCompleted
    <3>2. ASSUME NEW u \in Uuids, kit[u] = "free",
                 kit' = [kit EXCEPT ![u] = "reporting"],
                 actions' = actions \cup {[kind |-> "start", uuid |-> u]}
          PROVE  Ledger'
      <4>1. reports' = reports /\ \A r \in reports : r.uuid # u
        BY <2>4, <3>2 DEF MakeCompleted, Ledger
      <4> QED BY <1>0, <3>2, <4>1 DEF Ledger
    <3> QED BY <2>4, <3>1, <3>2 DEF MakeCompleted
  <2> QED BY <1>4, <2>1, <2>2, <2>3, <2>4 DEF Completions
<1>5. ASSUME NEW c \in Calls, Present(c) \/ CheckCallTimeOut(c) PROVE Ledger'
  BY <1>5, <1>a, <1>b DEF Present, CheckCallTimeOut, Hangup
<1>6. ASSUME NEW b \in delayed, Close(b) PROVE Ledger'
  BY <1>6, <1>a DEF Close
<1>7. ASSUME NEW u \in Uuids, CallKit(u) \/ SystemAnswer(u) \/ SystemEnd(u) PROVE Ledger'
  <2>1. CASE SystemAnswer(u) \/ SystemEnd(u)
    BY <2>1, <1>a DEF SystemAnswer, SystemEnd
  <2>2. CASE StartRefused(u) \/ PerformStartCallAction(u)
    <3>1. kit[u] = "reporting" /\ \A r \in reports : r.uuid # u
      BY <2>2 DEF Ledger, StartRefused, PerformStartCallAction
    <3>2. reports' = reports /\ actions' \subseteq actions
          /\ [kind |-> "start", uuid |-> u] \notin actions'
      BY <1>0, <2>2 DEF StartRefused, PerformStartCallAction, Deliverable
    <3> QED BY <1>0, <2>2, <3>1, <3>2 DEF Ledger, StartRefused, PerformStartCallAction
  <2>3. CASE PerformAnswerCallAction(u)
    <3>1. /\ kit[u] = "ringing" /\ reports' = reports /\ actions' \subseteq actions
          /\ \A v \in Uuids : v # u => kit'[v] = kit[v]
      BY <1>0, <2>3 DEF PerformAnswerCallAction, AnswerCallWithCondition, Anwser, Deliverable
    <3> QED BY <1>0, <3>1 DEF Ledger
  <2>4. CASE PerformEndCallAction(u)
    <3>1. /\ kit[u] # "reporting" /\ reports' = reports
          /\ \A v \in Uuids : [kind |-> "start", uuid |-> v] \in actions' =>
                                [kind |-> "start", uuid |-> v] \in actions
      BY <2>4, <1>b DEF PerformEndCallAction, Deliverable, Reject, Hangup
    <3> QED BY <1>0, <2>4, <3>1 DEF Ledger, PerformEndCallAction
  <2>5. CASE AnswerActionTimedOut(u)
    BY <1>0, <2>5 DEF AnswerActionTimedOut, Deliverable, Ledger
  <2> QED BY <1>7, <2>1, <2>2, <2>3, <2>4, <2>5 DEF CallKit
<1>8. ASSUME NEW r \in reports, NEW ok \in BOOLEAN, ReportCompleted(r, ok) PROVE Ledger'
  <2>1. /\ kit[r.uuid] = "reporting" /\ actions' = actions
        /\ [kind |-> "start", uuid |-> r.uuid] \notin actions
        /\ \A q \in reports' : q.uuid # r.uuid
    BY <1>8 DEF Ledger, ReportCompleted
  <2> QED BY <1>0, <1>8, <2>1 DEF Ledger, ReportCompleted
<1>9. CASE DidActivateAudioSession
  <2>1. /\ UNCHANGED <<reports, actions>>
        /\ \A v \in Uuids : \/ kit'[v] = kit[v]
                             \/ (kit[v] = "answering" /\ kit'[v] = "active")
        /\ kit' \in [Uuids -> KitState]
    BY <1>0, <1>9 DEF DidActivateAudioSession, AnswerCallWithCondition, Anwser, KitState,
       TypeOK, CallRecord
  <2> QED BY <1>0, <2>1 DEF Ledger
<1>10. CASE DidDeactivateAudioSession
  BY <1>10, <1>a DEF DidDeactivateAudioSession
<1>11. CASE UNCHANGED vars
  BY <1>11, <1>a DEF vars
<1> QED BY <1>2, <1>3, <1>4, <1>5, <1>6, <1>7, <1>8, <1>9, <1>10, <1>11 DEF Next

\* Stringee reports an incoming call answered only after it was asked to.
LEMMA AnswerIsHeard ==
  ASSUME TypeOK, [Next]_vars, NEW c \in Incoming,
         sdk[c] # "answered", sdk'[c] = "answered"
  PROVE  [op |-> "answer", c |-> c] \in req
<1>0. c \in Calls /\ sdk \in [Calls -> Signals]
  BY DEF Calls, TypeOK
<1>1. ASSUME NEW d \in Calls, Environment(d) PROVE [op |-> "answer", c |-> c] \in req
  <2>1. ASSUME NEW s \in {"answered", "busy", "ended"}, DidChangeSignalingState(d, s)
        PROVE  [op |-> "answer", c |-> c] \in req
    BY <1>0, <2>1 DEF DidChangeSignalingState, Stored
  <2> QED BY <1>0, <1>1, <2>1 DEF Environment, PlaceCall, HandleIncomingPushEvent,
       IncomingCallWithStringeeClient, CallToPhone,
       DidHandleOnAnotherDevice, AcceptTapped, DeclineTapped, EndCallTapped
<1>2. ASSUME NEW d \in Calls, MainQueue(d) PROVE FALSE
  BY <1>2 DEF MainQueue, HandleIncomingCallEvent, MainSignal, UpdateAnswerState,
     EndCallAndDismiss
<1>3. ASSUME NEW d \in Calls, Completions(d) PROVE [op |-> "answer", c |-> c] \in req
  BY <1>0, <1>3 DEF Completions, DismissCompleted, EndingCompleted, AnswerCompleted,
     MakeCompleted
<1>4. ASSUME NEW d \in Calls, Present(d) \/ CheckCallTimeOut(d) PROVE FALSE
  BY <1>0, <1>4 DEF Present, CheckCallTimeOut
<1>5. ASSUME NEW b \in delayed, Close(b) PROVE FALSE
  BY <1>5 DEF Close
<1>6. ASSUME NEW u \in Uuids, CallKit(u) \/ SystemAnswer(u) \/ SystemEnd(u)
      PROVE  FALSE
  BY <1>6 DEF CallKit, StartRefused, PerformStartCallAction, PerformAnswerCallAction,
     PerformEndCallAction, AnswerActionTimedOut, SystemAnswer, SystemEnd
<1>7. ASSUME NEW r \in reports, NEW ok \in BOOLEAN, ReportCompleted(r, ok) PROVE FALSE
  BY <1>7 DEF ReportCompleted
<1>8. CASE DidActivateAudioSession \/ DidDeactivateAudioSession \/ UNCHANGED vars
  BY <1>8 DEF DidActivateAudioSession, DidDeactivateAudioSession, vars
<1> QED BY <1>1, <1>2, <1>3, <1>4, <1>5, <1>6, <1>7, <1>8 DEF Next

-----------------------------------------------------------------------------
(* Displayed screens.                                                      *)

\* A dismissal of c waits in the main queue.
Dismissing(c) == \E i \in DOMAIN mainq : mainq[i] = BlockOf("dismiss", c)

\* A block waiting in the main queue stays there until it is the first one.
LEMMA DismissingStays ==
  ASSUME TypeOK, NEW c \in Calls, Dismissing(c), NEW s \in Seq(Block),
         \/ mainq' = mainq \o s
         \/ /\ mainq # << >> /\ Head(mainq) # BlockOf("dismiss", c)
            /\ mainq' = Tail(mainq) \o s
  PROVE  Dismissing(c)'
<1>0. mainq \in Seq(Block)
  BY DEF TypeOK
<1>1. PICK i \in 1..Len(mainq) : mainq[i] = BlockOf("dismiss", c)
  BY <1>0 DEF Dismissing
<1>2. CASE mainq' = mainq \o s
  <2>1. i \in DOMAIN mainq' /\ mainq'[i] = mainq[i]
    BY <1>0, <1>2
  <2> QED BY <1>1, <2>1 DEF Dismissing, BlockOf
<1>3. CASE /\ mainq # << >> /\ Head(mainq) # BlockOf("dismiss", c)
           /\ mainq' = Tail(mainq) \o s
  <2>1. i # 1
    BY <1>0, <1>1, <1>3
  <2>2. /\ Tail(mainq) \in Seq(Block) /\ Len(Tail(mainq)) = Len(mainq) - 1
        /\ i - 1 \in 1..Len(Tail(mainq)) /\ Tail(mainq)[i - 1] = mainq[i]
    BY <1>0, <1>3, <2>1
  <2>3. i - 1 \in DOMAIN mainq' /\ mainq'[i - 1] = mainq[i]
    BY <1>3, <2>2
  <2> QED BY <1>1, <2>3 DEF Dismissing, BlockOf
<1> QED BY <1>2, <1>3

\* What a step may do to a displayed screen and to the blocks that wait for it:
\* no block of it is lost, no timer stopped.
Patient ==
  /\ \A c \in Calls : cur' = c /\ vc'[c].shown =>
       \/ vc'[c].timer \/ vc'[c].timeout
       \/ /\ cur = c /\ vc[c].shown
          /\ vc[c].timer => vc'[c].timer
          /\ vc[c].timeout => vc'[c].timeout
  /\ \A c \in Calls : Dismissing(c) => Dismissing(c)'
  /\ delayed \subseteq delayed'

LEMMA PatientSteps ==
  ASSUME Patient, DisplayedScreenEnds
  PROVE  DisplayedScreenEnds'
BY DEF Patient, DisplayedScreenEnds, LeavesDisplay, Dismissing

LEMMA DisplayedNext ==
  ASSUME TypeOK, DisplayedScreenEnds, [Next]_vars
  PROVE  DisplayedScreenEnds'
<1>0. /\ vc \in [Calls -> Screen] /\ cur \in Calls \cup {None} /\ None \notin Calls
      /\ mainq \in Seq(Block) /\ "answered" \in Signals
  BY CallCenterAssumption DEF TypeOK, Signals
<1> DEFINE Kept == \A c \in Calls : Dismissing(c) => Dismissing(c)'
<1>a. ASSUME UNCHANGED mainq PROVE Kept
  BY <1>a DEF Dismissing, BlockOf
<1>b. ASSUME NEW b \in Block, mainq' = Append(mainq, b) PROVE Kept
  <2>1. << b >> \in Seq(Block) /\ mainq' = mainq \o << b >>
    BY <1>0, <1>b
  <2> QED BY <2>1, DismissingStays
<1>c. ASSUME NEW s \in Seq(Block), mainq' = mainq \o s PROVE Kept
  BY <1>c, DismissingStays
<1>d. ASSUME mainq # << >>, NEW s \in Seq(Block), mainq' = Tail(mainq) \o s,
             Head(mainq).op # "dismiss"
      PROVE  Kept
  <2>1. \A c \in Calls : Head(mainq) # BlockOf("dismiss", c)
    BY <1>d DEF BlockOf
  <2> QED BY <1>d, <2>1, DismissingStays
<1>e. ASSUME mainq # << >>, mainq' = Tail(mainq), Head(mainq).op # "dismiss" PROVE Kept
  <2>1. << >> \in Seq(Block) /\ Tail(mainq) \in Seq(Block) /\ Tail(mainq) = Tail(mainq) \o << >>
    BY <1>0, <1>e
  <2> QED BY <1>d, <1>e, <2>1
<1>1. ASSUME NEW s \in Calls \cup {None}, NEW g \in Signals,
             vc' = [vc EXCEPT ![s].sig = g], UNCHANGED <<cur, delayed>>, Kept
      PROVE  Patient
  BY <1>0, <1>1 DEF Screen, Patient
<1>2. ASSUME UNCHANGED <<vc, cur, delayed>>, Kept
      PROVE  Patient
  BY <1>2 DEF Patient
<1>3. ASSUME NEW c \in Calls, vc' = StartTimer(c), UNCHANGED <<cur, delayed>>, Kept
      PROVE  Patient
  BY <1>0, <1>3 DEF Screen, StartTimer, Patient
<1>4. ASSUME NEW c \in Calls, cur' = c, delayed \subseteq delayed', Kept,
             vc' = [vc EXCEPT ![c] = [NoScreen EXCEPT !.sig = "ringing"]]
      PROVE  Patient
  BY <1>0, <1>4 DEF Screen, NoScreen, Patient
<1>5. ASSUME NEW k, NEW kitNow, AnswerCallWithCondition(k, kitNow),
             UNCHANGED <<cur, delayed, mainq>>
      PROVE  Patient
  BY <1>0, <1>1, <1>2, <1>5, <1>a DEF AnswerCallWithCondition, Anwser
<1>6. ASSUME NEW c \in Calls, Environment(c) PROVE Patient
  <2>1. ASSUME NEW s \in {"answered", "busy", "ended"}, DidChangeSignalingState(c, s)
        PROVE  Patient
    <3>1. CASE UNCHANGED <<vc, mainq>>
      BY <1>2, <1>a, <2>1, <3>1 DEF DidChangeSignalingState
    <3>2. CASE /\ vc' = [vc EXCEPT ![c].sig = Stored(s)]
               /\ mainq' = Append(mainq, [op |-> "signal", c |-> c, sig |-> s,
                                          prev |-> vc[c].sig])
      <4>1. [op |-> "signal", c |-> c, sig |-> s, prev |-> vc[c].sig] \in Block
        BY <1>0, <2>1 DEF Block, Screen
      <4>2. Stored(s) \in Signals /\ UNCHANGED <<cur, delayed>>
        BY <2>1 DEF Stored, Signals, DidChangeSignalingState
      <4> QED BY <1>1, <1>b, <3>2, <4>1, <4>2
    <3> QED BY <2>1, <3>1, <3>2 DEF DidChangeSignalingState
  <2>2. CASE CallToPhone(c)
    BY <1>4, <1>a, <2>2 DEF CallToPhone
  <2>3. CASE IncomingCallWithStringeeClient(c)
    BY <1>2, <1>b, <2>3, Blocks DEF IncomingCallWithStringeeClient
  <2>4. ASSUME NEW s \in {"answered", "busy"}, DidHandleOnAnotherDevice(c, s)
        PROVE  Patient
    BY <1>2, <1>a, <1>b, <2>4, Blocks DEF DidHandleOnAnotherDevice
  <2> QED BY <1>2, <1>6, <1>a, <2>1, <2>2, <2>3, <2>4 DEF Environment, PlaceCall,
       HandleIncomingPushEvent, AcceptTapped, DeclineTapped, EndCallTapped
<1>7. ASSUME NEW c \in Calls, HandleIncomingCallEvent(c) PROVE Patient
  <2>1. Kept
    BY <1>7, <1>e DEF HandleIncomingCallEvent, BlockOf
  <2>2. CASE UNCHANGED <<cur, vc, delayed>>
    BY <1>2, <2>1, <2>2
  <2>3. CASE ShowCallingVC(c)
    BY <1>2, <1>4, <2>1, <2>3 DEF ShowCallingVC
  <2> QED BY <1>7, <2>2, <2>3 DEF HandleIncomingCallEvent
<1>8. ASSUME NEW c \in Calls, MainSignal(c) \/ UpdateAnswerState(c) PROVE Patient
  <2>1. CASE MainSignal(c)
    <3>1. << >> \in Seq(Block) /\ << BlockOf("dismiss", c) >> \in Seq(Block)
      BY Blocks
    <3>2. Kept
      BY <1>d, <2>1, <3>1 DEF MainSignal
    <3> QED BY <1>2, <1>3, <2>1, <3>2 DEF MainSignal
  <2>2. CASE UpdateAnswerState(c)
    BY <1>3, <1>e, <2>2 DEF UpdateAnswerState, BlockOf
  <2> QED BY <1>8, <2>1, <2>2
<1>9. ASSUME NEW c \in Calls, NEW active \in BOOLEAN, EndCallAndDismiss(c, active)
      PROVE  DisplayedScreenEnds'
  <2> SUFFICES ASSUME NEW d \in Calls, cur' = d, vc'[d].shown
               PROVE  vc'[d].timer \/ vc'[d].timeout \/ LeavesDisplay(d)'
    BY DEF DisplayedScreenEnds
  <2> DEFINE ended == [vc EXCEPT ![c].closed = TRUE, ![c].timer = FALSE,
                                 ![c].timeout = FALSE]
  <2>1. /\ cur = d /\ vc' = ended /\ delayed' = delayed \cup {Closing(c)}
        /\ mainq # << >> /\ Head(mainq) = BlockOf("dismiss", c) /\ mainq' = Tail(mainq)
    BY <1>0, <1>9 DEF EndCallAndDismiss
  <2>2. vc[d].shown
    BY <1>0, <2>1 DEF Screen
  <2>3. CASE d = c
    <3>1. Closing(c).op = "close" /\ Closing(c).c = c /\ Closing(c).presented
      BY <2>2, <2>3 DEF Closing
    <3> QED BY <2>1, <2>3, <3>1 DEF LeavesDisplay
  <2>4. CASE d # c
    <3>1. vc'[d] = vc[d]
      BY <1>0, <2>1, <2>4
    <3>2. vc[d].timer \/ vc[d].timeout \/ LeavesDisplay(d)
      BY <2>1, <2>2 DEF DisplayedScreenEnds
    <3>3. << >> \in Seq(Block) /\ mainq' = Tail(mainq) \o << >>
          /\ Head(mainq) # BlockOf("dismiss", d)
      BY <1>0, <2>1, <2>4 DEF BlockOf
    <3>4. Dismissing(d) => Dismissing(d)'
      BY <2>1, <3>3, DismissingStays
    <3> QED BY <2>1, <3>1, <3>2, <3>4 DEF LeavesDisplay, Dismissing
  <2> QED BY <2>3, <2>4
<1>10. ASSUME NEW c \in Calls, Completions(c) PROVE DisplayedScreenEnds'
  <2>1. CASE DismissCompleted(c)
    BY <1>0, <2>1 DEF DismissCompleted, DisplayedScreenEnds
  <2>2. \A op \in {"dismiss", "update"} : TellScreen(op) \in Seq(Block)
    BY <1>0, Blocks DEF TellScreen
  <2>3. ASSUME NEW op \in {"reject", "hangup"}, EndingCompleted(op, c) PROVE Patient
    BY <1>2, <1>c, <2>2, <2>3 DEF EndingCompleted
  <2>4. ASSUME NEW ok \in BOOLEAN, AnswerCompleted(c, ok) PROVE Patient
    BY <1>2, <1>c, <2>2, <2>4 DEF AnswerCompleted
  <2>5. ASSUME NEW ok \in BOOLEAN, MakeCompleted(c, ok) PROVE Patient
    BY <1>2, <1>a, <1>b, <2>5, Blocks DEF MakeCompleted
  <2> QED BY <1>10, <2>1, <2>3, <2>4, <2>5, PatientSteps DEF Completions
<1>11. ASSUME NEW c \in Calls, Present(c) PROVE DisplayedScreenEnds'
  <2>1. CASE UNCHANGED vc
    <3>1. mainq' = mainq /\ cur' = cur
          /\ \A b \in delayed : b.op = "close" => b \in delayed'
      BY <1>11 DEF Present
    <3> QED BY <2>1, <3>1 DEF DisplayedScreenEnds, LeavesDisplay, BlockOf
  <2>2. CASE vc' = [vc EXCEPT ![c].shown = TRUE, ![c].timeout = TRUE]
    <3>1. mainq' = mainq /\ cur' = cur
          /\ \A b \in delayed : b.op = "close" => b \in delayed'
      BY <1>11 DEF Present
    <3>2. /\ vc'[c].timeout
          /\ \A d \in Calls : d # c => vc'[d] = vc[d]
      BY <1>0, <2>2 DEF Screen
    <3> QED BY <3>1, <3>2 DEF DisplayedScreenEnds, LeavesDisplay, BlockOf
  <2> QED BY <1>11, <2>1, <2>2 DEF Present
<1>12. ASSUME NEW c \in Calls, CheckCallTimeOut(c) PROVE Patient
  BY <1>2, <1>b, <1>12, Blocks DEF CheckCallTimeOut
<1>13. ASSUME NEW b \in delayed, Close(b) PROVE DisplayedScreenEnds'
  BY <1>0, <1>13 DEF Close, DisplayedScreenEnds
<1>14. ASSUME NEW u \in Uuids, CallKit(u) \/ SystemAnswer(u) \/ SystemEnd(u)
       PROVE  Patient
  <2>1. CASE PerformAnswerCallAction(u)
    BY <1>2, <1>5, <1>a, <2>1 DEF PerformAnswerCallAction
  <2> QED BY <1>2, <1>14, <1>a, <2>1 DEF CallKit, StartRefused, PerformStartCallAction,
       PerformEndCallAction, AnswerActionTimedOut, SystemAnswer, SystemEnd
<1>15. ASSUME NEW r \in reports, NEW ok \in BOOLEAN, ReportCompleted(r, ok)
       PROVE  Patient
  BY <1>2, <1>15, <1>a DEF ReportCompleted
<1>16. CASE DidActivateAudioSession
  BY <1>2, <1>5, <1>16, <1>a, PatientSteps DEF DidActivateAudioSession
<1>17. CASE DidDeactivateAudioSession \/ UNCHANGED vars
  BY <1>2, <1>17, <1>a, PatientSteps DEF DidDeactivateAudioSession, vars
<1> QED BY <1>6, <1>7, <1>8, <1>9, <1>10, <1>11, <1>12, <1>13, <1>14, <1>15, <1>16, <1>17,
     PatientSteps DEF Next, MainQueue

\* The current screen never stays on display with neither a talk to count, nor
\* a timeout to come, nor a block waiting that takes it off the display or
\* decides to (startTimer, checkCallTimeOut, endCallAndDismissWithTitle:).
THEOREM DisplayedScreensEnd == Spec => []DisplayedScreenEnds
<1>1. Init => DisplayedScreenEnds
  BY DEF Init, NoScreen, DisplayedScreenEnds
<1> QED BY <1>1, TypeCorrect, DisplayedNext, PTL DEF Spec

-----------------------------------------------------------------------------
(* Missed calls.                                                           *)

\* The strengthening: only an incoming call is missed, and the block that
\* will report one was dispatched when its call was already over.
EndIsOver ==
  /\ missed \subseteq Incoming
  /\ \A i \in 1..Len(mainq) :
       mainq[i].op = "signal" /\ mainq[i].sig = "ended" /\ mainq[i].c \in Incoming =>
         sdk[mainq[i].c] = "over"

\* An incoming call that is over stays over.
Lasting == \A c \in Incoming : sdk[c] = "over" => sdk'[c] = "over"

LEMMA OverLasts ==
  ASSUME TypeOK, [Next]_vars
  PROVE  Lasting
<1> SUFFICES ASSUME NEW c \in Incoming, sdk[c] = "over" PROVE sdk'[c] = "over"
  BY DEF Lasting
<1>0. c \in Calls /\ c \notin Outgoing /\ sdk \in [Calls -> Signals]
  BY CallCenterAssumption DEF Calls, TypeOK
<1>1. ASSUME NEW d \in Calls, Environment(d) PROVE sdk'[c] = "over"
  <2>1. ASSUME NEW s \in {"answered", "busy", "ended"},
               DidChangeSignalingState(d, s) \/ DidHandleOnAnotherDevice(d, s)
        PROVE  sdk'[c] = "over"
    BY <1>0, <2>1 DEF DidChangeSignalingState, DidHandleOnAnotherDevice, Live
  <2> QED BY <1>0, <1>1, <2>1 DEF Environment, PlaceCall, HandleIncomingPushEvent,
       IncomingCallWithStringeeClient, CallToPhone, AcceptTapped, DeclineTapped,
       EndCallTapped
<1>2. ASSUME NEW d \in Calls, MainQueue(d) PROVE sdk' = sdk
  BY <1>2 DEF MainQueue, HandleIncomingCallEvent, MainSignal, UpdateAnswerState,
     EndCallAndDismiss
<1>3. ASSUME NEW d \in Calls, Completions(d) PROVE sdk'[c] = "over"
  BY <1>0, <1>3 DEF Completions, DismissCompleted, EndingCompleted, AnswerCompleted,
     MakeCompleted, Live
<1>4. ASSUME NEW d \in Calls, Present(d) \/ CheckCallTimeOut(d) PROVE sdk'[c] = "over"
  BY <1>0, <1>4 DEF Present, CheckCallTimeOut
<1>5. ASSUME NEW b \in delayed, Close(b) PROVE sdk' = sdk
  BY <1>5 DEF Close
<1>6. ASSUME NEW u \in Uuids, CallKit(u) \/ SystemAnswer(u) \/ SystemEnd(u)
      PROVE  sdk' = sdk
  BY <1>6 DEF CallKit, StartRefused, PerformStartCallAction, PerformAnswerCallAction,
     PerformEndCallAction, AnswerActionTimedOut, SystemAnswer, SystemEnd
<1>7. ASSUME NEW r \in reports, NEW ok \in BOOLEAN, ReportCompleted(r, ok) PROVE sdk' = sdk
  BY <1>7 DEF ReportCompleted
<1>8. CASE DidActivateAudioSession \/ DidDeactivateAudioSession \/ UNCHANGED vars
  BY <1>8 DEF DidActivateAudioSession, DidDeactivateAudioSession, vars
<1> QED BY <1>1, <1>2, <1>3, <1>4, <1>5, <1>6, <1>7, <1>8 DEF Next

\* A block that reports no end of a call.
Harmless(b) == b.op # "signal" \/ b.sig # "ended"

MissedInv == EndIsOver /\ MissedIsOver

\* How a step may change the main queue: it hands over a block, or it takes
\* the first and may hand over one more.
LEMMA QueueGrows ==
  ASSUME TypeOK, MissedInv, Lasting, missed' = missed, NEW b \in Block, Harmless(b),
         mainq' = Append(mainq, b)
  PROVE  MissedInv'
  BY DEF TypeOK, Harmless, MissedInv, MissedIsOver, EndIsOver, Lasting

LEMMA QueueShrinks ==
  ASSUME TypeOK, MissedInv, Lasting, missed' = missed, NEW b \in Block, Harmless(b),
         mainq # << >>, mainq' = Tail(mainq) \/ mainq' = Append(Tail(mainq), b)
  PROVE  MissedInv'
<1> USE DEF TypeOK, Harmless, MissedInv, MissedIsOver, EndIsOver, Lasting
<1>1. CASE mainq' = Tail(mainq)
  BY <1>1
<1>2. CASE mainq' = Append(Tail(mainq), b)
  BY <1>2
<1> QED BY <1>1, <1>2

LEMMA BlocksHarmless ==
  ASSUME NEW c \in Calls, NEW op \in {"incoming", "signal", "dismiss", "update"}
  PROVE  Harmless(BlockOf(op, c)) /\ BlockOf(op, c) \in Block
  BY Blocks DEF Harmless, BlockOf

LEMMA MissedNext ==
  ASSUME TypeOK, MissedInv, [Next]_vars
  PROVE  MissedInv'
<1>0. /\ Lasting
      /\ sdk \in [Calls -> Signals] /\ mainq \in Seq(Block)
      /\ Incoming \subseteq Calls
  BY OverLasts DEF TypeOK, Calls
<1>1. ASSUME UNCHANGED <<mainq, missed>> PROVE MissedInv'
  BY <1>0, <1>1 DEF MissedInv, EndIsOver, MissedIsOver, Lasting
<1>2. ASSUME NEW c \in Calls, NEW op \in {"incoming", "signal", "dismiss", "update"},
             missed' = missed, mainq' = Append(mainq, BlockOf(op, c))
      PROVE  MissedInv'
  BY <1>0, <1>2, BlocksHarmless, QueueGrows
<1>3. ASSUME NEW c \in Calls, missed' = missed, mainq # << >>, mainq' = Tail(mainq)
      PROVE  MissedInv'
  BY <1>0, <1>3, BlocksHarmless, QueueShrinks
<1>4. ASSUME NEW c \in Calls, Environment(c) PROVE MissedInv'
  <2>1. ASSUME NEW s \in {"answered", "busy", "ended"}, DidChangeSignalingState(c, s)
        PROVE  MissedInv'
    <3> DEFINE b == [op |-> "signal", c |-> c, sig |-> s, prev |-> vc[c].sig]
    <3>1. CASE UNCHANGED mainq
      BY <1>1, <2>1, <3>1 DEF DidChangeSignalingState
    <3>2. CASE mainq' = Append(mainq, b)
      <4>1. missed' = missed /\ (s = "ended" => sdk'[c] = "over")
        BY <1>0, <2>1 DEF DidChangeSignalingState, Stored
      <4>2. b \in Block /\ b.op = "signal" /\ b.c = c /\ b.sig = s
        BY DEF Block, TypeOK, Screen
      <4>3. CASE s = "ended"
        <5> HIDE DEF b
        <5>1. \A i \in 1..Len(mainq') : mainq'[i] = b \/ (i \in 1..Len(mainq) /\ mainq'[i] = mainq[i])
          BY <1>0, <3>2, <4>2
        <5> QED BY <1>0, <4>1, <4>2, <4>3, <5>1 DEF MissedInv, EndIsOver, MissedIsOver, Lasting
      <4>4. CASE s # "ended"
        <5>1. Harmless(b)
          BY <4>2, <4>4 DEF Harmless
        <5> HIDE DEF b
        <5> QED BY <1>0, <3>2, <4>1, <4>2, <5>1, QueueGrows
      <4> QED BY <4>3, <4>4
    <3> QED BY <2>1, <3>1, <3>2 DEF DidChangeSignalingState
  <2>2. ASSUME NEW s \in {"answered", "busy"}, DidHandleOnAnotherDevice(c, s)
        PROVE  MissedInv'
    BY <1>1, <1>2, <2>2 DEF DidHandleOnAnotherDevice
  <2>3. CASE IncomingCallWithStringeeClient(c)
    BY <1>2, <2>3 DEF IncomingCallWithStringeeClient
  <2> QED BY <1>1, <1>4, <2>1, <2>2, <2>3 DEF Environment, PlaceCall,
       HandleIncomingPushEvent, CallToPhone, AcceptTapped, DeclineTapped, EndCallTapped
<1>5. ASSUME NEW c \in Calls, MainQueue(c) PROVE MissedInv'
  <2>1. CASE HandleIncomingCallEvent(c)
    BY <1>3, <2>1 DEF HandleIncomingCallEvent
  <2>2. CASE UpdateAnswerState(c)
    BY <1>3, <2>2 DEF UpdateAnswerState
  <2>3. ASSUME NEW active \in BOOLEAN, EndCallAndDismiss(c, active) PROVE MissedInv'
    BY <1>3, <2>3 DEF EndCallAndDismiss
  <2>4. CASE MainSignal(c)
    <3> DEFINE h == Head(mainq)
    <3>1. /\ mainq # << >> /\ h.op = "signal" /\ h.c = c /\ UNCHANGED sdk
          /\ mainq' \in {Tail(mainq), Append(Tail(mainq), BlockOf("dismiss", c))}
      <4>1. CASE h.sig \in {"busy", "ended"}
        <5>1. mainq' = Tail(mainq) \o << BlockOf("dismiss", c) >>
          BY <2>4, <4>1 DEF MainSignal
        <5>2. Tail(mainq) \in Seq(Block)
          BY <1>0, <2>4 DEF MainSignal
        <5>3. mainq' = Append(Tail(mainq), BlockOf("dismiss", c))
          BY <5>1, <5>2, BlocksHarmless
        <5> QED BY <2>4, <5>3 DEF MainSignal
      <4>2. CASE h.sig \notin {"busy", "ended"}
        <5>1. mainq' = Tail(mainq) \o << >>
          BY <2>4, <4>2 DEF MainSignal
        <5>2. Tail(mainq) \in Seq(Block)
          BY <1>0, <2>4 DEF MainSignal
        <5>3. mainq' = Tail(mainq)
          BY <5>1, <5>2
        <5> QED BY <2>4, <5>3 DEF MainSignal
      <4> QED BY <4>1, <4>2
    <3>2. CASE missed' = missed
      BY <1>0, <3>1, <3>2, BlocksHarmless, QueueShrinks
    <3>3. CASE missed' = missed \cup {c} /\ c \in Incoming /\ h.sig = "ended"
      <4>1. sdk[c] = "over"
        <5>1. 1 \in 1..Len(mainq) /\ h = mainq[1]
          BY <1>0, <3>1
        <5> QED BY <3>1, <3>3, <5>1 DEF MissedInv, EndIsOver
      <4>2. \A i \in 1..Len(mainq') :
              \/ mainq'[i] = BlockOf("dismiss", c)
              \/ i+1 \in 1..Len(mainq) /\ mainq'[i] = mainq[i+1]
        BY <1>0, <3>1, BlocksHarmless
      <4>3. BlockOf("dismiss", c).op = "dismiss"
        BY DEF BlockOf
      <4>4. EndIsOver'
        BY <3>1, <3>3, <4>2, <4>3 DEF MissedInv, EndIsOver
      <4>5. MissedIsOver'
        BY <3>1, <3>3, <4>1 DEF MissedInv, MissedIsOver
      <4> QED BY <4>4, <4>5 DEF MissedInv
    <3> QED BY <2>4, <3>2, <3>3 DEF MainSignal
  <2> QED BY <1>5, <2>1, <2>2, <2>3, <2>4 DEF MainQueue
<1>6. ASSUME NEW c \in Calls, Completions(c) PROVE MissedInv'
  <2>1. CASE UNCHANGED <<mainq, missed>>
    BY <1>1, <2>1
  <2>2. ASSUME NEW op \in {"dismiss", "update"}, missed' = missed,
               mainq' = mainq \o TellScreen(op)
        PROVE  MissedInv'
    <3>1. CASE cur = None
      BY <1>0, <1>1, <2>2, <3>1 DEF TellScreen
    <3>2. CASE cur # None
      <4>1. cur \in Calls
        BY <3>2 DEF TypeOK
      <4>2. mainq' = Append(mainq, BlockOf(op, cur))
        BY <1>0, <2>2, <3>2, <4>1, BlocksHarmless DEF TellScreen
      <4> QED BY <1>2, <2>2, <4>1, <4>2
    <3> QED BY <3>1, <3>2
  <2>3. ASSUME NEW op \in {"reject", "hangup"}, EndingCompleted(op, c) PROVE MissedInv'
    BY <2>2, <2>3 DEF EndingCompleted
  <2>4. ASSUME NEW ok \in BOOLEAN, AnswerCompleted(c, ok) PROVE MissedInv'
    BY <2>2, <2>4 DEF AnswerCompleted
  <2>5. ASSUME NEW ok \in BOOLEAN, MakeCompleted(c, ok) PROVE MissedInv'
    BY <1>1, <1>2, <2>5 DEF MakeCompleted
  <2> QED BY <1>6, <2>1, <2>3, <2>4, <2>5 DEF Completions, DismissCompleted
<1>7. ASSUME NEW c \in Calls, Present(c) \/ CheckCallTimeOut(c) PROVE MissedInv'
  BY <1>1, <1>2, <1>7 DEF Present, CheckCallTimeOut
<1>8. ASSUME NEW b \in delayed, Close(b) PROVE MissedInv'
  BY <1>1, <1>8 DEF Close
<1>9. ASSUME NEW u \in Uuids, CallKit(u) \/ SystemAnswer(u) \/ SystemEnd(u)
      PROVE  MissedInv'
  BY <1>1, <1>9 DEF CallKit, StartRefused, PerformStartCallAction,
     PerformAnswerCallAction, PerformEndCallAction, AnswerActionTimedOut,
     SystemAnswer, SystemEnd
<1>10. ASSUME NEW r \in reports, NEW ok \in BOOLEAN, ReportCompleted(r, ok)
       PROVE  MissedInv'
  BY <1>1, <1>10 DEF ReportCompleted
<1>11. CASE DidActivateAudioSession \/ DidDeactivateAudioSession \/ UNCHANGED vars
  BY <1>1, <1>11 DEF DidActivateAudioSession, DidDeactivateAudioSession, vars
<1> HIDE DEF MissedInv
<1> QED BY <1>4, <1>5, <1>6, <1>7, <1>8, <1>9, <1>10, <1>11 DEF Next

\* A missed-call notification is only ever about a call that is over, however
\* long its block waited and whatever happened in between.
THEOREM MissedCallsAreOver == Spec => []MissedIsOver
<1>1. Init => MissedInv
  BY DEF Init, MissedInv, EndIsOver, MissedIsOver
<1>2. MissedInv => MissedIsOver
  BY DEF MissedInv
<1> QED BY <1>1, <1>2, TypeCorrect, MissedNext, PTL DEF Spec

=============================================================================
