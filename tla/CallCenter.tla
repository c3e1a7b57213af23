----------------------------- MODULE CallCenter -----------------------------
(***************************************************************************)
(* The call centre of the iOS host (ios/Mobio_App/CallCenter): CallManager,*)
(* the CallKitCall record it keeps, CallingViewController and              *)
(* InstanceManager, interleaved with the three parties that call them back *)
(* asynchronously: PushKit, the CallKit system service and the Stringee    *)
(* SDK.                                                                    *)
(*                                                                         *)
(* Every handler is one action.  Handlers run on the main thread; what     *)
(* they hand to others stays in the state until it is called back:         *)
(*   reports  reportNewIncomingCall completions CallKit still owes         *)
(*   actions  CX transactions requested (by the app or by the system UI)   *)
(*   req      Stringee requests whose completion handler has not run       *)
(*   mainq    blocks given to dispatch_async(main), first in first out     *)
(*   delayed  blocks given to dispatch_after(main): they run at any later  *)
(*            moment                                                       *)
(* A Stringee call, its CallingViewController and its call id are one      *)
(* identity: initWithParams makes at most one screen per Stringee call.    *)
(***************************************************************************)
EXTENDS Naturals, Sequences, FiniteSets

CONSTANTS
  Incoming,   \* Stringee calls the server may offer to this agent
  Outgoing,   \* Stringee calls the agent may place
  Uuids,      \* CallKit identities; [NSUUID UUID] returns an unused one
  MaxLive,    \* how many incoming calls the server lets ring or talk at once
  MaxQueue,   \* bound on mainq, in the guards of the environment only
  Features,   \* the optional behaviours of the environment an instance has
  None        \* Objective-C nil

Calls == Incoming \cup Outgoing

ASSUME CallCenterAssumption ==
  /\ Incoming \cap Outgoing = {}
  /\ None \notin Calls \cup Uuids
  /\ MaxLive \in Nat
  /\ MaxQueue \in Nat
  /\ Features \subseteq {"push", "background", "elsewhere", "timeout",
                        "interruption", "refusal", "overlap"}

VARIABLES
  call,       \* CallManager.call, a CallKitCall (NoCall when nil)
  rejected,   \* CallManager.rejected
  cur,        \* InstanceManager.callingViewController
  vc,         \* the CallingViewController of each Stringee call
  sdk,        \* StringeeCall.signalingState; Busy and Ended are both "over"
  pushed,     \* calls whose VoIP push was delivered
  offered,    \* calls whose StringeeCall was handed to the app
  kit,        \* state of each CallKit call in the system service
  reports, actions, req, mainq, delayed,
  told,       \* what the app ever asked Stringee to reject or to hang up
  session,    \* whether the system activated the audio session
  missed      \* calls for which a missed-call notification was scheduled

vars == <<call, rejected, cur, vc, sdk, pushed, offered, kit, reports,
          actions, req, told, mainq, delayed, session, missed>>

-----------------------------------------------------------------------------
Signals  == {"idle", "ringing", "answered", "over"}
Live     == {"ringing", "answered"}
KitState == {"free", "reporting", "ringing", "answering", "active", "ended"}

CallRecord == [id : Calls \cup {None}, sc : Calls \cup {None},
               incoming : BOOLEAN, uuid : Uuids \cup {None},
               answered : BOOLEAN, answerAction : Uuids \cup {None},
               audio : BOOLEAN]
Screen     == [shown : BOOLEAN, closed : BOOLEAN,
               sig : Signals, timer : BOOLEAN, timeout : BOOLEAN]
Report     == [uuid : Uuids, src : {"push", "sdk"}]
Action     == [kind : {"start", "answer", "end"}, uuid : Uuids]
Told       == [op : {"reject", "hangup"}, c : Calls]
Request    == Told \cup [op : {"make", "answer", "dismiss"}, c : Calls]
Block      == [op : {"incoming", "signal", "dismiss", "update"}, c : Calls,
               sig : {"none", "answered", "busy", "ended"}, prev : Signals]
Delayed    == [op : {"present", "close"}, c : Calls, presented : BOOLEAN,
               again : BOOLEAN]

\* The manager without a call: self.call == nil.
NoCall == [id |-> None, sc |-> None, incoming |-> FALSE, uuid |-> None,
           answered |-> FALSE, answerAction |-> None, audio |-> FALSE]
NoScreen == [shown |-> FALSE, closed |-> FALSE,
             sig |-> "idle", timer |-> FALSE, timeout |-> FALSE]

TypeOK ==
  /\ call \in CallRecord
  /\ rejected \in BOOLEAN
  /\ cur \in Calls \cup {None}
  /\ vc \in [Calls -> Screen]
  /\ sdk \in [Calls -> Signals]
  /\ pushed \in SUBSET Incoming
  /\ offered \in SUBSET Incoming
  /\ kit \in [Uuids -> KitState]
  /\ reports \in SUBSET Report
  /\ actions \in SUBSET Action
  /\ req \in SUBSET Request
  /\ told \in SUBSET Told
  /\ mainq \in Seq(Block)
  /\ delayed \in SUBSET Delayed
  /\ session \in BOOLEAN
  /\ missed \in SUBSET Calls

Init ==
  /\ call = NoCall
  /\ rejected = FALSE
  /\ cur = None
  /\ vc = [c \in Calls |-> NoScreen]
  /\ sdk = [c \in Calls |-> "idle"]
  /\ pushed = {}
  /\ offered = {}
  /\ kit = [u \in Uuids |-> "free"]
  /\ reports = {}
  /\ actions = {}
  /\ req = {}
  /\ told = {}
  /\ mainq = << >>
  /\ delayed = {}
  /\ session = FALSE
  /\ missed = {}

-----------------------------------------------------------------------------
(* What the handlers are built from.                                       *)

HasCall == call.id # None

\* -endCall: a CXEndCallAction for the manager's call, when it has a uuid.
EndCall(k, kitNow) ==
  IF k.uuid = None \/ kitNow[k.uuid] = "ended" THEN {}
  ELSE {[kind |-> "end", uuid |-> k.uuid]}

\* The transactions of acts CallKit will still perform when its calls are
\* in the states k; it drops the others, and the app ignores the error.
Deliverable(acts, k) ==
  {a \in acts : \/ a.kind = "start"  /\ k[a.uuid] = "reporting"
                \/ a.kind = "answer" /\ k[a.uuid] = "ringing"
                \/ a.kind = "end"    /\ k[a.uuid] # "ended"}

\* The block of dispatch_async(main) that runs op for the screen of c.
BlockOf(op, c) == [op |-> op, c |-> c, sig |-> "none", prev |-> "idle"]

\* The blocks an SDK thread hands over when it tells the current screen op.
TellScreen(op) == IF cur = None THEN << >> ELSE << BlockOf(op, cur) >>

\* Variant: busy and ended stay two states.
StoredAsIs(s) == s

Stored(s) == IF s \in {"busy", "ended"} THEN "over" ELSE s

RoomInMainq == Len(mainq) < MaxQueue

\* The screen of c is not deallocated: something refers to it.  Only then is
\* it still the (weak) delegate of its Stringee call.
Alive(c) ==
  \/ cur = c
  \/ vc[c].shown \/ vc[c].timer \/ vc[c].timeout
  \/ \E i \in DOMAIN mainq : mainq[i].c = c /\ mainq[i].op # "incoming"
  \/ \E b \in delayed : b.c = c
  \/ [op |-> "make", c |-> c] \in req

\* The Stringee request a handler issues, if it found a call to send it for.
Ask(op, c) == IF c = None THEN {} ELSE {[op |-> op, c |-> c]}

\* Variant: only the timeout timer is stopped.
StartNoTimer(c) == [vc EXCEPT ![c].sig = "answered", ![c].timeout = FALSE]

\* -startTimer: the talking timer replaces the 90 second timeout timer.
StartTimer(c) ==
  [vc EXCEPT ![c].sig = "answered", ![c].timer = TRUE, ![c].timeout = FALSE]

\* Variant: a rejection is not remembered.
RejectUnremembered(k, acts, kitNow) ==
  IF k.id = None THEN UNCHANGED <<rejected, req, told>> /\ actions' = acts
  ELSE /\ UNCHANGED rejected
       /\ actions' = acts \cup EndCall(k, kitNow)
       /\ req' = req \cup Ask("reject", k.sc)
       /\ told' = told \cup Ask("reject", k.sc)

\* -reject: and -hangup: with k the manager's call: both end the CallKit
\* call; only a rejection is remembered by CallManager.rejected.
Reject(k, acts, kitNow) ==
  IF k.id = None THEN UNCHANGED <<rejected, req, told>> /\ actions' = acts
  ELSE /\ rejected' = TRUE
       /\ actions' = acts \cup EndCall(k, kitNow)
       /\ req' = req \cup Ask("reject", k.sc)
       /\ told' = told \cup Ask("reject", k.sc)
Hangup(k, acts, kitNow) ==
  IF k.id = None THEN UNCHANGED <<rejected, req, told>> /\ actions' = acts
  ELSE /\ UNCHANGED rejected
       /\ actions' = acts \cup EndCall(k, kitNow)
       /\ req' = req \cup Ask("hangup", k.sc)
       /\ told' = told \cup Ask("hangup", k.sc)

\* A call of the manager before CallKit told its uuid.
NewCall(c, sc) ==
  [NoCall EXCEPT !.id = c, !.sc = sc, !.incoming = TRUE]

\* -reportIncomingCall: with a new uuid.
ReportIncomingCall(src) ==
  \E u \in Uuids :
    /\ kit[u] = "free"
    /\ kit' = [kit EXCEPT ![u] = "reporting"]
    /\ reports' = reports \cup {[uuid |-> u, src |-> src]}

\* -showCallingVC: one screen at a time, otherwise the call is refused
\* (the completion of that request is empty).
ShowCallingVC(c) ==
  IF cur # None
  THEN /\ told' = told \cup Ask("reject", c)
       /\ UNCHANGED <<cur, vc, delayed, req>>
  ELSE /\ cur' = c
       /\ vc' = [vc EXCEPT ![c] = [NoScreen EXCEPT !.sig = "ringing"]]
       /\ delayed' = delayed \cup
            {[op |-> "present", c |-> c, presented |-> FALSE, again |-> FALSE]}
       /\ UNCHANGED <<req, told>>

\* Variant: the Stringee call is answered before the action is fulfilled.
AnwserBeforeFulfil(k, kitNow) ==
  /\ vc' = IF cur = None THEN vc ELSE [vc EXCEPT ![cur].sig = "answered"]
  /\ call' = k
  /\ kit' = kitNow
  /\ req' = req \cup Ask("answer", k.sc)

\* Variant: no return after fulfilling the held action.
AnwserWithoutReturn(k, kitNow) ==
  /\ vc' = IF cur = None THEN vc ELSE [vc EXCEPT ![cur].sig = "answered"]
  /\ call' = [k EXCEPT !.answerAction = None]
  /\ kit' = [u \in Uuids |->
               IF u = k.answerAction /\ kitNow[u] = "answering" THEN "active"
                                                                ELSE kitNow[u]]
  /\ req' = req \cup Ask("answer", k.sc)

\* -anwser: with k the manager's call.  A held CallKit action is fulfilled
\* first; only without one is the Stringee call answered.
Anwser(k, kitNow) ==
  /\ vc' = IF cur = None THEN vc ELSE [vc EXCEPT ![cur].sig = "answered"]
  /\ IF k.answerAction # None
     THEN /\ call' = [k EXCEPT !.answerAction = None]
          /\ kit' = [kitNow EXCEPT ![k.answerAction] =
                       IF @ = "answering" THEN "active" ELSE @]
          /\ UNCHANGED req
     ELSE /\ call' = k
          /\ kit' = kitNow
          /\ req' = req \cup Ask("answer", k.sc)

AnswerCallWithCondition(k, kitNow) ==
  IF /\ k.incoming /\ k.answered /\ k.sc # None
     /\ k.audio \/ k.answerAction # None
  THEN Anwser(k, kitNow)
  ELSE call' = k /\ kit' = kitNow /\ UNCHANGED <<vc, req>>

-----------------------------------------------------------------------------
(* The server and the pushes.                                              *)

\* Nothing of an earlier call is left to be done.
AtRest ==
  /\ ~HasCall /\ cur = None
  /\ reports = {} /\ actions = {} /\ req = {}
  /\ mainq = << >> /\ delayed = {}

\* A new call starts when nothing of an earlier one is left, or at any time.
Quiet ==
  \/ "overlap" \in Features
  \/ AtRest /\ \A c \in Calls : sdk[c] \notin Live

\* The server starts an incoming call.
PlaceCall(c) ==
  /\ c \in Incoming
  /\ sdk[c] = "idle"
  /\ Quiet
  /\ Cardinality({d \in Incoming : sdk[d] \in Live}) < MaxLive
  /\ sdk' = [sdk EXCEPT ![c] = "ringing"]
  /\ UNCHANGED <<call, rejected, cur, vc, pushed, offered, kit, reports,
                 actions, req, told, mainq, delayed, session, missed>>

\* A VoIP push with callStatus "started", on the main thread.  It may be late.
HandleIncomingPushEvent(c) ==
  /\ "push" \in Features
  /\ c \in Incoming \ pushed
  /\ sdk[c] # "idle"
  /\ pushed' = pushed \cup {c}
  /\ \/ HasCall /\ UNCHANGED <<call, kit, reports>>
     \/ /\ ~HasCall
        /\ call' = NewCall(c, None)
        /\ ReportIncomingCall("push")
  /\ UNCHANGED <<rejected, cur, vc, sdk, offered, actions, req, told, mainq,
                 delayed, session, missed>>

\* The SDK delivers the StringeeCall; handleIncomingCallEvent: dispatches.
IncomingCallWithStringeeClient(c) ==
  /\ c \in Incoming \ offered
  /\ sdk[c] = "ringing"
  /\ RoomInMainq
  /\ offered' = offered \cup {c}
  /\ mainq' = Append(mainq, BlockOf("incoming", c))
  /\ UNCHANGED <<call, rejected, cur, vc, sdk, pushed, kit, reports, actions,
                 req, told, delayed, session, missed>>

\* The block of handleIncomingCallEvent:.  A manager that has a call adopts
\* the StringeeCall whatever the id of the call it has.
HandleIncomingCallEvent(c) ==
  /\ mainq # << >>
  /\ Head(mainq) = BlockOf("incoming", c)
  /\ mainq' = Tail(mainq)
  /\ \/ /\ ~HasCall
        /\ call' = NewCall(c, c)
        /\ ReportIncomingCall("sdk")
        /\ ShowCallingVC(c)
     \/ /\ HasCall
        /\ call' = [call EXCEPT !.id = c, !.sc = c]
        /\ IF cur = None THEN ShowCallingVC(c)
                         ELSE UNCHANGED <<cur, vc, delayed, req, told>>
        /\ UNCHANGED <<kit, reports>>
  /\ UNCHANGED <<rejected, sdk, pushed, offered, actions, session, missed>>

\* The state of a Stringee call changes; its screen, when there is one, is
\* the delegate: the new state is stored at once, the rest is dispatched.
DidChangeSignalingState(c, s) ==
  /\ sdk[c] \in Live
  /\ \/ /\ s = "answered"
        /\ sdk[c] = "ringing"
        /\ c \in Incoming => [op |-> "answer", c |-> c] \in req
     \/ s = "busy" /\ sdk[c] = "ringing"
     \/ s = "ended"
  /\ sdk' = [sdk EXCEPT ![c] = Stored(s)]
  /\ \/ /\ Alive(c)
        /\ RoomInMainq
        /\ vc' = [vc EXCEPT ![c].sig = Stored(s)]
        /\ mainq' = Append(mainq, [op |-> "signal", c |-> c, sig |-> s,
                                   prev |-> vc[c].sig])
     \/ ~Alive(c) /\ UNCHANGED <<vc, mainq>>
  /\ UNCHANGED <<call, rejected, cur, pushed, offered, kit, reports, actions,
                 req, told, delayed, session, missed>>

\* Variants: a talk counts as missed; the notification for every new state.
MainSignalOfAnyCall(c) ==
  /\ mainq # << >>
  /\ Head(mainq).op = "signal"
  /\ Head(mainq).c = c
  /\ LET b == Head(mainq)
     IN  /\ vc' = IF b.sig = "answered" THEN StartTimer(c) ELSE vc
         /\ mainq' = Tail(mainq) \o IF b.sig \in {"busy", "ended"}
                                    THEN << BlockOf("dismiss", c) >> ELSE << >>
         /\ missed' = IF b.sig = "ended" /\ ~rejected /\ c \in Incoming
                      THEN missed \cup {c} ELSE missed
         /\ rejected' = IF b.sig = "ended" THEN FALSE ELSE rejected
  /\ UNCHANGED <<call, cur, sdk, pushed, offered, kit, reports, actions, req, told,
                 delayed, session>>
MainSignalTooEarly(c) ==
  /\ mainq # << >>
  /\ Head(mainq).op = "signal"
  /\ Head(mainq).c = c
  /\ LET b == Head(mainq)
     IN  /\ vc' = IF b.sig = "answered" THEN StartTimer(c) ELSE vc
         /\ mainq' = Tail(mainq) \o IF b.sig \in {"busy", "ended"}
                                    THEN << BlockOf("dismiss", c) >> ELSE << >>
         /\ missed' = IF ~rejected /\ c \in Incoming /\ b.prev # "answered"
                      THEN missed \cup {c} ELSE missed
         /\ rejected' = FALSE
  /\ UNCHANGED <<call, cur, sdk, pushed, offered, kit, reports, actions, req, told,
                 delayed, session>>
\* Variant: the end of a call is noted, its screen is not closed.
MainSignalLeftOpen(c) ==
  /\ mainq # << >>
  /\ Head(mainq).op = "signal"
  /\ Head(mainq).c = c
  /\ LET b == Head(mainq)
     IN  /\ vc' = IF b.sig = "answered" THEN StartTimer(c) ELSE vc
         /\ mainq' = Tail(mainq) \o IF b.sig = "busy" THEN << BlockOf("dismiss", c) >>
                                                     ELSE << >>
         /\ IF b.sig = "ended"
            THEN /\ missed' = IF ~rejected /\ c \in Incoming /\ b.prev # "answered"
                              THEN missed \cup {c} ELSE missed
                 /\ rejected' = FALSE
            ELSE UNCHANGED <<missed, rejected>>
  /\ UNCHANGED <<call, cur, sdk, pushed, offered, kit, reports, actions, req, told,
                 delayed, session>>

\* The block of didChangeSignalingState:.
MainSignal(c) ==
  /\ mainq # << >>
  /\ Head(mainq).op = "signal"
  /\ Head(mainq).c = c
  /\ LET b == Head(mainq)
     IN  /\ vc' = IF b.sig = "answered" THEN StartTimer(c) ELSE vc
         /\ mainq' = Tail(mainq) \o IF b.sig \in {"busy", "ended"}
                                    THEN << BlockOf("dismiss", c) >> ELSE << >>
         /\ IF b.sig = "ended"
            THEN /\ missed' = IF ~rejected /\ c \in Incoming /\ b.prev # "answered"
                              THEN missed \cup {c} ELSE missed
                 /\ rejected' = FALSE
            ELSE UNCHANGED <<missed, rejected>>
  /\ UNCHANGED <<call, cur, sdk, pushed, offered, kit, reports, actions, req, told,
                 delayed, session>>

\* didHandleOnAnotherDevice: another device of the agent took or refused c.
\* A call taken elsewhere sends this device no further signal, a refused one
\* still ends.
DidHandleOnAnotherDevice(c, s) ==
  /\ "elsewhere" \in Features
  /\ c \in Incoming
  /\ Alive(c)
  /\ sdk[c] = "ringing"
  /\ \/ /\ s = "answered"
        /\ RoomInMainq
        /\ mainq' = Append(mainq, BlockOf("dismiss", c))
        /\ sdk' = [sdk EXCEPT ![c] = "over"]
        /\ UNCHANGED rejected
     \/ s = "busy" /\ rejected' = TRUE /\ UNCHANGED <<mainq, sdk>>
  /\ UNCHANGED <<call, cur, vc, pushed, offered, kit, reports, actions,
                 req, told, delayed, session, missed>>

-----------------------------------------------------------------------------
(* CallKit.                                                                *)

\* The completion of reportNewIncomingCall.  It finds whatever call the
\* manager has by then: on success that call gets the uuid, on failure it is
\* dropped.  For a push the block goes through the main queue (85); CallKit's
\* ringing and the block are one step here.
ReportCompleted(r, ok) ==
  /\ r \in reports
  /\ ok \/ "refusal" \in Features
  /\ reports' = reports \ {r}
  /\ kit' = [kit EXCEPT ![r.uuid] = IF ok THEN "ringing" ELSE "ended"]
  /\ call' = IF ~HasCall THEN call
             ELSE IF ok THEN [call EXCEPT !.uuid = r.uuid] ELSE NoCall
  /\ UNCHANGED <<rejected, cur, vc, sdk, pushed, offered, actions, req, told, mainq,
                 delayed, session, missed>>

\* The agent answers or ends a call in the system's own call screen.
SystemAnswer(u) ==
  /\ kit[u] = "ringing"
  /\ actions' = actions \cup {[kind |-> "answer", uuid |-> u]}
  /\ UNCHANGED <<call, rejected, cur, vc, sdk, pushed, offered, kit, reports,
                 req, told, mainq, delayed, session, missed>>
SystemEnd(u) ==
  /\ kit[u] \in {"ringing", "answering", "active"}
  /\ actions' = actions \cup {[kind |-> "end", uuid |-> u]}
  /\ UNCHANGED <<call, rejected, cur, vc, sdk, pushed, offered, kit, reports,
                 req, told, mainq, delayed, session, missed>>

\* CallKit may refuse a new outgoing call; the completion of
\* requestTransaction: ignores the error.
StartRefused(u) ==
  /\ "refusal" \in Features
  /\ [kind |-> "start", uuid |-> u] \in actions
  /\ kit' = [kit EXCEPT ![u] = "ended"]
  /\ actions' = Deliverable(actions, kit')
  /\ UNCHANGED <<call, rejected, cur, vc, sdk, pushed, offered, reports, req, told,
                 mainq, delayed, session, missed>>

PerformStartCallAction(u) ==
  /\ [kind |-> "start", uuid |-> u] \in actions
  /\ actions' = actions \ {[kind |-> "start", uuid |-> u]}
  /\ kit' = [kit EXCEPT ![u] = "active"]
  /\ UNCHANGED <<call, rejected, cur, vc, sdk, pushed, offered, reports, req, told,
                 mainq, delayed, session, missed>>

\* Without a call the action is neither fulfilled nor failed.
PerformAnswerCallAction(u) ==
  /\ [kind |-> "answer", uuid |-> u] \in actions
  /\ kit[u] = "ringing"
  /\ LET answering == [kit EXCEPT ![u] = "answering"]
     IN  /\ actions' = Deliverable(actions, answering)
         /\ IF ~HasCall
            THEN kit' = answering /\ UNCHANGED <<call, vc, req>>
            ELSE AnswerCallWithCondition(
                   [call EXCEPT !.answered = TRUE, !.answerAction = u], answering)
  /\ UNCHANGED <<told, rejected, cur, sdk, pushed, offered, reports, mainq, delayed,
                 session, missed>>

\* Variant: the current screen is forgotten at once, as code that is
\* commented out in performEndCallAction: did.
PerformEndCallActionForgetting(u) ==
  /\ [kind |-> "end", uuid |-> u] \in actions
  /\ kit[u] \in {"ringing", "answering", "active"}
  /\ kit' = [kit EXCEPT ![u] = "ended"]
  /\ LET rest == Deliverable(actions, kit')
     IN  IF call.sc # None /\ sdk[call.sc] # "over"
         THEN IF call.incoming /\ ~call.answered THEN Reject(call, rest, kit')
                                                 ELSE Hangup(call, rest, kit')
         ELSE actions' = rest /\ UNCHANGED <<rejected, req, told>>
  /\ call' = NoCall
  /\ cur' = None
  /\ UNCHANGED <<vc, sdk, pushed, offered, reports, mainq, delayed,
                 session, missed>>

\* The end action of any uuid ends the manager's call: action.callUUID is
\* not compared with call.uuid.
PerformEndCallAction(u) ==
  /\ [kind |-> "end", uuid |-> u] \in actions
  /\ kit[u] \in {"ringing", "answering", "active"}
  /\ kit' = [kit EXCEPT ![u] = "ended"]
  /\ LET rest == Deliverable(actions, kit')
     IN  IF call.sc # None /\ sdk[call.sc] # "over"
         THEN IF call.incoming /\ ~call.answered THEN Reject(call, rest, kit')
                                                 ELSE Hangup(call, rest, kit')
         ELSE actions' = rest /\ UNCHANGED <<rejected, req, told>>
  /\ call' = NoCall
  /\ UNCHANGED <<cur, vc, sdk, pushed, offered, reports, mainq, delayed,
                 session, missed>>

\* CallKit gives up an answer action nobody fulfilled and ends the call;
\* timedOutPerformingAction: does nothing.
AnswerActionTimedOut(u) ==
  /\ kit[u] = "answering"
  /\ kit' = [kit EXCEPT ![u] = "ended"]
  /\ actions' = Deliverable(actions, kit')
  /\ UNCHANGED <<call, rejected, cur, vc, sdk, pushed, offered, reports, req, told, mainq, delayed, session, missed>>

DidActivateAudioSession ==
  /\ ~session
  /\ \E u \in Uuids : kit[u] = "active"
  /\ session' = TRUE
  /\ IF ~HasCall THEN UNCHANGED <<call, vc, kit, req>>
     ELSE AnswerCallWithCondition([call EXCEPT !.audio = TRUE], kit)
  /\ UNCHANGED <<told, rejected, cur, sdk, pushed, offered, reports, actions, mainq,
                 delayed, missed>>

\* Variant: the manager keeps believing it has the session.
DidDeactivateUnnoticed ==
  /\ session
  /\ "interruption" \in Features \/ \A u \in Uuids : kit[u] # "active"
  /\ session' = FALSE
  /\ UNCHANGED <<call, rejected, cur, vc, sdk, pushed, offered, kit, reports,
                 actions, req, told, mainq, delayed, missed>>

DidDeactivateAudioSession ==
  /\ session
  /\ "interruption" \in Features \/ \A u \in Uuids : kit[u] # "active"
  /\ session' = FALSE
  /\ call' = [call EXCEPT !.audio = FALSE]
  /\ UNCHANGED <<rejected, cur, vc, sdk, pushed, offered, kit, reports,
                 actions, req, told, mainq, delayed, missed>>

-----------------------------------------------------------------------------
(* Completions of Stringee requests.                                       *)

\* reject and hangup, whatever their status, tell the screen shown by then.
EndingCompleted(op, c) ==
  /\ [op |-> op, c |-> c] \in req
  /\ op \in {"reject", "hangup"}
  /\ RoomInMainq
  /\ req' = req \ {[op |-> op, c |-> c]}
  /\ mainq' = mainq \o TellScreen("dismiss")
  /\ UNCHANGED <<told, call, rejected, cur, vc, sdk, pushed, offered, kit, reports,
                 actions, delayed, session, missed>>

\* Variant: the screen is told to count whatever the status.
AnswerCompletedUnchecked(c, ok) ==
  /\ [op |-> "answer", c |-> c] \in req
  /\ RoomInMainq
  /\ req' = req \ {[op |-> "answer", c |-> c]}
  /\ mainq' = mainq \o TellScreen("update")
  /\ \/ /\ ok
        /\ sdk[c] \in Live
        /\ sdk' = [sdk EXCEPT ![c] = "answered"]
     \/ ~ok /\ UNCHANGED sdk
  /\ UNCHANGED <<told, call, rejected, cur, vc, pushed, offered, kit, reports,
                 actions, delayed, session, missed>>

\* The completion of answer.  Stringee answers only a call that is still live:
\* an assumption about the SDK.
AnswerCompleted(c, ok) ==
  /\ [op |-> "answer", c |-> c] \in req
  /\ RoomInMainq
  /\ req' = req \ {[op |-> "answer", c |-> c]}
  /\ mainq' = mainq \o TellScreen(IF ok THEN "update" ELSE "dismiss")
  /\ \/ /\ ok
        /\ sdk[c] \in Live
        /\ sdk' = [sdk EXCEPT ![c] = "answered"]
        /\ UNCHANGED actions
     \/ /\ ~ok
        /\ actions' = IF cur = None THEN actions \cup EndCall(call, kit) ELSE actions
        /\ UNCHANGED sdk
  /\ UNCHANGED <<told, call, rejected, cur, vc, pushed, offered, kit, reports,
                 delayed, session, missed>>

\* makeCallWithCompletionHandler: a call made becomes the manager's call,
\* unless it has one; a call that could not be made closes its screen.
MakeCompleted(c, ok) ==
  /\ [op |-> "make", c |-> c] \in req
  /\ req' = req \ {[op |-> "make", c |-> c]}
  /\ \/ /\ ~ok
        /\ RoomInMainq
        /\ mainq' = Append(mainq, BlockOf("dismiss", c))
        /\ sdk' = [sdk EXCEPT ![c] = "over"]
        /\ UNCHANGED <<call, kit, actions>>
     \/ /\ ok
        /\ IF HasCall THEN UNCHANGED <<call, kit, actions>>
           ELSE \E u \in Uuids :
                  /\ kit[u] = "free"
                  /\ kit' = [kit EXCEPT ![u] = "reporting"]
                  /\ call' = [NoCall EXCEPT !.id = c, !.sc = c, !.uuid = u]
                  /\ actions' = actions \cup {[kind |-> "start", uuid |-> u]}
        /\ UNCHANGED <<mainq, sdk>>
  /\ UNCHANGED <<told, rejected, cur, vc, pushed, offered, reports, delayed,
                 session, missed>>

-----------------------------------------------------------------------------
(* The calling screen.                                                     *)

\* callToPhone: the agent dials from the application, which no calling
\* screen covers.
CallToPhone(c) ==
  /\ c \in Outgoing
  /\ vc[c] = NoScreen
  /\ Quiet
  /\ \A d \in Calls : ~vc[d].shown
  /\ cur' = c
  /\ vc' = [vc EXCEPT ![c] = [NoScreen EXCEPT !.sig = "ringing"]]
  /\ delayed' = delayed \cup
       {[op |-> "present", c |-> c, presented |-> FALSE, again |-> FALSE]}
  /\ UNCHANGED <<call, rejected, sdk, pushed, offered, kit, reports, actions,
                 req, told, mainq, session, missed>>

\* The delayed presentViewController, 0.1 s later, and viewDidLoad.  UIKit
\* presents nothing on a controller that already presents a screen.
Present(c) ==
  LET b == [op |-> "present", c |-> c, presented |-> FALSE, again |-> FALSE]
  IN  /\ b \in delayed
      /\ delayed' = delayed \ {b}
      /\ IF \E d \in Calls : vc[d].shown
         THEN UNCHANGED <<vc, sdk, req>>
         ELSE /\ vc' = [vc EXCEPT ![c].shown = TRUE, ![c].timeout = TRUE]
              /\ sdk' = IF c \in Outgoing THEN [sdk EXCEPT ![c] = "ringing"]
                                          ELSE sdk
              /\ req' = IF c \in Outgoing THEN req \cup Ask("make", c) ELSE req
  /\ UNCHANGED <<told, call, rejected, cur, pushed, offered, kit, reports, actions,
                 mainq, session, missed>>

\* Taps on the buttons screenType shows.
Buttons(c, type) ==
  /\ vc[c].shown
  /\ ~vc[c].closed
  /\ type = "incoming" <=> c \in Incoming /\ vc[c].sig # "answered"

AcceptTapped(c) ==
  /\ Buttons(c, "incoming")
  /\ call.uuid # None
  /\ kit[call.uuid] = "ringing"
  /\ actions' = actions \cup {[kind |-> "answer", uuid |-> call.uuid]}
  /\ UNCHANGED <<call, rejected, cur, vc, sdk, pushed, offered, kit, reports,
                 req, told, mainq, delayed, session, missed>>
DeclineTapped(c) ==
  /\ Buttons(c, "incoming")
  /\ Reject(call, actions, kit)
  /\ UNCHANGED <<call, cur, vc, sdk, pushed, offered, kit, reports, mainq,
                 delayed, session, missed>>
EndCallTapped(c) ==
  /\ Buttons(c, "calling")
  /\ Hangup(call, actions, kit)
  /\ UNCHANGED <<call, cur, vc, sdk, pushed, offered, kit, reports, mainq,
                 rejected, delayed, session, missed>>

\* Variant: the call is hung up, the screen is left to its completion.
CheckCallTimeOutHangupOnly(c) ==
  /\ "timeout" \in Features
  /\ vc[c].timeout
  /\ ~vc[c].timer
  /\ Hangup(call, actions, kit)
  /\ UNCHANGED <<call, rejected, cur, vc, sdk, pushed, offered, kit, reports,
                 mainq, delayed, session, missed>>

\* checkCallTimeOut after 90 seconds without the talking timer.
CheckCallTimeOut(c) ==
  /\ "timeout" \in Features
  /\ vc[c].timeout
  /\ ~vc[c].timer
  /\ RoomInMainq
  /\ Hangup(call, actions, kit)
  /\ mainq' = Append(mainq, BlockOf("dismiss", c))
  /\ UNCHANGED <<call, rejected, cur, vc, sdk, pushed, offered, kit, reports,
                 delayed, session, missed>>

\* The block of updateAnswerState.
UpdateAnswerState(c) ==
  /\ mainq # << >>
  /\ Head(mainq) = BlockOf("update", c)
  /\ mainq' = Tail(mainq)
  /\ vc' = StartTimer(c)
  /\ UNCHANGED <<call, rejected, cur, sdk, pushed, offered, kit, reports,
                 actions, req, told, delayed, session, missed>>

\* The closing block endCallAndDismiss delays by three seconds; a second one
\* may be waiting behind the first.
Closing(c) ==
  LET first == [op |-> "close", c |-> c, presented |-> vc[c].shown, again |-> FALSE]
  IN  IF first \in delayed THEN [first EXCEPT !.again = TRUE] ELSE first

\* The application's root controller dismisses the screen it presents.
Dismiss(screens) == [d \in Calls |-> [screens[d] EXCEPT !.shown = FALSE]]

\* The block of endCallAndDismissWithTitle: with the application active the
\* screen is closed three seconds later, otherwise at once.
EndCallAndDismiss(c, active) ==
  LET ended == [vc EXCEPT ![c].closed = TRUE, ![c].timer = FALSE,
                          ![c].timeout = FALSE]
  IN  /\ mainq # << >>
      /\ Head(mainq) = BlockOf("dismiss", c)
      /\ mainq' = Tail(mainq)
      /\ actions' = actions \cup EndCall(call, kit)
      /\ call' = NoCall
      /\ \/ /\ cur = None
            /\ vc' = ended
            /\ UNCHANGED <<cur, delayed, req>>
         \/ /\ cur # None /\ active
            /\ vc' = ended
            /\ delayed' = delayed \cup {Closing(c)}
            /\ UNCHANGED <<cur, req>>
         \/ /\ cur # None /\ ~active /\ "background" \in Features
            /\ cur' = None
            /\ vc' = IF vc[c].shown THEN Dismiss(ended) ELSE ended
            /\ req' = IF vc[c].shown THEN req \cup Ask("dismiss", c) ELSE req
            /\ UNCHANGED delayed
  /\ UNCHANGED <<told, rejected, sdk, pushed, offered, kit, reports, session, missed>>

\* The closing block: it forgets the current screen, whichever that is, and,
\* if its own screen was on display when the block was made, it makes the
\* controller that presented it dismiss what it presents by now.
Close(b) ==
  /\ b \in delayed
  /\ b.op = "close"
  /\ \A d \in delayed : ~(d.op = "present" /\ d.c = b.c)
  /\ b.again => [b EXCEPT !.again = FALSE] \notin delayed
  /\ delayed' = delayed \ {b}
  /\ cur' = None
  /\ vc' = IF b.presented THEN Dismiss(vc) ELSE vc
  /\ UNCHANGED <<call, rejected, sdk, pushed, offered, kit, reports, actions,
                 req, told, mainq, session, missed>>

\* The completion of the dismissal made while the application was inactive.
DismissCompleted(c) ==
  /\ [op |-> "dismiss", c |-> c] \in req
  /\ req' = req \ {[op |-> "dismiss", c |-> c]}
  /\ cur' = None
  /\ UNCHANGED <<told, call, rejected, vc, sdk, pushed, offered, kit, reports,
                 actions, mainq, delayed, session, missed>>

-----------------------------------------------------------------------------
MainQueue(c) ==
  \/ HandleIncomingCallEvent(c) \/ MainSignal(c) \/ UpdateAnswerState(c)
  \/ \E active \in BOOLEAN : EndCallAndDismiss(c, active)

Completions(c) ==
  \/ DismissCompleted(c)
  \/ \E op \in {"reject", "hangup"} : EndingCompleted(op, c)
  \/ \E ok \in BOOLEAN : AnswerCompleted(c, ok) \/ MakeCompleted(c, ok)

CallKit(u) ==
  \/ PerformStartCallAction(u) \/ StartRefused(u) \/ PerformAnswerCallAction(u)
  \/ PerformEndCallAction(u) \/ AnswerActionTimedOut(u)

Environment(c) ==
  \/ PlaceCall(c) \/ HandleIncomingPushEvent(c)
  \/ IncomingCallWithStringeeClient(c) \/ CallToPhone(c)
  \/ \E s \in {"answered", "busy", "ended"} : DidChangeSignalingState(c, s)
  \/ \E s \in {"answered", "busy"} : DidHandleOnAnotherDevice(c, s)
  \/ AcceptTapped(c) \/ DeclineTapped(c) \/ EndCallTapped(c)

Next ==
  \/ \E c \in Calls : \/ Environment(c) \/ MainQueue(c) \/ Completions(c)
                      \/ Present(c) \/ CheckCallTimeOut(c)
  \/ \E b \in delayed : Close(b)
  \/ \E u \in Uuids : CallKit(u) \/ SystemAnswer(u) \/ SystemEnd(u)
  \/ \E r \in reports, ok \in BOOLEAN : ReportCompleted(r, ok)
  \/ DidActivateAudioSession \/ DidDeactivateAudioSession

Spec == Init /\ [][Next]_vars

\* The main thread runs what was handed to it, and a repeating NSTimer fires
\* until it is invalidated.  Nothing is assumed of the agent, of the server,
\* of CallKit or of the completion of any request.
Fairness ==
  /\ WF_vars(\E c \in Calls : MainQueue(c))
  /\ WF_vars(\E b \in delayed : Close(b))
  /\ \A c \in Calls : WF_vars(Present(c)) /\ WF_vars(CheckCallTimeOut(c))

FairSpec == Spec /\ Fairness

-----------------------------------------------------------------------------
(* Properties.                                                             *)

\* While the manager holds a Stringee call that it has asked to answer, or that
\* is answered, CallKit has a live call that the agent put through by answering
\* or dialling: anwser: fulfils the answer action first and waits for the audio
\* (CallManager.m 384-413), and a call of the manager does not outlive what the
\* agent ended (553-603), whatever became of the calls before.
AnsweredWithConsent ==
  \A c \in Incoming :
    call.sc = c /\ (Ask("answer", c) \subseteq req \/ sdk[c] = "answered") =>
      \E u \in Uuids : kit[u] = "active"

\* The manager believes it has the audio session only while the system has
\* given it to the application, across interruptions, calls that end while
\* the session is on, and calls that start before it is off (607-622).
AudioIsTheSystems == call.audio => session

\* Stringee is asked to answer only while the application has the audio
\* session: media never starts on a session CallKit still owns.
AnswersWithAudio ==
  [][\A c \in Calls : Ask("answer", c) \subseteq req' \ req => session']_vars

\* A call is answered at most once: no answer is sent for a call that is
\* already talking.  A second answer before the first one took effect is the
\* same request.
AnsweredOnce ==
  [][\A c \in Calls : Ask("answer", c) \subseteq req' \ req => sdk[c] # "answered"]_vars

\* A missed-call notification is about a call that is over and that this
\* screen never timed as a talk (didChangeSignalingState:, 827-832).
MissedIsOver == \A c \in missed : sdk[c] = "over"
MissedNeverTalked == \A c \in missed : ~vc[c].timer

\* A call the agent rejected, in the application or through CallKit, before
\* its end was handled is not reported to the agent as missed.
RejectedIsNotMissed ==
  [][\A c \in missed' \ missed : Ask("reject", c) \cap told = {}]_vars

\* A block that will take the screen of c off the display waits on the main
\* thread: its closing, or what decides it.
LeavesDisplay(c) ==
  \/ \E i \in DOMAIN mainq : mainq[i] = BlockOf("dismiss", c)
  \/ \E b \in delayed : b.op = "close" /\ b.c = c /\ b.presented

\* The current screen, when it is on display, counts a talk, has the timer that
\* gives up after 90 seconds, or is about to leave the display: nothing else
\* would remove it.  It is not said of a screen that was forgotten before it was
\* presented (CallingViewController.m 607-622).
DisplayedScreenEnds ==
  \A c \in Calls :
    cur = c /\ vc[c].shown => vc[c].timer \/ vc[c].timeout \/ LeavesDisplay(c)

\* The screen counts talking time only for a call Stringee has put through.
TalkingIsAnswered ==
  \A c \in Calls : vc[c].timer => sdk[c] \in {"answered", "over"}

\* The open screen of a call is the one InstanceManager hands to the
\* completions that must close it.
OpenScreenIsCurrent ==
  \A c \in Calls : vc[c].sig # "idle" /\ ~vc[c].closed => cur = c

\* The manager's call and the screen are about the same Stringee call.
CallAndScreenAgree == call.sc # None /\ cur # None => cur = call.sc

Talking(c) == vc[c].timer /\ sdk[c] # "over"

\* A calling screen makes room for the next one, unless it counts a talk that
\* lasts, whatever the agent, the server and CallKit do (checkCallTimeOut).
ScreenSettles == \A c \in Calls : cur = c ~> cur # c \/ Talking(c)

\* A screen that is open on the display leaves it as well, unless it counts a
\* talk that lasts: the screen of a call that is over does not stay.  A screen
\* whose closing was decided before its presentation is not open when it comes
\* on display, and nothing need remove it (CallingViewController.m 607-622).
OpenScreenLeaves ==
  \A c \in Calls :
    vc[c].shown /\ ~vc[c].closed ~> (~vc[c].shown /\ cur # c) \/ Talking(c)

\* "// End callkit" (CallingViewController.m 601): once nothing is left of
\* its calls, the application leaves no call behind in CallKit.
NoOrphan ==
  AtRest => \A u \in Uuids : kit[u] \notin {"ringing", "answering", "active"}

\* "if CallKit was already shown for this call, update its information"
\* (CallManager.m 128): a call CallKit shows is not turned into another.
UpdatesItsOwnCall ==
  [][call.uuid # None /\ HasCall' => call'.id = call.id]_vars

=============================================================================
