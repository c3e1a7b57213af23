---------------------- MODULE StringeeConnection_proofs ----------------------
(***************************************************************************)
(* Proofs about StringeeConnection: for any accounts, tokens and bounds the *)
(* state keeps its type.  When JavaScript logs an account out and in at rest, *)
(* the client is connected as the account that is logged in, whatever happens *)
(* to the connection meanwhile, and the flag hasRegisteredToReceivePush is   *)
(* true of that account unless a registration was stored after the logout    *)
(* before.  When in addition PushKit gives the device one token, only the    *)
(* account that is logged in gets pushes, but for one a request of which     *)
(* failed or was made after its logout, and a client that is connected and   *)
(* idle is registered.                                                       *)
(***************************************************************************)
EXTENDS StringeeConnection, SequenceTheorems, TLAPS

-----------------------------------------------------------------------------
(* The inductive invariant.                                                *)

\* While an account is logged in, a request is a registration of that account,
\* or was made without a connection; once accepted the server knows the device.
Registering(r) ==
  /\ r.op = "register" /\ r.account \in {account, None}
  /\ r.step \in {"accepted", "stored"} => <<account, r.device>> \in subscribed
  /\ r.step = "stored" => registeredToken # None

LoggedIn ==
  /\ accessToken # None => AccountOf[accessToken] = account
  /\ client.state # "off" => AccountOf[client.token] = account
  /\ registeredToken # None => late \/ <<account, registeredToken>> \in subscribed
  /\ hasRegisteredToReceivePush => registeredToken # None
  /\ \A i \in DOMAIN requests : Registering(requests[i])

\* After a logout what is left of it is the unregistration that will disconnect.
\* A connection that was lost meanwhile, or PushKit, may add registrations, for
\* which the account is unsure.
Leaving(r) ==
  \/ r.op = "unregister" /\ r.step # "stored"
  \/ /\ r.op = "register" /\ r.account \in unsure \cup {None}
     /\ r.step = "stored" => registeredToken # None

LoggedOut ==
  /\ accessToken = None /\ ~connectDue
  /\ registeredToken # None => late
  /\ hasRegisteredToReceivePush => registeredToken # None
  /\ client.state # "off" =>
       \E i \in DOMAIN requests : requests[i].op = "unregister"
  /\ \A i \in DOMAIN requests : Leaving(requests[i])

SessionInv == IF account = None THEN LoggedOut ELSE LoggedIn

\* PushKit gives the device one token.  With two, a registration under way for
\* the token before is not undone by a logout, which unregisters the last.
OneDevice == \A d, e \in DeviceTokens : d = e

\* An unregistration that was answered has ended the pushes of its account, or
\* that account is unsure.
Unregistered(r) ==
  /\ r.step = "accepted" =>
       r.account \in unsure \/ <<r.account, r.device>> \notin subscribed
  /\ r.step = "refused" => r.account \in unsure \cup {None}

\* While no token is stored, the server delivers the pushes of the account that
\* is logged in only if the completion of its registration is still due.
Undelivered ==
  \/ account \in unsure
  \/ \E i \in DOMAIN requests : /\ requests[i].op = "register"
                               /\ requests[i].account = account
                               /\ requests[i].step = "accepted"

PushInv ==
  /\ PushesFollowLogin
  /\ \A i \in DOMAIN requests :
       requests[i].op = "unregister" => Unregistered(requests[i])
  /\ account # None /\ registeredToken = None =>
       \A s \in subscribed : s[1] = account => Undelivered

\* A device that is connected is registered, or about to be, unless a request
\* of the account failed.
Aim(d) ==
  \/ account \in unsure
  \/ blocks > 0
  \/ <<account, d>> \in subscribed
  \/ \E i \in DOMAIN requests :
       /\ requests[i].op = "register" /\ requests[i].account = account
       /\ requests[i].device = d /\ requests[i].step = "sent"

AimInv ==
  account # None /\ client.state = "on" /\ deviceToken # None /\ ~late =>
    Aim(deviceToken)

-----------------------------------------------------------------------------
(* Sequences of requests.                                                  *)

\* Removing an element leaves elements that were there.
LEMMA RemoveAtElements ==
  ASSUME NEW S, NEW s \in Seq(S), NEW i \in DOMAIN s
  PROVE  /\ RemoveAt(s, i) \in Seq(S)
         /\ \A j \in DOMAIN RemoveAt(s, i) :
              \E k \in DOMAIN s : RemoveAt(s, i)[j] = s[k]
<1>1. RemoveAt(s, i) \in Seq(S)
  BY DEF RemoveAt
<1>2. ASSUME NEW j \in DOMAIN RemoveAt(s, i)
      PROVE  \E k \in DOMAIN s : RemoveAt(s, i)[j] = s[k]
  <2> DEFINE front == SubSeq(s, 1, i - 1)
             back == SubSeq(s, i + 1, Len(s))
  <2>1. i \in 1..Len(s) /\ Len(s) \in Nat
    OBVIOUS
  <2>2. /\ front \in Seq(S) /\ Len(front) = i - 1
        /\ \A k \in 1..(i - 1) : front[k] = s[k]
    BY <2>1
  <2>3. /\ back \in Seq(S) /\ Len(back) = Len(s) - i
        /\ \A k \in 1..(Len(s) - i) : back[k] = s[k + i]
    BY <2>1
  <2>4. RemoveAt(s, i) = front \o back
    BY DEF RemoveAt
  <2> HIDE DEF front, back
  <2>5. j \in 1..(Len(s) - 1)
    BY <1>2, <2>1, <2>2, <2>3, <2>4
  <2>6. CASE j <= i - 1
    BY <2>1, <2>2, <2>3, <2>4, <2>5, <2>6
  <2>7. CASE j > i - 1
    <3>1. RemoveAt(s, i)[j] = back[j - (i - 1)]
      BY <2>1, <2>2, <2>3, <2>4, <2>5, <2>7
    <3>2. j - (i - 1) \in 1..(Len(s) - i) /\ j + 1 \in DOMAIN s
      BY <2>1, <2>5, <2>7
    <3>3. RemoveAt(s, i)[j] = s[j + 1]
      BY <2>1, <2>3, <2>5, <3>1, <3>2
    <3>4. QED
      BY <3>2, <3>3
  <2>8. QED
    BY <2>1, <2>5, <2>6, <2>7
<1>3. QED
  BY <1>1, <1>2

\* Removing an element leaves all the others.
LEMMA RemoveAtOthers ==
  ASSUME NEW S, NEW s \in Seq(S), NEW i \in DOMAIN s, NEW k \in DOMAIN s, k # i
  PROVE  \E j \in DOMAIN RemoveAt(s, i) : RemoveAt(s, i)[j] = s[k]
<1> DEFINE front == SubSeq(s, 1, i - 1)
           back == SubSeq(s, i + 1, Len(s))
<1>1. i \in 1..Len(s) /\ k \in 1..Len(s) /\ Len(s) \in Nat
  OBVIOUS
<1>2. /\ front \in Seq(S) /\ Len(front) = i - 1
      /\ \A m \in 1..(i - 1) : front[m] = s[m]
  BY <1>1
<1>3. /\ back \in Seq(S) /\ Len(back) = Len(s) - i
      /\ \A m \in 1..(Len(s) - i) : back[m] = s[m + i]
  BY <1>1
<1>4. RemoveAt(s, i) = front \o back
  BY DEF RemoveAt
<1> HIDE DEF front, back
<1>5. DOMAIN RemoveAt(s, i) = 1..(Len(s) - 1)
  BY <1>1, <1>2, <1>3, <1>4
<1>6. CASE k < i
  <2>1. RemoveAt(s, i)[k] = s[k]
    BY <1>1, <1>2, <1>3, <1>4, <1>6
  <2>2. k \in DOMAIN RemoveAt(s, i)
    BY <1>1, <1>5, <1>6
  <2>3. QED
    BY <2>1, <2>2
<1>7. CASE k > i
  <2>1. RemoveAt(s, i)[k - 1] = back[k - i]
    BY <1>1, <1>2, <1>3, <1>4, <1>7
  <2>2. back[k - i] = s[k]
    BY <1>1, <1>3, <1>7
  <2>3. k - 1 \in DOMAIN RemoveAt(s, i)
    BY <1>1, <1>5, <1>7
  <2>4. QED
    BY <2>1, <2>2, <2>3
<1>8. QED
  BY <1>1, <1>6, <1>7

\* Removing an element shortens the sequence.
LEMMA RemoveAtLength ==
  ASSUME NEW S, NEW s \in Seq(S), NEW i \in DOMAIN s
  PROVE  Len(RemoveAt(s, i)) = Len(s) - 1
<1>1. i \in 1..Len(s) /\ Len(s) \in Nat
  OBVIOUS
<1>2. /\ SubSeq(s, 1, i - 1) \in Seq(S) /\ Len(SubSeq(s, 1, i - 1)) = i - 1
      /\ SubSeq(s, i + 1, Len(s)) \in Seq(S) /\ Len(SubSeq(s, i + 1, Len(s))) = Len(s) - i
  BY <1>1
<1>3. QED
  BY <1>1, <1>2 DEF RemoveAt

\* A request that is added is a request.
LEMMA AddedRequest ==
  ASSUME TypeOK, NEW op \in {"register", "unregister"}, NEW d \in DeviceTokens
  PROVE  Append(requests, [op |-> op, device |-> d, account |-> ClientAccount,
                           step |-> "sent"]) \in Seq(Request)
<1>1. ClientAccount \in Accounts \cup {None}
  BY AccountAssumption, NoneAssumption DEF TypeOK, ClientAccount, Client
<1>2. QED
  BY <1>1 DEF TypeOK, Request

\* A step of a request leaves a sequence of as many requests.
LEMMA StepRequest ==
  ASSUME TypeOK, NEW i \in DOMAIN requests,
         NEW step \in {"sent", "accepted", "refused", "stored"}
  PROVE  LET new == [requests EXCEPT ![i].step = step]
         IN  /\ new \in Seq(Request)
             /\ DOMAIN new = DOMAIN requests /\ Len(new) = Len(requests)
             /\ \A j \in DOMAIN requests :
                  /\ new[j].op = requests[j].op
                  /\ new[j].device = requests[j].device
                  /\ new[j].account = requests[j].account
                  /\ new[j].step = IF j = i THEN step ELSE requests[j].step
<1> DEFINE r == [requests[i] EXCEPT !.step = step]
           new == [requests EXCEPT ![i] = r]
<1>1. requests \in Seq(Request) /\ requests[i] \in Request
  BY DEF TypeOK
<1>2. r \in Request /\ r.op = requests[i].op /\ r.device = requests[i].device
      /\ r.account = requests[i].account /\ r.step = step
  BY <1>1 DEF Request
<1> HIDE DEF r
<1>3. new \in Seq(Request) /\ DOMAIN new = DOMAIN requests /\ Len(new) = Len(requests)
  BY <1>1, <1>2
<1>4. \A j \in DOMAIN requests : new[j] = IF j = i THEN r ELSE requests[j]
  BY <1>1
<1>5. [requests EXCEPT ![i].step = step] = new
  BY DEF r
<1>6. QED
  BY <1>2, <1>3, <1>4, <1>5

-----------------------------------------------------------------------------
(* Types.                                                                  *)

LEMMA InitTypeOK == Init => TypeOK
<1> SUFFICES ASSUME Init PROVE TypeOK
  OBVIOUS
<1>1. client \in Client /\ client.state = "off" /\ client.token = None
  BY DEF Init, Client, Off
<1>2. requests \in Seq(Request)
  BY EmptySeq DEF Init
<1>3. QED
  BY <1>1, <1>2 DEF Init, TypeOK

LEMMA ClientTypes ==
  /\ Off \in Client /\ Off.state = "off" /\ Off.token = None
  /\ \A t \in AccessTokens : /\ Connecting(t) \in Client
                              /\ Connecting(t).state = "connecting"
                              /\ Connecting(t).token = t
BY DEF Off, Connecting, Client

\* Connecting keeps the type of the client.
LEMMA ConnectType ==
  ASSUME TypeOK, ConnectToStringeeServer
  PROVE  client' \in Client /\ (client'.state = "off" <=> client'.token = None)
BY ClientTypes, NoneAssumption DEF TypeOK, ConnectToStringeeServer

LEMMA AgentTypeOK == TypeOK /\ (Agent \/ InitAndConnect) => TypeOK'
<1> SUFFICES ASSUME TypeOK, Agent \/ InitAndConnect PROVE TypeOK'
  OBVIOUS
<1>1. CASE \E t \in AccessTokens : Login(t) \/ Renew(t)
  <2> PICK t \in AccessTokens : Login(t) \/ Renew(t)
    BY <1>1
  <2>1. AccountOf[t] \in Accounts
    BY AccountAssumption
  <2>2. CASE Login(t)
    BY <2>1, <2>2 DEF TypeOK, Login
  <2>3. CASE Renew(t)
    BY <2>3 DEF TypeOK, Renew
  <2>4. QED
    BY <2>2, <2>3
<1>2. CASE RemoveValue
  BY <1>2 DEF TypeOK, RemoveValue, javascript
<1>3. CASE Clear
  <2>1. registeredToken # None =>
          Append(requests, [op |-> "unregister", device |-> registeredToken,
                            account |-> ClientAccount, step |-> "sent"]) \in Seq(Request)
    BY AddedRequest DEF TypeOK
  <2>2. requests' \in Seq(Request)
    BY <1>3, <2>1 DEF TypeOK, Clear
  <2>3. client' \in Client /\ (client'.state = "off" <=> client'.token = None)
    BY <1>3, ClientTypes DEF TypeOK, Clear
  <2>4. unsure' \subseteq Accounts
    BY <1>3 DEF TypeOK, Clear
  <2>5. QED
    BY <1>3, <2>2, <2>3, <2>4 DEF TypeOK, Clear
<1>4. CASE InitAndConnect
  BY <1>4, ConnectType DEF TypeOK, InitAndConnect, prefs
<1>5. QED
  BY <1>1, <1>2, <1>3, <1>4 DEF Agent

\* A registration that is asked for keeps the types.
LEMMA RegisterType ==
  ASSUME TypeOK, NEW d \in DeviceTokens, NEW c \in BOOLEAN,
         RegisterDeviceTokenIf(c, d)
  PROVE  requests' \in Seq(Request) /\ unsure' \subseteq Accounts
<1>1. ClientAccount \in Accounts \cup {None}
  BY AccountAssumption, NoneAssumption DEF TypeOK, ClientAccount, Client
<1>2. Append(requests, [op |-> "register", device |-> d, account |-> ClientAccount,
                        step |-> "sent"]) \in Seq(Request)
  BY AddedRequest
<1>3. requests' \in Seq(Request)
  BY <1>2 DEF RegisterDeviceTokenIf, TypeOK
<1>4. unsure' \subseteq Accounts
  BY <1>1 DEF RegisterDeviceTokenIf, TypeOK
<1>5. QED
  BY <1>3, <1>4

LEMMA ClientTypeOK ==
  ASSUME TypeOK,
         \/ Push \/ DidConnect \/ RequestAccessToken \/ MainConnected
         \/ \E d \in DeviceTokens : DidUpdatePushCredentials(d)
         \/ DidDisConnect \/ Restart \/ \E t \in AccessTokens : Expire(t)
  PROVE  TypeOK'
<1>1. CASE Push
  BY <1>1, ConnectType DEF TypeOK, Push, prefs, javascript
<1>2. CASE DidConnect
  BY <1>2 DEF TypeOK, DidConnect, Client, prefs, javascript
<1>3. CASE RequestAccessToken
  BY <1>3, ClientTypes, NoneAssumption DEF TypeOK, RequestAccessToken, prefs, javascript
<1>4. CASE MainConnected
  <2>1. (~hasRegisteredToReceivePush /\ deviceToken # None) \in BOOLEAN
    OBVIOUS
  <2>2. requests' \in Seq(Request) /\ unsure' \subseteq Accounts
    <3>1. CASE deviceToken = None
      BY <1>4, <3>1 DEF MainConnected, RegisterDeviceTokenIf, TypeOK
    <3>2. CASE deviceToken # None
      <4>1. deviceToken \in DeviceTokens
        BY <3>2 DEF TypeOK
      <4>2. QED
        BY <1>4, <2>1, <4>1, RegisterType DEF MainConnected
    <3>3. QED
      BY <3>1, <3>2
  <2>3. QED
    BY <1>4, <2>2 DEF TypeOK, MainConnected, prefs, javascript
<1>5. ASSUME NEW d \in DeviceTokens, DidUpdatePushCredentials(d) PROVE TypeOK'
  <2>1. (~hasRegisteredToReceivePush /\ client.state = "on") \in BOOLEAN
    OBVIOUS
  <2>2. requests' \in Seq(Request) /\ unsure' \subseteq Accounts
    BY <1>5, <2>1, RegisterType DEF DidUpdatePushCredentials
  <2>3. QED
    BY <1>5, <2>2 DEF TypeOK, DidUpdatePushCredentials, prefs, javascript
<1>6. CASE DidDisConnect
  <2>1. client.token \in AccessTokens
    BY <1>6 DEF TypeOK, DidDisConnect, Client
  <2>2. QED
    BY <1>6, <2>1, ClientTypes, NoneAssumption
    DEF TypeOK, DidDisConnect, Fault, prefs, javascript
<1>7. CASE Restart
  <2>1. \A i \in DOMAIN requests : requests[i].account \in Accounts \cup {None}
    <3> TAKE i \in DOMAIN requests
    <3>1. requests[i] \in Request
      BY DEF TypeOK
    <3>2. QED
      BY <3>1 DEF Request
  <2>2. unsure' \subseteq Accounts
    BY <1>7, <2>1 DEF TypeOK, Restart
  <2>3. QED
    BY <1>7, <2>2, ClientTypes DEF TypeOK, Restart, Fault, prefs
<1>8. CASE \E t \in AccessTokens : Expire(t)
  BY <1>8 DEF TypeOK, Expire, prefs, javascript
<1>9. QED
  BY <1>1, <1>2, <1>3, <1>4, <1>5, <1>6, <1>7, <1>8

LEMMA ServerTypeOK ==
  ASSUME TypeOK, NEW i \in DOMAIN requests,
         Serve(i) \/ Refuse(i) \/ NotSent(i)
  PROVE  TypeOK'
<1>1. requests[i] \in Request
  BY DEF TypeOK
<1>2. requests' \in Seq(Request)
  <2>1. /\ [requests EXCEPT ![i].step = "accepted"] \in Seq(Request)
        /\ [requests EXCEPT ![i].step = "refused"] \in Seq(Request)
    BY StepRequest
  <2>2. QED
    BY <2>1 DEF Serve, Refuse, NotSent
<1>3. requests[i].account # None => Served(requests[i]) \subseteq Accounts \X DeviceTokens
  BY <1>1 DEF TypeOK, Served, Request
<1>4. CASE Serve(i)
  BY <1>2, <1>3, <1>4 DEF TypeOK, Serve, prefs, javascript
<1>5. CASE Refuse(i)
  <2>1. requests[i].account \in Accounts
    BY <1>1, <1>5 DEF Refuse, Request
  <2>2. QED
    BY <1>2, <1>3, <1>5, <2>1 DEF TypeOK, Refuse, Fault, prefs, javascript
<1>6. CASE NotSent(i)
  BY <1>2, <1>6 DEF TypeOK, NotSent, prefs, javascript
<1>7. QED
  BY <1>4, <1>5, <1>6

LEMMA CompletionTypeOK ==
  ASSUME TypeOK, NEW i \in DOMAIN requests,
         RegisterCompleted(i) \/ FlagStored(i) \/ UnregisterCompleted(i)
  PROVE  TypeOK'
<1>1. requests \in Seq(Request) /\ requests[i] \in Request
  BY DEF TypeOK
<1>2. RemoveAt(requests, i) \in Seq(Request)
  BY <1>1, RemoveAtElements
<1>3. CASE RegisterCompleted(i)
  <2>1. requests' \in Seq(Request)
    <3>1. [requests EXCEPT ![i].step = "stored"] \in Seq(Request)
      BY StepRequest
    <3>2. QED
      BY <1>2, <1>3, <3>1 DEF RegisterCompleted
  <2>2. registeredToken' \in DeviceTokens \cup {None}
    BY <1>1, <1>3 DEF TypeOK, RegisterCompleted, Request
  <2>3. QED
    BY <1>3, <2>1, <2>2 DEF TypeOK, RegisterCompleted, javascript
<1>4. CASE FlagStored(i)
  BY <1>2, <1>4 DEF TypeOK, FlagStored, javascript
<1>5. CASE UnregisterCompleted(i)
  BY <1>2, <1>5, ClientTypes DEF TypeOK, UnregisterCompleted, prefs, javascript
<1>6. QED
  BY <1>3, <1>4, <1>5

LEMMA TypeInductive == TypeOK /\ [Next]_vars => TypeOK'
<1> SUFFICES ASSUME TypeOK, [Next]_vars PROVE TypeOK'
  OBVIOUS
<1>1. CASE UNCHANGED vars
  BY <1>1 DEF TypeOK, vars, javascript, prefs
<1>2. CASE Next
  BY <1>2, AgentTypeOK, ClientTypeOK, ServerTypeOK, CompletionTypeOK
  DEF Next, Answers
<1>3. QED
  BY <1>1, <1>2

\* The state keeps its type, whatever the accounts, tokens and bounds.
THEOREM TypeCorrect == Spec => []TypeOK
<1>1. QED
  BY InitTypeOK, TypeInductive, PTL DEF Spec

-----------------------------------------------------------------------------
(* The account that is logged in.                                          *)

LEMMA InitSession == Init => SessionInv
BY DEF Init, SessionInv, LoggedOut, Off

\* While nobody is logged in there is no token to connect with.
LEMMA ConnectLoggedOut ==
  ASSUME TypeOK, SessionInv, account = None, ConnectToStringeeServer
  PROVE  client' = client
BY DEF SessionInv, LoggedOut, ConnectToStringeeServer

\* Connecting connects the account that is logged in.
LEMMA ConnectLoggedIn ==
  ASSUME TypeOK, SessionInv, account # None, ConnectToStringeeServer
  PROVE  client'.state # "off" => AccountOf[client'.token] = account
BY ClientTypes DEF TypeOK, SessionInv, LoggedIn, ConnectToStringeeServer

\* A registration is added for the account that is logged in.
LEMMA RegisterLoggedIn ==
  ASSUME TypeOK, SessionInv, account # None, NEW d \in DeviceTokens,
         NEW c \in BOOLEAN, RegisterDeviceTokenIf(c, d),
         UNCHANGED <<account, subscribed, registeredToken>>
  PROVE  (\A i \in DOMAIN requests : Registering(requests[i]))'
<1> DEFINE r == [op |-> "register", device |-> d, account |-> ClientAccount,
                 step |-> "sent"]
<1>1. requests \in Seq(Request)
  BY DEF TypeOK
<1>2. ClientAccount \in {account, None}
  BY DEF SessionInv, LoggedIn, ClientAccount
<1>3. Registering(r)
  BY <1>2 DEF Registering
<1>4. \A i \in DOMAIN requests : Registering(requests[i])
  BY DEF SessionInv, LoggedIn
<1>5. requests' = requests \/ requests' = Append(requests, r)
  BY DEF RegisterDeviceTokenIf
<1> HIDE DEF r
<1>6. \A i \in DOMAIN requests' : Registering(requests'[i])
  BY <1>1, <1>3, <1>4, <1>5
<1>7. QED
  BY <1>6 DEF Registering

\* What a step leaves of a logout.
LEMMA LoggedOutFrame ==
  ASSUME SessionInv, account = None,
         UNCHANGED <<account, connectDue, prefs, requests, unsure, late>>,
         client'.state # "off" => client.state # "off"
  PROVE  SessionInv'
BY DEF SessionInv, LoggedOut, Leaving, prefs

\* A registration that is added while nobody is logged in makes the account of
\* the connection unsure.
LEMMA RegisterLoggedOut ==
  ASSUME TypeOK, SessionInv, account = None, NEW d, NEW c \in BOOLEAN,
         RegisterDeviceTokenIf(c, d),
         UNCHANGED <<account, connectDue, prefs, client, late>>
  PROVE  SessionInv'
<1> DEFINE r == [op |-> "register", device |-> d, account |-> ClientAccount,
                 step |-> "sent"]
<1>1. requests \in Seq(Request)
  BY DEF TypeOK
<1>2. \/ requests' = requests /\ unsure' = unsure
      \/ /\ requests' = Append(requests, r)
         /\ unsure' = unsure \cup ({ClientAccount} \ {None})
  BY DEF RegisterDeviceTokenIf
<1>3. r.op = "register" /\ r.account = ClientAccount /\ r.step = "sent"
  OBVIOUS
<1> HIDE DEF r
<1>4. CASE requests' = requests /\ unsure' = unsure
  BY <1>4, LoggedOutFrame
<1>5. CASE /\ requests' = Append(requests, r)
           /\ unsure' = unsure \cup ({ClientAccount} \ {None})
  <2>1. unsure \subseteq unsure' /\ ClientAccount \in unsure' \cup {None}
    BY <1>5
  <2>2. /\ DOMAIN requests \subseteq DOMAIN requests'
        /\ \A i \in DOMAIN requests : requests'[i] = requests[i]
        /\ \A i \in DOMAIN requests' : i \in DOMAIN requests \/ requests'[i] = r
    BY <1>1, <1>5
  <2>3. \A i \in DOMAIN requests : Leaving(requests[i])
    BY DEF SessionInv, LoggedOut
  <2>4. (\A i \in DOMAIN requests : Leaving(requests[i]))'
    BY <1>3, <2>1, <2>2, <2>3 DEF Leaving, prefs
  <2>5. client'.state # "off" =>
          \E i \in DOMAIN requests' : requests'[i].op = "unregister"
    BY <2>2 DEF SessionInv, LoggedOut
  <2>6. QED
    BY <2>4, <2>5 DEF SessionInv, LoggedOut, prefs
<1>6. QED
  BY <1>2, <1>4, <1>5

LEMMA AgentSession ==
  ASSUME CleanLogout, TypeOK, SessionInv, Agent \/ InitAndConnect
  PROVE  SessionInv'
<1>1. ASSUME NEW t \in AccessTokens, Login(t) PROVE SessionInv'
  <2>1. LoggedOut /\ requests = << >> /\ client.state = "off"
    BY <1>1 DEF Login, SessionInv, LoggedOut, AtRest
  <2>2. account' = AccountOf[t] /\ account' # None
    BY <1>1, AccountAssumption, NoneAssumption DEF Login
  <2>3. LoggedIn'
    BY <1>1, <2>1, <2>2 DEF Login, LoggedOut, LoggedIn
  <2>4. QED
    BY <2>2, <2>3 DEF SessionInv
<1>2. ASSUME NEW t \in AccessTokens, Renew(t) PROVE SessionInv'
  <2>1. account # None /\ account' = account
    BY <1>2, AccountAssumption, NoneAssumption DEF Renew
  <2>2. LoggedIn'
    BY <1>2, <2>1 DEF Renew, SessionInv, LoggedIn, Registering
  <2>3. QED
    BY <2>1, <2>2 DEF SessionInv
<1>3. CASE RemoveValue
  <2>1. LoggedIn'
    BY <1>3 DEF RemoveValue, SessionInv, LoggedIn, Registering, javascript
  <2>2. QED
    BY <1>3, <2>1 DEF RemoveValue, SessionInv, javascript
<1>4. CASE Clear
  <2>0. /\ account' = None /\ accessToken' = None /\ ~connectDue'
        /\ registeredToken' = None /\ ~hasRegisteredToReceivePush'
    BY <1>4 DEF Clear
  <2>1. requests = << >> /\ blocks = 0 /\ client.state # "connecting"
    BY <1>4 DEF Clear, AtRest
  <2>2. CASE registeredToken = None
    <3>1. requests' = << >> /\ client' = Off
      BY <1>4, <2>1, <2>2 DEF Clear
    <3>2. DOMAIN requests' = {} /\ client'.state = "off"
      BY <3>1 DEF Off
    <3>3. QED
      BY <2>0, <3>2 DEF SessionInv, LoggedOut
  <2>3. CASE registeredToken # None
    <3> DEFINE r == [op |-> "unregister", device |-> registeredToken,
                     account |-> ClientAccount, step |-> "sent"]
    <3>1. requests' = Append(<< >>, r)
      BY <1>4, <2>1, <2>3 DEF Clear
    <3>2. r.op = "unregister" /\ r.step # "stored"
      OBVIOUS
    <3> HIDE DEF r
    <3>3. DOMAIN requests' = {1} /\ requests'[1] = r
      BY <3>1
    <3>4. (\A i \in DOMAIN requests : Leaving(requests[i]))'
      BY <3>2, <3>3 DEF Leaving
    <3>5. \E i \in DOMAIN requests' : requests'[i].op = "unregister"
      BY <3>2, <3>3
    <3>6. QED
      BY <2>0, <3>4, <3>5 DEF SessionInv, LoggedOut
  <2>4. QED
    BY <2>2, <2>3
<1>5. CASE InitAndConnect
  <2>1. account # None
    BY <1>5 DEF InitAndConnect, SessionInv, LoggedOut
  <2>2. client'.state # "off" => AccountOf[client'.token] = account
    BY <1>5, <2>1, ConnectLoggedIn DEF InitAndConnect
  <2>3. LoggedIn'
    BY <1>5, <2>1, <2>2 DEF InitAndConnect, SessionInv, LoggedIn, Registering, prefs
  <2>4. QED
    BY <1>5, <2>1, <2>3 DEF InitAndConnect, SessionInv
<1>6. QED
  BY <1>1, <1>2, <1>3, <1>4, <1>5 DEF Agent

LEMMA ClientSession ==
  ASSUME CleanLogout, TypeOK, SessionInv,
         \/ Push \/ DidConnect \/ RequestAccessToken \/ MainConnected
         \/ \E d \in DeviceTokens : DidUpdatePushCredentials(d)
         \/ DidDisConnect \/ Restart \/ \E t \in AccessTokens : Expire(t)
  PROVE  SessionInv'
<1>1. CASE Push
  <2>1. CASE account = None
    BY <1>1, <2>1, ConnectLoggedOut, LoggedOutFrame DEF Push, javascript
  <2>2. CASE account # None
    <3>1. client'.state # "off" => AccountOf[client'.token] = account
      BY <1>1, <2>2, ConnectLoggedIn DEF Push
    <3>2. QED
      BY <1>1, <2>2, <3>1 DEF Push, SessionInv, LoggedIn, Registering, javascript, prefs
  <2>3. QED
    BY <2>1, <2>2
<1>2. CASE DidConnect
  <2>1. CASE account = None
    BY <1>2, <2>1, LoggedOutFrame DEF DidConnect, javascript
  <2>2. CASE account # None
    <3>1. client'.state # "off" => AccountOf[client'.token] = account
      BY <1>2, <2>2 DEF DidConnect, TypeOK, Client, SessionInv, LoggedIn
    <3>2. QED
      BY <1>2, <2>2, <3>1
      DEF DidConnect, SessionInv, LoggedIn, Registering, javascript, prefs
  <2>3. QED
    BY <2>1, <2>2
<1>3. CASE RequestAccessToken
  <2>1. CASE account = None
    <3>1. client' = Off
      BY <1>3, <2>1 DEF RequestAccessToken, SessionInv, LoggedOut
    <3>2. QED
      BY <1>3, <2>1, <3>1, LoggedOutFrame DEF RequestAccessToken, Off, javascript
  <2>2. CASE account # None
    <3>1. client'.state # "off" => AccountOf[client'.token] = account
      BY <1>3, <2>2, ClientTypes DEF RequestAccessToken, TypeOK, SessionInv, LoggedIn
    <3>2. QED
      BY <1>3, <2>2, <3>1
      DEF RequestAccessToken, SessionInv, LoggedIn, Registering, javascript, prefs
  <2>3. QED
    BY <2>1, <2>2
<1>4. CASE MainConnected
  <2>1. (~hasRegisteredToReceivePush /\ deviceToken # None) \in BOOLEAN
    OBVIOUS
  <2>2. CASE account = None
    BY <1>4, <2>1, <2>2, RegisterLoggedOut DEF MainConnected, javascript
  <2>3. CASE account # None
    <3>1. (\A i \in DOMAIN requests : Registering(requests[i]))'
      <4>1. CASE deviceToken = None
        BY <1>4, <2>3, <4>1
        DEF MainConnected, RegisterDeviceTokenIf, SessionInv, LoggedIn, Registering,
            javascript, prefs
      <4>2. CASE deviceToken # None
        <5>1. deviceToken \in DeviceTokens
          BY <4>2 DEF TypeOK
        <5>2. UNCHANGED <<account, subscribed, registeredToken>>
          BY <1>4 DEF MainConnected, javascript, prefs
        <5>3. QED
          BY <1>4, <2>1, <2>3, <5>1, <5>2, RegisterLoggedIn DEF MainConnected
      <4>3. QED
        BY <4>1, <4>2
    <3>2. QED
      BY <1>4, <2>3, <3>1 DEF MainConnected, SessionInv, LoggedIn, javascript, prefs
  <2>4. QED
    BY <2>2, <2>3
<1>5. ASSUME NEW d \in DeviceTokens, DidUpdatePushCredentials(d) PROVE SessionInv'
  <2>1. (~hasRegisteredToReceivePush /\ client.state = "on") \in BOOLEAN
    OBVIOUS
  <2>2. CASE account = None
    BY <1>5, <2>1, <2>2, RegisterLoggedOut DEF DidUpdatePushCredentials, javascript
  <2>3. CASE account # None
    <3>1. UNCHANGED <<account, subscribed, registeredToken>>
      BY <1>5 DEF DidUpdatePushCredentials, javascript, prefs
    <3>2. (\A i \in DOMAIN requests : Registering(requests[i]))'
      BY <1>5, <2>1, <2>3, <3>1, RegisterLoggedIn DEF DidUpdatePushCredentials
    <3>3. QED
      BY <1>5, <2>3, <3>2
      DEF DidUpdatePushCredentials, SessionInv, LoggedIn, javascript, prefs
  <2>4. QED
    BY <2>2, <2>3
<1>6. CASE DidDisConnect
  <2>1. client'.token = client.token /\ client.state # "off"
    BY <1>6 DEF DidDisConnect, Connecting
  <2>2. CASE account = None
    BY <1>6, <2>1, <2>2, LoggedOutFrame DEF DidDisConnect, javascript
  <2>3. CASE account # None
    BY <1>6, <2>1, <2>3
    DEF DidDisConnect, SessionInv, LoggedIn, Registering, javascript, prefs
  <2>4. QED
    BY <2>2, <2>3
<1>7. CASE Restart
  <2>1. client'.state = "off" /\ requests' = << >> /\ blocks' = 0
    BY <1>7 DEF Restart, Off
  <2>2. CASE account = None
    <3>1. ~connectDue'
      BY <1>7, <2>2, Zenon DEF Restart
    <3>2. DOMAIN requests' = {}
      BY <2>1
    <3>3. LoggedOut'
      BY <1>7, <2>1, <2>2, <3>1, <3>2 DEF Restart, SessionInv, LoggedOut, prefs
    <3>4. QED
      BY <1>7, <2>2, <3>3 DEF Restart, SessionInv
  <2>3. CASE account # None
    <3>1. DOMAIN requests' = {}
      BY <2>1
    <3>2. LoggedIn'
      BY <1>7, <2>1, <2>3, <3>1 DEF Restart, SessionInv, LoggedIn, prefs
    <3>3. QED
      BY <1>7, <2>3, <3>2 DEF Restart, SessionInv
  <2>4. QED
    BY <2>2, <2>3
<1>8. CASE \E t \in AccessTokens : Expire(t)
  BY <1>8 DEF Expire, SessionInv, LoggedIn, LoggedOut, Leaving, Registering, javascript, prefs
<1>9. QED
  BY <1>1, <1>2, <1>3, <1>4, <1>5, <1>6, <1>7, <1>8

\* What the server and the completions do to a request keeps the registrations.
LEMMA ServerSession ==
  ASSUME TypeOK, SessionInv, NEW i \in DOMAIN requests,
         Serve(i) \/ Refuse(i) \/ NotSent(i)
  PROVE  SessionInv'
<1> DEFINE new(step) == [requests EXCEPT ![i].step = step]
<1>1. \A step \in {"accepted", "refused"} :
        /\ DOMAIN new(step) = DOMAIN requests /\ Len(new(step)) = Len(requests)
        /\ \A j \in DOMAIN requests :
             /\ new(step)[j].op = requests[j].op
             /\ new(step)[j].device = requests[j].device
             /\ new(step)[j].account = requests[j].account
             /\ new(step)[j].step = IF j = i THEN step ELSE requests[j].step
  BY StepRequest
<1>2. \/ requests' = new("accepted") /\ Serve(i)
      \/ requests' = new("refused") /\ (Refuse(i) \/ NotSent(i))
  BY DEF Serve, Refuse, NotSent
<1>3. UNCHANGED <<account, connectDue, prefs, client, late>> /\ unsure \subseteq unsure'
  BY DEF Serve, Refuse, NotSent, javascript
<1> HIDE DEF new
<1>4. CASE account = None
  <2>1. \A j \in DOMAIN requests : Leaving(requests[j])
    BY <1>4 DEF SessionInv, LoggedOut
  <2>2. ASSUME NEW j \in DOMAIN requests'
        PROVE  \/ requests'[j].op = "unregister" /\ requests'[j].step # "stored"
               \/ /\ requests'[j].op = "register"
                  /\ requests'[j].account \in unsure' \cup {None}
                  /\ requests'[j].step = "stored" => registeredToken # None
    <3>1. j \in DOMAIN requests
      BY <1>1, <1>2
    <3>2. Leaving(requests[j])
      BY <2>1, <3>1
    <3>3. QED
      BY <1>1, <1>2, <1>3, <3>1, <3>2 DEF Leaving
  <2>3. (\A j \in DOMAIN requests : Leaving(requests[j]))'
    BY <1>3, <2>2 DEF Leaving, prefs
  <2>4. client'.state # "off" =>
          \E j \in DOMAIN requests' : requests'[j].op = "unregister"
    BY <1>1, <1>2, <1>3, <1>4 DEF SessionInv, LoggedOut
  <2>5. QED
    BY <1>3, <1>4, <2>3, <2>4 DEF SessionInv, LoggedOut, prefs
<1>5. CASE account # None
  <2>1. \A j \in DOMAIN requests : Registering(requests[j])
    BY <1>5 DEF SessionInv, LoggedIn
  <2>2. Serve(i) =>
          subscribed' = subscribed \cup {<<account, requests[i].device>>}
    BY <2>1 DEF Serve, Served, Registering
  <2>3. subscribed \subseteq subscribed'
    BY <2>1, <2>2 DEF Serve, Refuse, NotSent, Served, Registering
  <2>4. (\A j \in DOMAIN requests : Registering(requests[j]))'
    <3>1. ASSUME NEW j \in DOMAIN requests'
          PROVE  /\ requests'[j].op = "register"
                 /\ requests'[j].account \in {account, None}
                 /\ requests'[j].step \in {"accepted", "stored"} =>
                      <<account, requests'[j].device>> \in subscribed'
                 /\ requests'[j].step = "stored" => registeredToken # None
      <4>1. j \in DOMAIN requests
        BY <1>1, <1>2
      <4>2. Registering(requests[j])
        BY <2>1, <4>1
      <4>3. CASE j = i
        BY <1>1, <1>2, <2>2, <4>1, <4>2, <4>3 DEF Registering
      <4>4. CASE j # i
        BY <1>1, <1>2, <2>3, <4>1, <4>2, <4>4 DEF Registering
      <4>5. QED
        BY <4>3, <4>4
    <3>2. QED
      BY <1>3, <3>1 DEF Registering, prefs
  <2>5. LoggedIn'
    BY <1>3, <1>5, <2>3, <2>4 DEF SessionInv, LoggedIn, prefs
  <2>6. QED
    BY <1>3, <1>5, <2>5 DEF SessionInv
<1>6. QED
  BY <1>4, <1>5

LEMMA CompletionSession ==
  ASSUME TypeOK, SessionInv, NEW i \in DOMAIN requests,
         RegisterCompleted(i) \/ FlagStored(i) \/ UnregisterCompleted(i)
  PROVE  SessionInv'
<1>1. requests \in Seq(Request) /\ requests[i] \in Request
  BY DEF TypeOK
<1>2. \A j \in DOMAIN RemoveAt(requests, i) :
        \E k \in DOMAIN requests : RemoveAt(requests, i)[j] = requests[k]
  BY <1>1, RemoveAtElements
<1>3. UNCHANGED <<account, connectDue, accessToken, subscribed, unsure>>
  BY DEF RegisterCompleted, FlagStored, UnregisterCompleted, javascript, prefs
<1>4. CASE account = None
  <2>1. /\ \A j \in DOMAIN requests : Leaving(requests[j])
        /\ registeredToken # None => late
        /\ hasRegisteredToReceivePush => registeredToken # None
        /\ accessToken = None /\ ~connectDue
    BY <1>4 DEF SessionInv, LoggedOut
  <2>2. Leaving(requests[i])
    BY <2>1
  <2>3. CASE requests' = RemoveAt(requests, i)
    <3>1. /\ registeredToken' = registeredToken /\ late' = late
          /\ hasRegisteredToReceivePush' => registeredToken # None
      <4>1. CASE FlagStored(i)
        BY <2>2, <4>1 DEF FlagStored, Leaving
      <4>2. CASE RegisterCompleted(i)
        <5>1. registeredToken' = registeredToken /\ late' = late
          <6>1. CASE requests[i].step = "accepted"
            <7>1. requests' = [requests EXCEPT ![i].step = "stored"]
              BY <4>2, <6>1 DEF RegisterCompleted
            <7>2. Len(requests') = Len(requests)
              BY <7>1, StepRequest
            <7>3. QED
              BY <1>1, <2>3, <7>2, RemoveAtLength
          <6>2. CASE requests[i].step # "accepted"
            BY <4>2, <6>2 DEF RegisterCompleted
          <6>3. QED
            BY <6>1, <6>2
        <5>2. QED
          BY <2>1, <4>2, <5>1 DEF RegisterCompleted
      <4>3. CASE UnregisterCompleted(i)
        BY <2>1, <4>3 DEF UnregisterCompleted, prefs
      <4>4. QED
        BY <4>1, <4>2, <4>3
    <3>2. (\A j \in DOMAIN requests : Leaving(requests[j]))'
      BY <1>2, <1>3, <2>1, <2>3, <3>1 DEF Leaving
    <3>3. client'.state # "off" =>
            \E j \in DOMAIN requests' : requests'[j].op = "unregister"
      <4>1. CASE requests[i].op = "unregister"
        <5>1. client' = Off
          BY <2>2, <4>1 DEF RegisterCompleted, FlagStored, UnregisterCompleted, Leaving
        <5>2. QED
          BY <5>1 DEF Off
      <4>2. CASE requests[i].op # "unregister"
        <5>1. client' = client
          BY <4>2 DEF RegisterCompleted, FlagStored, UnregisterCompleted
        <5>2. SUFFICES ASSUME client.state # "off"
                       PROVE  \E j \in DOMAIN requests' : requests'[j].op = "unregister"
          BY <5>1
        <5>3. PICK k \in DOMAIN requests : requests[k].op = "unregister"
          BY <1>4, <5>2 DEF SessionInv, LoggedOut
        <5>4. \E j \in DOMAIN RemoveAt(requests, i) : RemoveAt(requests, i)[j] = requests[k]
          BY <1>1, <4>2, <5>3, RemoveAtOthers
        <5>5. QED
          BY <2>3, <5>3, <5>4
      <4>3. QED
        BY <4>1, <4>2
    <3>4. QED
      BY <1>3, <1>4, <2>1, <3>1, <3>2, <3>3 DEF SessionInv, LoggedOut
  <2>4. CASE requests' # RemoveAt(requests, i)
    <3>1. /\ requests' = [requests EXCEPT ![i].step = "stored"]
          /\ requests[i].op = "register" /\ client' = client
          /\ registeredToken' = requests[i].device /\ late'
      BY <1>4, <2>4 DEF RegisterCompleted, FlagStored, UnregisterCompleted
    <3>2. registeredToken' # None
      BY <1>1, <3>1, NoneAssumption DEF Request
    <3>3. LET new == [requests EXCEPT ![i].step = "stored"]
          IN  /\ DOMAIN new = DOMAIN requests
              /\ \A j \in DOMAIN requests :
                   /\ new[j].op = requests[j].op
                   /\ new[j].device = requests[j].device
                   /\ new[j].account = requests[j].account
                   /\ new[j].step = IF j = i THEN "stored" ELSE requests[j].step
      BY StepRequest
    <3>4. (\A j \in DOMAIN requests : Leaving(requests[j]))'
      BY <1>3, <2>1, <3>1, <3>2, <3>3 DEF Leaving
    <3>5. client'.state # "off" =>
            \E j \in DOMAIN requests' : requests'[j].op = "unregister"
      BY <1>4, <3>1, <3>3 DEF SessionInv, LoggedOut
    <3>6. QED
      BY <1>3, <1>4, <2>1, <3>1, <3>2, <3>4, <3>5 DEF SessionInv, LoggedOut
  <2>5. QED
    BY <2>3, <2>4
<1>5. CASE account # None
  <2>1. \A j \in DOMAIN requests : Registering(requests[j])
    BY <1>5 DEF SessionInv, LoggedIn
  <2>2. Registering(requests[i])
    BY <2>1
  <2>3. CASE RegisterCompleted(i)
    <3>1. CASE requests[i].step = "accepted"
      <4>1. /\ registeredToken' = requests[i].device
            /\ requests' = [requests EXCEPT ![i].step = "stored"]
        BY <2>3, <3>1 DEF RegisterCompleted
      <4>2. requests[i].device # None
        BY <1>1, NoneAssumption DEF Request
      <4>3. <<account, registeredToken'>> \in subscribed /\ registeredToken' # None
        BY <2>2, <3>1, <4>1, <4>2 DEF Registering
      <4>4. LET new == [requests EXCEPT ![i].step = "stored"]
            IN  /\ DOMAIN new = DOMAIN requests
                /\ \A j \in DOMAIN requests :
                     /\ new[j].op = requests[j].op
                     /\ new[j].device = requests[j].device
                     /\ new[j].account = requests[j].account
                     /\ new[j].step = IF j = i THEN "stored" ELSE requests[j].step
        BY StepRequest
      <4>5. (\A j \in DOMAIN requests : Registering(requests[j]))'
        BY <1>3, <2>1, <3>1, <4>1, <4>3, <4>4 DEF Registering
      <4>6. QED
        BY <1>3, <1>5, <2>3, <4>3, <4>5 DEF RegisterCompleted, SessionInv, LoggedIn
    <3>2. CASE requests[i].step # "accepted"
      <4>1. /\ registeredToken' = registeredToken /\ late' = late
            /\ requests' = RemoveAt(requests, i)
        BY <2>3, <3>2 DEF RegisterCompleted
      <4>2. (\A j \in DOMAIN requests : Registering(requests[j]))'
        BY <1>2, <1>3, <2>1, <4>1 DEF Registering
      <4>3. QED
        BY <1>3, <1>5, <2>3, <4>1, <4>2 DEF RegisterCompleted, SessionInv, LoggedIn
    <3>3. QED
      BY <3>1, <3>2
  <2>4. CASE FlagStored(i)
    <3>1. registeredToken # None
      BY <2>2, <2>4 DEF FlagStored, Registering
    <3>2. (\A j \in DOMAIN requests : Registering(requests[j]))'
      BY <1>2, <1>3, <2>1, <2>4 DEF FlagStored, Registering
    <3>3. QED
      BY <1>3, <1>5, <2>4, <3>1, <3>2 DEF FlagStored, SessionInv, LoggedIn
  <2>5. CASE UnregisterCompleted(i)
    BY <2>2, <2>5 DEF UnregisterCompleted, Registering
  <2>6. QED
    BY <2>3, <2>4, <2>5
<1>6. QED
  BY <1>4, <1>5

LEMMA SessionInductive ==
  ASSUME CleanLogout
  PROVE  TypeOK /\ SessionInv /\ [Next]_vars => SessionInv'
<1> SUFFICES ASSUME TypeOK, SessionInv, [Next]_vars PROVE SessionInv'
  OBVIOUS
<1>1. CASE UNCHANGED vars
  BY <1>1 DEF SessionInv, LoggedIn, LoggedOut, Leaving, Registering, vars, javascript, prefs
<1>2. CASE Next
  BY <1>2, AgentSession, ClientSession, ServerSession, CompletionSession
  DEF Next, Answers
<1>3. QED
  BY <1>1, <1>2

\* While accounts are logged out and in at rest, the client is connected as the
\* account that is logged in (RNCallCenter.m 80-107), whatever is lost, refused
\* or renewed.
THEOREM ConnectedAsWhoIsLoggedIn ==
  ASSUME CleanLogout
  PROVE  Spec => []ConnectedAsLoggedIn
<1>1. TypeOK /\ SessionInv => ConnectedAsLoggedIn
  BY DEF SessionInv, LoggedIn, ConnectedAsLoggedIn
<1>2. QED
  BY <1>1, InitTypeOK, TypeInductive, InitSession, SessionInductive, PTL DEF Spec

\* The same of the flag: hasRegisteredToReceivePush is true of the account that
\* is logged in and the token that is stored (StringeeImplement.m 92-104), unless
\* a registration made after the logout before was stored.  That happens when the
\* connection is lost, or PushKit delivers the token, between clear and the
\* disconnection in its completion: didConnect: finds the flag wiped (77-90).
THEOREM RegisteredMeansSubscribed ==
  ASSUME CleanLogout
  PROVE  Spec => []RegisteredIsSubscribed
<1>1. TypeOK /\ SessionInv => RegisteredIsSubscribed
  BY DEF SessionInv, LoggedIn, RegisteredIsSubscribed
<1>2. QED
  BY <1>1, InitTypeOK, TypeInductive, InitSession, SessionInductive, PTL DEF Spec

-----------------------------------------------------------------------------
(* The pushes.                                                             *)

LEMMA InitPush == Init => PushInv /\ AimInv
BY DEF Init, PushInv, PushesFollowLogin, AimInv

\* What the pushes depend on.
LEMMA PushFrame ==
  ASSUME PushInv,
         UNCHANGED <<account, registeredToken, requests, subscribed, unsure>>
  PROVE  PushInv'
BY DEF PushInv, PushesFollowLogin, Unregistered, Undelivered

LEMMA AgentPush ==
  ASSUME CleanLogout, TypeOK, SessionInv, PushInv, Agent \/ InitAndConnect
  PROVE  PushInv'
<1>1. ASSUME NEW t \in AccessTokens, Login(t) PROVE PushInv'
  <2>1. requests = << >> /\ account = None
    BY <1>1 DEF Login, AtRest
  <2>2. \A s \in subscribed : s[1] \in unsure
    BY <2>1, NoneAssumption DEF TypeOK, PushInv, PushesFollowLogin
  <2>3. UNCHANGED <<requests, subscribed, unsure>>
    BY <1>1 DEF Login
  <2>4. QED
    BY <2>1, <2>2, <2>3 DEF PushInv, PushesFollowLogin, Undelivered
<1>2. ASSUME NEW t \in AccessTokens, Renew(t) PROVE PushInv'
  BY <1>2, PushFrame DEF Renew
<1>3. CASE RemoveValue
  BY <1>3, PushFrame DEF RemoveValue, javascript
<1>4. CASE Clear
  <2>1. requests = << >> /\ account # None /\ account' = None
        /\ subscribed' = subscribed
    BY <1>4 DEF Clear, AtRest
  <2>2. \A s \in subscribed : s[1] \in {account} \cup unsure
    BY <2>1 DEF PushInv, PushesFollowLogin
  <2>3. CASE registeredToken = None
    <3>1. UNCHANGED <<requests, unsure>>
      BY <1>4, <2>3 DEF Clear
    <3>2. \A s \in subscribed : s[1] \in unsure
      BY <2>1, <2>2, <2>3 DEF PushInv, Undelivered
    <3>3. QED
      BY <2>1, <3>1, <3>2 DEF PushInv, PushesFollowLogin
  <2>4. CASE registeredToken # None
    <3> DEFINE r == [op |-> "unregister", device |-> registeredToken,
                     account |-> ClientAccount, step |-> "sent"]
    <3>1. requests' = Append(<< >>, r)
      BY <1>4, <2>1, <2>4 DEF Clear
    <3>2. r.op = "unregister" /\ r.account = ClientAccount /\ r.step = "sent"
      OBVIOUS
    <3> HIDE DEF r
    <3>3. DOMAIN requests' = {1} /\ requests'[1] = r
      BY <3>1
    <3>4. unsure' = IF ClientAccount = None THEN unsure \cup {account} ELSE unsure
      BY <1>4, <2>4 DEF Clear
    <3>5. ClientAccount \in {account, None}
      BY <2>1 DEF SessionInv, LoggedIn, ClientAccount
    <3>6. PushesFollowLogin'
      BY <2>1, <2>2, <3>2, <3>3, <3>4, <3>5 DEF PushesFollowLogin
    <3>7. QED
      BY <2>1, <3>2, <3>3, <3>6 DEF PushInv, Unregistered
  <2>5. QED
    BY <2>3, <2>4
<1>5. CASE InitAndConnect
  BY <1>5, PushFrame DEF InitAndConnect, prefs
<1>6. QED
  BY <1>1, <1>2, <1>3, <1>4, <1>5 DEF Agent

\* A registration that is added changes nothing about the pushes.
LEMMA RegisterPush ==
  ASSUME TypeOK, PushInv, NEW d, NEW c \in BOOLEAN, RegisterDeviceTokenIf(c, d),
         UNCHANGED <<account, registeredToken, subscribed>>
  PROVE  PushInv'
<1> DEFINE r == [op |-> "register", device |-> d, account |-> ClientAccount,
                 step |-> "sent"]
<1>1. requests \in Seq(Request)
  BY DEF TypeOK
<1>2. /\ requests' = requests \/ requests' = Append(requests, r)
      /\ unsure \subseteq unsure'
  BY DEF RegisterDeviceTokenIf
<1>3. r.op = "register"
  OBVIOUS
<1> HIDE DEF r
<1>4. /\ DOMAIN requests \subseteq DOMAIN requests'
      /\ \A i \in DOMAIN requests : requests'[i] = requests[i]
      /\ \A i \in DOMAIN requests' : i \in DOMAIN requests \/ requests'[i] = r
  BY <1>1, <1>2
<1>5. PushesFollowLogin'
  BY <1>2, <1>4 DEF PushInv, PushesFollowLogin
<1>6. (\A i \in DOMAIN requests :
         requests[i].op = "unregister" => Unregistered(requests[i]))'
  BY <1>2, <1>3, <1>4 DEF PushInv, Unregistered
<1>7. Undelivered => Undelivered'
  BY <1>2, <1>4 DEF Undelivered
<1>8. QED
  BY <1>5, <1>6, <1>7 DEF PushInv

LEMMA ClientPush ==
  ASSUME TypeOK, SessionInv, PushInv,
         \/ Push \/ DidConnect \/ RequestAccessToken \/ MainConnected
         \/ \E d \in DeviceTokens : DidUpdatePushCredentials(d)
         \/ DidDisConnect \/ Restart \/ \E t \in AccessTokens : Expire(t)
  PROVE  PushInv'
<1>1. CASE Push
  BY <1>1, PushFrame DEF Push, javascript, prefs
<1>2. CASE DidConnect
  BY <1>2, PushFrame DEF DidConnect, javascript, prefs
<1>3. CASE RequestAccessToken
  BY <1>3, PushFrame DEF RequestAccessToken, javascript, prefs
<1>4. CASE MainConnected
  <2>1. (~hasRegisteredToReceivePush /\ deviceToken # None) \in BOOLEAN
    OBVIOUS
  <2>2. UNCHANGED <<account, registeredToken, subscribed>>
    BY <1>4 DEF MainConnected, javascript, prefs
  <2>3. QED
    BY <1>4, <2>1, <2>2, RegisterPush DEF MainConnected
<1>5. ASSUME NEW d \in DeviceTokens, DidUpdatePushCredentials(d) PROVE PushInv'
  <2>1. (~hasRegisteredToReceivePush /\ client.state = "on") \in BOOLEAN
    OBVIOUS
  <2>2. UNCHANGED <<account, registeredToken, subscribed>>
    BY <1>5 DEF DidUpdatePushCredentials, javascript, prefs
  <2>3. QED
    BY <1>5, <2>1, <2>2, RegisterPush DEF DidUpdatePushCredentials
<1>6. CASE DidDisConnect
  BY <1>6, PushFrame DEF DidDisConnect, javascript, prefs
<1>7. CASE Restart
  <2>1. requests' = << >> /\ UNCHANGED <<account, registeredToken, subscribed>>
    BY <1>7 DEF Restart, prefs
  <2>2. unsure' = unsure \cup ({requests[i].account : i \in DOMAIN requests} \ {None})
    BY <1>7 DEF Restart
  <2>3. \A s \in subscribed : s[1] # None
    BY NoneAssumption DEF TypeOK
  <2>4. PushesFollowLogin'
    BY <2>1, <2>2, <2>3 DEF PushInv, PushesFollowLogin
  <2>5. account # None => (Undelivered => account \in unsure')
    BY <2>2 DEF Undelivered
  <2>6. QED
    BY <2>1, <2>4, <2>5 DEF PushInv, Undelivered
<1>8. CASE \E t \in AccessTokens : Expire(t)
  BY <1>8, PushFrame DEF Expire, javascript, prefs
<1>9. QED
  BY <1>1, <1>2, <1>3, <1>4, <1>5, <1>6, <1>7, <1>8

LEMMA ServerPush ==
  ASSUME TypeOK, SessionInv, PushInv, NEW i \in DOMAIN requests,
         Serve(i) \/ Refuse(i) \/ NotSent(i)
  PROVE  PushInv'
<1> DEFINE new(step) == [requests EXCEPT ![i].step = step]
<1>1. \A step \in {"accepted", "refused"} :
        /\ DOMAIN new(step) = DOMAIN requests /\ Len(new(step)) = Len(requests)
        /\ \A j \in DOMAIN requests :
             /\ new(step)[j].op = requests[j].op
             /\ new(step)[j].device = requests[j].device
             /\ new(step)[j].account = requests[j].account
             /\ new(step)[j].step = IF j = i THEN step ELSE requests[j].step
  BY StepRequest
<1>2. \/ requests' = new("accepted") /\ Serve(i)
      \/ requests' = new("refused") /\ (Refuse(i) \/ NotSent(i))
  BY DEF Serve, Refuse, NotSent
<1>3. Serve(i) => requests' = new("accepted")
  BY DEF Serve
<1> HIDE DEF new
<1>4. /\ DOMAIN requests' = DOMAIN requests
      /\ \A j \in DOMAIN requests :
           /\ requests'[j].op = requests[j].op
           /\ requests'[j].device = requests[j].device
           /\ requests'[j].account = requests[j].account
           /\ j # i => requests'[j].step = requests[j].step
  BY <1>1, <1>2
<1>5. UNCHANGED <<account, registeredToken>> /\ unsure \subseteq unsure'
  BY DEF Serve, Refuse, NotSent, javascript, prefs
<1>6. CASE account = None
  <2>1. \A j \in DOMAIN requests : Leaving(requests[j])
    BY <1>6 DEF SessionInv, LoggedOut
  <2>2. Leaving(requests[i])
    BY <2>1
  <2>3. \A s \in subscribed' : s \in subscribed \/ s[1] \in unsure
    <3>1. CASE requests[i].op = "unregister"
      BY <3>1 DEF Serve, Refuse, NotSent, Served
    <3>2. CASE requests[i].op # "unregister"
      <4>1. requests[i].op = "register" /\ requests[i].account \in unsure \cup {None}
        BY <2>2, <3>2 DEF Leaving
      <4>2. QED
        BY <4>1 DEF Serve, Refuse, NotSent, Served
    <3>3. QED
      BY <3>1, <3>2
  <2>4. PushesFollowLogin'
    BY <1>4, <1>5, <2>3 DEF PushInv, PushesFollowLogin
  <2>5. ASSUME NEW j \in DOMAIN requests', requests'[j].op = "unregister"
        PROVE  /\ requests'[j].step = "accepted" =>
                    \/ requests'[j].account \in unsure'
                    \/ <<requests'[j].account, requests'[j].device>> \notin subscribed'
               /\ requests'[j].step = "refused" => requests'[j].account \in unsure' \cup {None}
    <3>1. /\ j \in DOMAIN requests /\ requests[j].op = "unregister"
          /\ requests'[j].account = requests[j].account
          /\ requests'[j].device = requests[j].device
      BY <1>4, <2>5
    <3>2. Unregistered(requests[j])
      BY <3>1 DEF PushInv
    <3>3. CASE j = i
      <4>1. Serve(i) => <<requests[j].account, requests[j].device>> \notin subscribed'
        BY <3>1, <3>3 DEF Serve, Served
      <4>2. Refuse(i) => requests[j].account \in unsure'
        BY <3>3 DEF Refuse
      <4>3. NotSent(i) => requests[j].account = None
        BY <3>3 DEF NotSent
      <4>4. \/ requests'[j].step = "accepted" /\ Serve(i)
            \/ requests'[j].step = "refused" /\ (Refuse(i) \/ NotSent(i))
        BY <1>1, <1>2, <3>1, <3>3
      <4>5. QED
        BY <3>1, <4>1, <4>2, <4>3, <4>4
    <3>4. CASE j # i
      <4>1. requests'[j].step = requests[j].step
        BY <1>4, <3>1, <3>4
      <4>2. <<requests[j].account, requests[j].device>>[1] = requests[j].account
        OBVIOUS
      <4>3. <<requests[j].account, requests[j].device>> \in subscribed' =>
              <<requests[j].account, requests[j].device>> \in subscribed
              \/ requests[j].account \in unsure
        BY <2>3, <4>2
      <4>4. QED
        BY <1>5, <3>1, <3>2, <4>1, <4>3 DEF Unregistered
    <3>5. QED
      BY <3>3, <3>4
  <2>6. (\A j \in DOMAIN requests :
           requests[j].op = "unregister" => Unregistered(requests[j]))'
    BY <2>5 DEF Unregistered
  <2>7. QED
    BY <1>5, <1>6, <2>4, <2>6 DEF PushInv
<1>7. CASE account # None
  <2>1. \A j \in DOMAIN requests :
          requests[j].op = "register" /\ requests[j].account \in {account, None}
    BY <1>7 DEF SessionInv, LoggedIn, Registering
  <2>2. \A s \in subscribed' : s \in subscribed \/ s[1] = account
    BY <2>1 DEF Serve, Refuse, NotSent, Served
  <2>3. PushesFollowLogin'
    BY <1>4, <1>5, <2>1, <2>2 DEF PushInv, PushesFollowLogin
  <2>4. CASE Serve(i)
    <3>1. requests[i].account = account /\ requests'[i].step = "accepted"
      BY <1>1, <1>3, <2>1, <2>4 DEF Serve
    <3>2. Undelivered'
      BY <1>4, <1>5, <2>1, <3>1 DEF Undelivered
    <3>3. QED
      BY <1>4, <2>1, <2>3, <3>2 DEF PushInv
  <2>5. CASE Refuse(i)
    <3>1. account \in unsure'
      BY <2>1, <2>5 DEF Refuse
    <3>2. QED
      BY <1>4, <1>5, <2>1, <2>3, <3>1 DEF PushInv, Undelivered
  <2>6. CASE NotSent(i)
    <3>1. requests[i].step = "sent" /\ UNCHANGED <<subscribed, unsure>>
      BY <2>6 DEF NotSent, First
    <3>2. Undelivered => Undelivered'
      BY <1>4, <1>5, <3>1 DEF Undelivered
    <3>3. QED
      BY <1>4, <1>5, <2>1, <2>3, <3>1, <3>2 DEF PushInv
  <2>7. QED
    BY <2>4, <2>5, <2>6
<1>8. QED
  BY <1>6, <1>7

LEMMA CompletionPush ==
  ASSUME OneDevice, TypeOK, SessionInv, PushInv, NEW i \in DOMAIN requests,
         RegisterCompleted(i) \/ FlagStored(i) \/ UnregisterCompleted(i)
  PROVE  PushInv'
<1>1. requests \in Seq(Request) /\ requests[i] \in Request
  BY DEF TypeOK
<1>2. UNCHANGED <<account, subscribed, unsure>>
  BY DEF RegisterCompleted, FlagStored, UnregisterCompleted, javascript, prefs
<1>3. CASE account = None
  <2>1. CASE requests' = RemoveAt(requests, i)
    <3>1. \A j \in DOMAIN requests' : \E k \in DOMAIN requests : requests'[j] = requests[k]
      BY <1>1, <2>1, RemoveAtElements
    <3>2. (\A j \in DOMAIN requests :
             requests[j].op = "unregister" => Unregistered(requests[j]))'
      BY <1>2, <3>1 DEF PushInv, Unregistered
    <3>3. ASSUME NEW s \in subscribed, s[1] \notin unsure
          PROVE  \E j \in DOMAIN requests' :
                   requests'[j].op = "unregister" /\ requests'[j].account = s[1]
      <4>1. s[1] \in Accounts /\ s[2] \in DeviceTokens /\ s = <<s[1], s[2]>>
        BY DEF TypeOK
      <4>2. PICK k \in DOMAIN requests :
              requests[k].op = "unregister" /\ requests[k].account = s[1]
        BY <1>3, <3>3, <4>1, NoneAssumption DEF PushInv, PushesFollowLogin
      <4>3. CASE k = i
        <5>1. requests[i].device = s[2]
          BY <1>1, <4>1 DEF OneDevice, Request
        <5>2. Unregistered(requests[i])
          BY <4>2, <4>3 DEF PushInv
        <5>3. Leaving(requests[i])
          BY <1>3 DEF SessionInv, LoggedOut
        <5>4. requests[i].step \in {"accepted", "refused"}
          BY <4>2, <4>3, <5>3
          DEF RegisterCompleted, FlagStored, UnregisterCompleted, Leaving
        <5>5. QED
          BY <3>3, <4>1, <4>2, <4>3, <5>1, <5>2, <5>4, NoneAssumption DEF Unregistered
      <4>4. CASE k # i
        <5>1. \E j \in DOMAIN RemoveAt(requests, i) :
                RemoveAt(requests, i)[j] = requests[k]
          BY <1>1, <4>4, RemoveAtOthers
        <5>2. QED
          BY <2>1, <4>2, <5>1
      <4>5. QED
        BY <4>3, <4>4
    <3>4. PushesFollowLogin'
      BY <1>2, <3>3 DEF PushesFollowLogin
    <3>5. QED
      BY <1>2, <1>3, <3>2, <3>4 DEF PushInv
  <2>2. CASE requests' # RemoveAt(requests, i)
    <3>1. requests' = [requests EXCEPT ![i].step = "stored"]
      BY <2>2 DEF RegisterCompleted, FlagStored, UnregisterCompleted
    <3>2. LET new == [requests EXCEPT ![i].step = "stored"]
          IN  /\ DOMAIN new = DOMAIN requests
              /\ \A j \in DOMAIN requests :
                   /\ new[j].op = requests[j].op
                   /\ new[j].device = requests[j].device
                   /\ new[j].account = requests[j].account
                   /\ new[j].step = IF j = i THEN "stored" ELSE requests[j].step
      BY StepRequest
    <3>3. PushesFollowLogin'
      BY <1>2, <3>1, <3>2 DEF PushInv, PushesFollowLogin
    <3>4. (\A j \in DOMAIN requests :
             requests[j].op = "unregister" => Unregistered(requests[j]))'
      BY <1>2, <3>1, <3>2 DEF PushInv, Unregistered
    <3>5. QED
      BY <1>2, <1>3, <3>3, <3>4 DEF PushInv
  <2>3. QED
    BY <2>1, <2>2
<1>4. CASE account # None
  <2>1. \A j \in DOMAIN requests : Registering(requests[j])
    BY <1>4 DEF SessionInv, LoggedIn
  <2>2. /\ requests[i].op = "register"
        /\ requests[i].step = "stored" => registeredToken # None
    BY <2>1 DEF Registering
  <2>3. \A s \in subscribed : s[1] \in {account} \cup unsure
    BY <2>1 DEF PushInv, PushesFollowLogin, Registering
  <2>4. PushesFollowLogin'
    BY <1>2, <2>3 DEF PushesFollowLogin
  <2>5. \A j \in DOMAIN requests' : requests'[j].op = "register"
    <3>1. CASE requests' = RemoveAt(requests, i)
      <4>1. \A j \in DOMAIN RemoveAt(requests, i) :
              \E k \in DOMAIN requests : RemoveAt(requests, i)[j] = requests[k]
        BY <1>1, RemoveAtElements
      <4>2. QED
        BY <2>1, <3>1, <4>1 DEF Registering
    <3>2. CASE requests' = [requests EXCEPT ![i].step = "stored"]
      <4>1. LET new == [requests EXCEPT ![i].step = "stored"]
            IN  /\ DOMAIN new = DOMAIN requests
                /\ \A j \in DOMAIN requests : new[j].op = requests[j].op
        BY StepRequest
      <4>2. QED
        BY <2>1, <3>2, <4>1 DEF Registering
    <3>3. QED
      BY <3>1, <3>2 DEF RegisterCompleted, FlagStored, UnregisterCompleted
  <2>6. CASE registeredToken' # None
    BY <2>4, <2>5, <2>6 DEF PushInv
  <2>7. CASE registeredToken' = None
    <3>1. /\ requests[i].step = "refused" /\ requests' = RemoveAt(requests, i)
          /\ registeredToken = None
      <4>1. requests[i].device # None
        BY <1>1, NoneAssumption DEF Request
      <4>2. QED
        BY <2>2, <2>7, <4>1 DEF RegisterCompleted, FlagStored, UnregisterCompleted, prefs
    <3>2. Undelivered => Undelivered'
      <4>1. CASE account \in unsure
        BY <1>2, <4>1 DEF Undelivered
      <4>2. ASSUME NEW k \in DOMAIN requests, requests[k].op = "register",
                   requests[k].account = account, requests[k].step = "accepted"
            PROVE  Undelivered'
        <5>1. \E j \in DOMAIN RemoveAt(requests, i) :
                RemoveAt(requests, i)[j] = requests[k]
          BY <1>1, <3>1, <4>2, RemoveAtOthers
        <5>2. QED
          BY <1>2, <3>1, <4>2, <5>1 DEF Undelivered
      <4>3. QED
        BY <4>1, <4>2 DEF Undelivered
    <3>3. QED
      BY <1>2, <1>4, <2>4, <2>5, <3>1, <3>2 DEF PushInv
  <2>8. QED
    BY <2>6, <2>7
<1>5. QED
  BY <1>3, <1>4

LEMMA PushInductive ==
  ASSUME CleanLogout, OneDevice
  PROVE  TypeOK /\ SessionInv /\ PushInv /\ [Next]_vars => PushInv'
<1> SUFFICES ASSUME TypeOK, SessionInv, PushInv, [Next]_vars PROVE PushInv'
  OBVIOUS
<1>1. CASE UNCHANGED vars
  BY <1>1, PushFrame DEF vars, javascript, prefs
<1>2. CASE Next
  BY <1>2, AgentPush, ClientPush, ServerPush, CompletionPush DEF Next, Answers
<1>3. QED
  BY <1>1, <1>2

\* The device stops getting the pushes of an account that has logged out, once
\* its unregistration is answered and unless a request of it failed, or was made
\* after the logout (RNCallCenter.m 80-107, StringeeImplement.m 92-104).
THEOREM PushesFollowWhoIsLoggedIn ==
  ASSUME CleanLogout, OneDevice
  PROVE  Spec => []PushesFollowLogin
<1>1. PushInv => PushesFollowLogin
  BY DEF PushInv
<1>2. Init => TypeOK /\ SessionInv /\ PushInv
  BY InitTypeOK, InitSession, InitPush
<1>3. TypeOK /\ SessionInv /\ PushInv /\ [Next]_vars =>
        (TypeOK /\ SessionInv /\ PushInv)'
  BY TypeInductive, SessionInductive, PushInductive
<1>4. QED
  BY <1>1, <1>2, <1>3, PTL DEF Spec

-----------------------------------------------------------------------------
(* The registration of a device that is connected.                         *)

\* What the aim depends on.
LEMMA AimFrame ==
  ASSUME AimInv, UNCHANGED <<account, deviceToken, requests, subscribed, unsure, late>>,
         client'.state = "on" => client.state = "on", blocks' = blocks
  PROVE  AimInv'
BY DEF AimInv, Aim

LEMMA AgentAim ==
  ASSUME CleanLogout, TypeOK, SessionInv, AimInv, Agent \/ InitAndConnect
  PROVE  AimInv'
<1>1. ASSUME NEW t \in AccessTokens, Login(t) PROVE AimInv'
  <2>1. client'.state = "off"
    BY <1>1 DEF Login, AtRest, SessionInv, LoggedOut
  <2>2. QED
    BY <2>1 DEF AimInv
<1>2. ASSUME NEW t \in AccessTokens, Renew(t) PROVE AimInv'
  BY <1>2, AimFrame DEF Renew
<1>3. CASE RemoveValue
  BY <1>3, AimFrame DEF RemoveValue, javascript
<1>4. CASE Clear
  BY <1>4 DEF Clear, AimInv
<1>5. CASE InitAndConnect
  <2>1. client'.state = "on" => client.state = "on"
    BY <1>5 DEF InitAndConnect, ConnectToStringeeServer, Connecting
  <2>2. QED
    BY <1>5, <2>1, AimFrame DEF InitAndConnect, prefs
<1>6. QED
  BY <1>1, <1>2, <1>3, <1>4, <1>5 DEF Agent

\* A device that is connected and asks for its registration, or has the flag,
\* has its aim.
LEMMA RegisterAim ==
  ASSUME OneDevice, TypeOK, SessionInv, account # None, client.state = "on",
         ~late, NEW d \in DeviceTokens,
         RegisterDeviceTokenIf(~hasRegisteredToReceivePush, d)
  PROVE  \/ <<account, d>> \in subscribed
         \/ \E i \in DOMAIN requests' :
              /\ requests'[i].op = "register" /\ requests'[i].account = account
              /\ requests'[i].device = d /\ requests'[i].step = "sent"
<1>1. CASE hasRegisteredToReceivePush
  <2>1. registeredToken \in DeviceTokens
        /\ <<account, registeredToken>> \in subscribed
    BY <1>1 DEF TypeOK, SessionInv, LoggedIn
  <2>2. registeredToken = d
    BY <2>1 DEF OneDevice
  <2>3. QED
    BY <2>1, <2>2
<1>2. CASE ~hasRegisteredToReceivePush
  <2> DEFINE r == [op |-> "register", device |-> d, account |-> ClientAccount,
                   step |-> "sent"]
  <2>1. requests' = Append(requests, r) /\ requests \in Seq(Request)
    BY <1>2 DEF RegisterDeviceTokenIf, TypeOK
  <2>2. ClientAccount = account
    BY DEF ClientAccount, SessionInv, LoggedIn
  <2>3. r.op = "register" /\ r.device = d /\ r.account = account /\ r.step = "sent"
    BY <2>2
  <2> HIDE DEF r
  <2>4. Len(requests) + 1 \in DOMAIN requests' /\ requests'[Len(requests) + 1] = r
    BY <2>1
  <2>5. QED
    BY <2>3, <2>4
<1>3. QED
  BY <1>1, <1>2

LEMMA ClientAim ==
  ASSUME OneDevice, CleanLogout, TypeOK, SessionInv, AimInv,
         \/ Push \/ DidConnect \/ RequestAccessToken \/ MainConnected
         \/ \E d \in DeviceTokens : DidUpdatePushCredentials(d)
         \/ DidDisConnect \/ Restart \/ \E t \in AccessTokens : Expire(t)
  PROVE  AimInv'
<1>1. CASE Push
  <2>1. client'.state = "on" => client.state = "on"
    BY <1>1 DEF Push, ConnectToStringeeServer, Connecting
  <2>2. QED
    BY <1>1, <2>1, AimFrame DEF Push, javascript, prefs
<1>2. CASE DidConnect
  <2>1. blocks' > 0
    BY <1>2 DEF DidConnect, TypeOK
  <2>2. QED
    BY <2>1 DEF AimInv, Aim
<1>3. CASE RequestAccessToken
  <2>1. client'.state # "on"
    BY <1>3 DEF RequestAccessToken, Off, Connecting
  <2>2. QED
    BY <2>1 DEF AimInv
<1>4. CASE MainConnected
  <2>1. UNCHANGED <<account, client, deviceToken, subscribed, late>>
    BY <1>4 DEF MainConnected, javascript
  <2>2. SUFFICES ASSUME account # None, client.state = "on", deviceToken # None, ~late
                 PROVE  Aim(deviceToken)'
    BY <2>1 DEF AimInv
  <2>3. RegisterDeviceTokenIf(~hasRegisteredToReceivePush, deviceToken)
    BY <1>4, <2>2 DEF MainConnected, RegisterDeviceTokenIf
  <2>4. deviceToken \in DeviceTokens
    BY <2>2 DEF TypeOK
  <2>5. QED
    BY <2>1, <2>2, <2>3, <2>4, RegisterAim DEF Aim
<1>5. ASSUME NEW d \in DeviceTokens, DidUpdatePushCredentials(d) PROVE AimInv'
  <2>1. UNCHANGED <<account, client, subscribed, late>> /\ deviceToken' = d
    BY <1>5 DEF DidUpdatePushCredentials, javascript
  <2>2. SUFFICES ASSUME account # None, client.state = "on", ~late
                 PROVE  Aim(deviceToken)'
    BY <2>1 DEF AimInv
  <2>3. RegisterDeviceTokenIf(~hasRegisteredToReceivePush, d)
    BY <1>5, <2>2 DEF DidUpdatePushCredentials, RegisterDeviceTokenIf
  <2>4. QED
    BY <2>1, <2>2, <2>3, RegisterAim DEF Aim
<1>6. CASE DidDisConnect
  <2>1. client'.state # "on"
    BY <1>6 DEF DidDisConnect, Connecting
  <2>2. QED
    BY <2>1 DEF AimInv
<1>7. CASE Restart
  <2>1. client'.state # "on"
    BY <1>7 DEF Restart, Off
  <2>2. QED
    BY <2>1 DEF AimInv
<1>8. CASE \E t \in AccessTokens : Expire(t)
  BY <1>8, AimFrame DEF Expire, javascript, prefs
<1>9. QED
  BY <1>1, <1>2, <1>3, <1>4, <1>5, <1>6, <1>7, <1>8

\* The answer to a request leaves the device registered, or its account unsure.
LEMMA ServerAim ==
  ASSUME TypeOK, SessionInv, AimInv, NEW i \in DOMAIN requests,
         Serve(i) \/ Refuse(i) \/ NotSent(i)
  PROVE  AimInv'
<1>1. UNCHANGED <<account, client, deviceToken, blocks, late>> /\ unsure \subseteq unsure'
  BY DEF Serve, Refuse, NotSent, javascript
<1>2. SUFFICES ASSUME account # None, client.state = "on", deviceToken # None, ~late
               PROVE  Aim(deviceToken)'
  BY <1>1 DEF AimInv
<1>3. Registering(requests[i])
  BY <1>2 DEF SessionInv, LoggedIn
<1>4. subscribed \subseteq subscribed'
  BY <1>3 DEF Serve, Refuse, NotSent, Served, Registering
<1>5. CASE account \in unsure \/ blocks > 0 \/ <<account, deviceToken>> \in subscribed
  BY <1>1, <1>4, <1>5 DEF Aim
<1>6. ASSUME NEW k \in DOMAIN requests,
             requests[k].op = "register", requests[k].account = account,
             requests[k].device = deviceToken, requests[k].step = "sent"
      PROVE  Aim(deviceToken)'
  <2>1. CASE k = i
    <3>1. Serve(i) => <<account, deviceToken>> \in subscribed'
      BY <1>6, <2>1 DEF Serve, Served
    <3>2. Refuse(i) => account \in unsure'
      BY <1>6, <2>1 DEF Refuse
    <3>3. ~NotSent(i)
      BY <1>2, <1>6, <2>1 DEF NotSent
    <3>4. QED
      BY <1>1, <3>1, <3>2, <3>3 DEF Aim
  <2>2. CASE k # i
    <3>1. \A step \in {"accepted", "refused"} :
            LET new == [requests EXCEPT ![i].step = step]
            IN  /\ DOMAIN new = DOMAIN requests
                /\ \A j \in DOMAIN requests :
                     /\ new[j].op = requests[j].op
                     /\ new[j].device = requests[j].device
                     /\ new[j].account = requests[j].account
                     /\ new[j].step = IF j = i THEN step ELSE requests[j].step
      BY StepRequest
    <3>2. /\ k \in DOMAIN requests' /\ requests'[k].op = requests[k].op
          /\ requests'[k].device = requests[k].device
          /\ requests'[k].account = requests[k].account
          /\ requests'[k].step = requests[k].step
      BY <2>2, <3>1 DEF Serve, Refuse, NotSent
    <3>3. QED
      BY <1>1, <1>6, <3>2 DEF Aim
  <2>3. QED
    BY <2>1, <2>2
<1>7. QED
  BY <1>2, <1>5, <1>6 DEF AimInv, Aim

\* A completion that finds an account logged in leaves what was stored late.
LEMMA LateKept ==
  ASSUME TypeOK, account # None, NEW i \in DOMAIN requests,
         RegisterCompleted(i) \/ FlagStored(i) \/ UnregisterCompleted(i)
  PROVE  late' = late
BY DEF TypeOK, RegisterCompleted, FlagStored, UnregisterCompleted

LEMMA CompletionAim ==
  ASSUME TypeOK, SessionInv, AimInv, NEW i \in DOMAIN requests,
         RegisterCompleted(i) \/ FlagStored(i) \/ UnregisterCompleted(i)
  PROVE  AimInv'
<1>1. requests \in Seq(Request) /\ requests[i] \in Request
  BY DEF TypeOK
<1>2. UNCHANGED <<account, deviceToken, subscribed, unsure, blocks>>
  BY DEF RegisterCompleted, FlagStored, UnregisterCompleted, javascript, prefs
<1>3. CASE UnregisterCompleted(i)
  <2>1. client'.state # "on"
    BY <1>3 DEF UnregisterCompleted, Off
  <2>2. QED
    BY <2>1 DEF AimInv
<1>4. CASE RegisterCompleted(i) \/ FlagStored(i)
  <2>1. client' = client /\ (account # None => late' = late)
    BY <1>4, LateKept DEF RegisterCompleted, FlagStored
  <2>2. SUFFICES ASSUME account # None, client.state = "on", deviceToken # None, ~late
                 PROVE  Aim(deviceToken)'
    BY <1>2, <2>1 DEF AimInv
  <2>3. ASSUME NEW k \in DOMAIN requests,
               requests[k].op = "register", requests[k].account = account,
               requests[k].device = deviceToken, requests[k].step = "sent"
        PROVE  Aim(deviceToken)'
    <3>1. k # i
      BY <1>4, <2>3 DEF RegisterCompleted, FlagStored
    <3>2. \E j \in DOMAIN requests' :
            /\ requests'[j].op = requests[k].op
            /\ requests'[j].device = requests[k].device
            /\ requests'[j].account = requests[k].account
            /\ requests'[j].step = requests[k].step
      <4>1. CASE requests' = RemoveAt(requests, i)
        <5>1. \E j \in DOMAIN RemoveAt(requests, i) :
                RemoveAt(requests, i)[j] = requests[k]
          BY <1>1, <3>1, RemoveAtOthers
        <5>2. QED
          BY <4>1, <5>1
      <4>2. CASE requests' = [requests EXCEPT ![i].step = "stored"]
        <5>1. LET new == [requests EXCEPT ![i].step = "stored"]
              IN  /\ DOMAIN new = DOMAIN requests
                  /\ \A j \in DOMAIN requests :
                       /\ new[j].op = requests[j].op
                       /\ new[j].device = requests[j].device
                       /\ new[j].account = requests[j].account
                       /\ new[j].step = IF j = i THEN "stored" ELSE requests[j].step
          BY StepRequest
        <5>2. QED
          BY <3>1, <4>2, <5>1
      <4>3. QED
        BY <1>4, <4>1, <4>2 DEF RegisterCompleted, FlagStored
    <3>3. QED
      BY <1>2, <2>3, <3>2 DEF Aim
  <2>4. QED
    BY <1>2, <2>2, <2>3 DEF AimInv, Aim
<1>5. QED
  BY <1>3, <1>4

LEMMA AimInductive ==
  ASSUME CleanLogout, OneDevice
  PROVE  TypeOK /\ SessionInv /\ AimInv /\ [Next]_vars => AimInv'
<1> SUFFICES ASSUME TypeOK, SessionInv, AimInv, [Next]_vars PROVE AimInv'
  OBVIOUS
<1>1. CASE UNCHANGED vars
  BY <1>1, AimFrame DEF vars, javascript, prefs
<1>2. CASE Next
  BY <1>2, AgentAim, ClientAim, ServerAim, CompletionAim DEF Next, Answers
<1>3. QED
  BY <1>1, <1>2

\* At rest nobody is connected but the account that is logged in.
LEMMA AimMeansSubscribed == TypeOK /\ SessionInv /\ AimInv => ConnectedIsSubscribed
<1> SUFFICES ASSUME TypeOK, SessionInv, AimInv, AtRest, client.state = "on",
                    deviceToken # None, ~late
             PROVE  ClientAccount \in unsure
                    \/ <<ClientAccount, deviceToken>> \in subscribed
  BY DEF ConnectedIsSubscribed
<1>1. requests = << >> /\ blocks = 0
  BY DEF AtRest
<1>2. account # None
  BY <1>1 DEF SessionInv, LoggedOut
<1>3. ClientAccount = account
  BY <1>2 DEF ClientAccount, SessionInv, LoggedIn
<1>4. QED
  BY <1>1, <1>2, <1>3 DEF AimInv, Aim

\* A device that is connected, and has nothing on its way, is registered for
\* the account, unless a request of it failed (StringeeImplement.m 85-104): so
\* when an account logs in and out at rest the flag of a former account does
\* not keep the next one from being registered, unless it was stored after the
\* logout.
THEOREM ConnectedIsRegistered ==
  ASSUME CleanLogout, OneDevice
  PROVE  Spec => []ConnectedIsSubscribed
<1>1. Init => TypeOK /\ SessionInv /\ AimInv
  BY InitTypeOK, InitSession, InitPush
<1>2. TypeOK /\ SessionInv /\ AimInv /\ [Next]_vars =>
        (TypeOK /\ SessionInv /\ AimInv)'
  BY TypeInductive, SessionInductive, AimInductive
<1>3. QED
  BY <1>1, <1>2, AimMeansSubscribed, PTL DEF Spec
=============================================================================
