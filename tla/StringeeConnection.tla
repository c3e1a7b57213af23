------------------------- MODULE StringeeConnection -------------------------
(***************************************************************************)
(* The connection of the device to Stringee and its registration for the   *)
(* VoIP pushes of an account (CallCenter/StringeeImplement.m,              *)
(* RNCallCenter.m, AppDelegate.m).                                         *)
(*                                                                         *)
(* JavaScript logs an account in (it stores an access token and asks to    *)
(* connect) and out (clear).  When the client is connected, or PushKit     *)
(* delivers the device token, the device is registered unless the stored   *)
(* flag hasRegisteredToReceivePush says that it is.  The flag outlives the *)
(* process, is set by a completion, and is about no account in particular. *)
(*                                                                         *)
(* Access tokens are model values, each of one account; a device token is  *)
(* one too.  What the server delivers pushes for is a set of pairs.        *)
(***************************************************************************)
EXTENDS Naturals, Sequences, SequencesExt

CONSTANTS
  Accounts,      \* accounts of Stringee
  AccessTokens,  \* access tokens, and
  AccountOf,     \* whose they are
  DeviceTokens,  \* push tokens PushKit gives to the device
  CleanLogout,   \* whether JavaScript logs an account in and out only when
                 \* nothing else is under way
  MaxLogins,     \* bound on logins
  MaxFaults,     \* bound on crashes, lost connections and failed requests
  None

ASSUME AccountAssumption == AccountOf \in [AccessTokens -> Accounts]
ASSUME BoundAssumption ==
  CleanLogout \in BOOLEAN /\ MaxLogins \in Nat /\ MaxFaults \in Nat
ASSUME NoneAssumption ==
  /\ None \notin Accounts /\ None \notin AccessTokens
  /\ None \notin DeviceTokens

VARIABLES
  account,      \* who is logged in, for JavaScript, or None
  connectDue,   \* JavaScript is about to call initAndConnect
  accessToken,  \* preference ACCESS_TOKEN
  registeredToken,              \* preference DEVICE_TOKEN
  hasRegisteredToReceivePush,   \* preference
  deviceToken,  \* InstanceManager.deviceToken
  client,       \* stringeeClient
  blocks,       \* blocks of didConnect: on the main queue
  requests,     \* register and unregister requests without their completion
  subscribed,   \* the server: which device gets the pushes of which account
  expired,      \* access tokens whose time is over
  logins,       \* logins so far
  faults,       \* faults so far
  unsure,       \* history: accounts a request of which failed, was lost, or
                \* was made after their logout
  late          \* history: a registration was stored while nobody was logged
                \* in, and no logout has wiped it since

prefs == <<accessToken, registeredToken, hasRegisteredToReceivePush>>
javascript == <<account, connectDue, logins>>
vars == <<javascript, prefs, deviceToken, client, blocks, requests, subscribed,
          expired, faults, unsure, late>>

\* A client is off, connecting with a token, or on (hasConnected).
Client == [state : {"off", "connecting", "on"}, token : AccessTokens \cup {None}]
Off == [state |-> "off", token |-> None]
Connecting(t) == [state |-> "connecting", token |-> t]

\* Whose connection a request goes out on: None if there is no connection.
ClientAccount == IF client.state = "on" THEN AccountOf[client.token] ELSE None

\* A request the server has not seen is "sent"; "stored" is a registration
\* whose completion has stored DEVICE_TOKEN and not yet the flag.
Request == [op : {"register", "unregister"}, device : DeviceTokens,
            account : Accounts \cup {None},
            step : {"sent", "accepted", "refused", "stored"}]

Fault == /\ faults < MaxFaults
         /\ faults' = faults + 1

Init ==
  /\ account = None
  /\ connectDue = FALSE
  /\ accessToken = None
  /\ registeredToken = None
  /\ hasRegisteredToReceivePush = FALSE
  /\ deviceToken = None
  /\ client = Off
  /\ blocks = 0
  /\ requests = << >>
  /\ subscribed = {}
  /\ expired = {}
  /\ logins = 0
  /\ faults = 0
  /\ unsure = {}
  /\ late = FALSE

-----------------------------------------------------------------------------
(* What the handlers have in common.                                       *)

\* connectToStringeeServer, with getAccessToken: nothing to do when
\* connected, nothing to connect with when the token has expired.
ConnectToStringeeServer ==
  client' = IF client.state = "on" \/ accessToken \in expired \cup {None}
            THEN client
            ELSE Connecting(accessToken)

\* registerDeviceToken:, or nothing.  Nobody asks whether the account of the
\* connection is still logged in.
RegisterDeviceTokenIf(condition, d) ==
  IF condition
  THEN /\ requests' = Append(requests, [op |-> "register", device |-> d,
                            account |-> ClientAccount, step |-> "sent"])
       /\ unsure' = IF account = None THEN unsure \cup ({ClientAccount} \ {None})
                                      ELSE unsure
  ELSE UNCHANGED <<requests, unsure>>

\* Nothing is on its way between the device and the server.
AtRest == requests = << >> /\ blocks = 0

-----------------------------------------------------------------------------
(* JavaScript.                                                             *)

\* A login stores the access token with setValue:andValue:.
Login(t) ==
  /\ account = None
  /\ logins < MaxLogins /\ logins' = logins + 1
  /\ CleanLogout => AtRest
  /\ t \notin expired
  /\ account' = AccountOf[t]
  /\ accessToken' = t
  /\ connectDue' = TRUE
  /\ UNCHANGED <<registeredToken, hasRegisteredToReceivePush, deviceToken,
                 client, blocks, requests, subscribed, expired, faults, unsure,
                 late>>

\* So does a renewal of the token.
Renew(t) ==
  /\ account = AccountOf[t] /\ t \notin expired /\ t # accessToken
  /\ accessToken' = t
  /\ connectDue' = TRUE
  /\ UNCHANGED <<account, logins, registeredToken, hasRegisteredToReceivePush,
                 deviceToken, client, blocks, requests, subscribed, expired,
                 faults, unsure, late>>

\* remove: of the access token.
RemoveValue ==
  /\ account # None /\ accessToken # None
  /\ accessToken' = None
  /\ UNCHANGED <<javascript, registeredToken, hasRegisteredToReceivePush,
                 deviceToken, client, blocks, requests, subscribed, expired,
                 faults, unsure, late>>

\* initAndConnect:
InitAndConnect ==
  /\ connectDue
  /\ connectDue' = FALSE
  /\ ConnectToStringeeServer
  /\ UNCHANGED <<account, logins, prefs, deviceToken, blocks, requests,
                 subscribed, expired, faults, unsure, late>>

\* Mutant: the preferences stay.
ClearKeeping ==
  /\ account # None
  /\ CleanLogout => AtRest /\ client.state # "connecting"
  /\ account' = None /\ connectDue' = FALSE
  /\ IF registeredToken # None
     THEN /\ requests' = Append(requests,
               [op |-> "unregister", device |-> registeredToken,
                account |-> ClientAccount, step |-> "sent"])
          /\ unsure' = IF ClientAccount = None THEN unsure \cup {account} ELSE unsure
          /\ UNCHANGED client
     ELSE /\ client' = Off
          /\ UNCHANGED <<requests, unsure>>
  /\ late' = FALSE
  /\ UNCHANGED <<logins, prefs, deviceToken, blocks, subscribed, expired,
                 faults>>

\* Mutant: the preferences are wiped first, DEVICE_TOKEN is read after.
ClearWiped ==
  /\ account # None
  /\ CleanLogout => AtRest /\ client.state # "connecting"
  /\ account' = None /\ connectDue' = FALSE
  /\ client' = Off
  /\ accessToken' = None /\ registeredToken' = None
  /\ hasRegisteredToReceivePush' = FALSE
  /\ late' = FALSE
  /\ UNCHANGED <<logins, deviceToken, blocks, requests, unsure, subscribed,
                 expired, faults>>

\* clear: the device is unregistered and then disconnected, or disconnected
\* at once, and the preferences are wiped.  deviceToken stays.
Clear ==
  /\ account # None
  /\ CleanLogout => AtRest /\ client.state # "connecting"
  /\ account' = None /\ connectDue' = FALSE
  /\ IF registeredToken # None
     THEN /\ requests' = Append(requests,
               [op |-> "unregister", device |-> registeredToken,
                account |-> ClientAccount, step |-> "sent"])
          /\ unsure' = IF ClientAccount = None THEN unsure \cup {account} ELSE unsure
          /\ UNCHANGED client
     ELSE /\ client' = Off
          /\ UNCHANGED <<requests, unsure>>
  /\ accessToken' = None /\ registeredToken' = None
  /\ hasRegisteredToReceivePush' = FALSE
  /\ late' = FALSE
  /\ UNCHANGED <<logins, deviceToken, blocks, subscribed, expired, faults>>

-----------------------------------------------------------------------------
(* The client and its delegate.                                            *)

\* The server accepts the token: didConnect: gives a block to the main queue.
DidConnect ==
  /\ client.state = "connecting" /\ client.token \notin expired
  /\ client' = [client EXCEPT !.state = "on"]
  /\ blocks' = blocks + 1
  /\ UNCHANGED <<javascript, prefs, deviceToken, requests, subscribed, expired,
                 faults, unsure, late>>

\* Mutant: a missing token is not looked for.
RequestAccessTokenNil ==
  /\ client.state = "connecting" /\ client.token \in expired
  /\ client' = Connecting(accessToken)
  /\ UNCHANGED <<javascript, prefs, deviceToken, blocks, requests, subscribed,
                 expired, faults, unsure, late>>

\* Mutant: the client gives up.
RequestAccessTokenOnce ==
  /\ client.state = "connecting" /\ client.token \in expired
  /\ client' = Off
  /\ UNCHANGED <<javascript, prefs, deviceToken, blocks, requests, subscribed,
                 expired, faults, unsure, late>>

\* The server refuses the token: requestAccessToken: connects again with the
\* token that is stored, which may be the one that was refused.
RequestAccessToken ==
  /\ client.state = "connecting" /\ client.token \in expired
  /\ client' = IF accessToken = None THEN Off ELSE Connecting(accessToken)
  /\ UNCHANGED <<javascript, prefs, deviceToken, blocks, requests, subscribed,
                 expired, faults, unsure, late>>

\* The block of didConnect:
MainConnected ==
  /\ blocks > 0
  /\ blocks' = blocks - 1
  /\ RegisterDeviceTokenIf(
       ~hasRegisteredToReceivePush /\ deviceToken # None, deviceToken)
  /\ UNCHANGED <<javascript, prefs, deviceToken, client, subscribed, expired,
                 faults, late>>

\* Mutant: the token is kept for the next connection only.
DidUpdatePushCredentialsLate(d) ==
  /\ deviceToken' = d
  /\ UNCHANGED <<javascript, prefs, client, blocks, requests, subscribed,
                 expired, faults, unsure, late>>

\* pushRegistry:didUpdatePushCredentials:forType:
DidUpdatePushCredentials(d) ==
  /\ d # deviceToken
  /\ deviceToken' = d
  /\ RegisterDeviceTokenIf(
       ~hasRegisteredToReceivePush /\ client.state = "on", d)
  /\ UNCHANGED <<javascript, prefs, client, blocks, subscribed, expired,
                 faults, late>>

\* A push of one of the subscribed accounts: handleIncomingPushEvent: connects.
Push ==
  /\ \E s \in subscribed : s[2] = deviceToken
  /\ ConnectToStringeeServer
  /\ UNCHANGED <<javascript, prefs, deviceToken, blocks, requests, subscribed,
                 expired, faults, unsure, late>>

\* The server serves the requests in order.
Served(r) == IF r.op = "register"
             THEN subscribed \cup {<<r.account, r.device>>}
             ELSE subscribed \ {<<r.account, r.device>>}

First(i) == /\ requests[i].step = "sent"
            /\ \A j \in 1..(i - 1) : requests[j].step # "sent"

Serve(i) ==
  /\ First(i) /\ requests[i].account # None
  /\ subscribed' = Served(requests[i])
  /\ requests' = [requests EXCEPT ![i].step = "accepted"]
  /\ UNCHANGED <<javascript, prefs, deviceToken, client, blocks, expired,
                 faults, unsure, late>>

\* The server refuses, or its answer is lost with the connection.
Refuse(i) ==
  /\ First(i) /\ requests[i].account # None
  /\ Fault
  /\ subscribed' \in {subscribed, Served(requests[i])}
  /\ unsure' = unsure \cup {requests[i].account}
  /\ requests' = [requests EXCEPT ![i].step = "refused"]
  /\ UNCHANGED <<javascript, prefs, deviceToken, client, blocks, expired,
                 late>>

\* There is no connection to send the request on.
NotSent(i) ==
  /\ First(i) /\ requests[i].account = None
  /\ requests' = [requests EXCEPT ![i].step = "refused"]
  /\ UNCHANGED <<javascript, prefs, deviceToken, client, blocks, subscribed,
                 expired, faults, unsure, late>>

\* The completion of a registration: DEVICE_TOKEN is stored, then the flag.
RegisterCompleted(i) ==
  /\ requests[i].op = "register" /\ requests[i].step \in {"accepted", "refused"}
  /\ IF requests[i].step = "accepted"
     THEN /\ registeredToken' = requests[i].device
          /\ requests' = [requests EXCEPT ![i].step = "stored"]
          /\ late' = (late \/ account = None)
     ELSE /\ requests' = RemoveAt(requests, i)
          /\ UNCHANGED <<registeredToken, late>>
  /\ UNCHANGED <<javascript, accessToken, hasRegisteredToReceivePush,
                 deviceToken, client, blocks, subscribed, expired, faults,
                 unsure>>

FlagStored(i) ==
  /\ requests[i].step = "stored"
  /\ hasRegisteredToReceivePush' = TRUE
  /\ requests' = RemoveAt(requests, i)
  /\ UNCHANGED <<javascript, accessToken, registeredToken, deviceToken, client,
                 blocks, subscribed, expired, faults, unsure, late>>

\* Mutant: the client stays connected.
UnregisterCompletedConnected(i) ==
  /\ requests[i].op = "unregister" /\ requests[i].step \in {"accepted", "refused"}
  /\ requests' = RemoveAt(requests, i)
  /\ client' = IF requests[i].step = "accepted" THEN Off ELSE client
  /\ UNCHANGED <<javascript, prefs, deviceToken, blocks, subscribed, expired,
                 faults, unsure, late>>

\* The completion of an unregistration disconnects, whoever is connected.
UnregisterCompleted(i) ==
  /\ requests[i].op = "unregister" /\ requests[i].step \in {"accepted", "refused"}
  /\ requests' = RemoveAt(requests, i)
  /\ client' = Off
  /\ UNCHANGED <<javascript, prefs, deviceToken, blocks, subscribed, expired,
                 faults, unsure, late>>

-----------------------------------------------------------------------------
(* Faults and time.                                                        *)

\* The connection is lost; the client connects again by itself.
DidDisConnect ==
  /\ client.state = "on"
  /\ Fault
  /\ client' = Connecting(client.token)
  /\ UNCHANGED <<javascript, prefs, deviceToken, blocks, requests, subscribed,
                 expired, unsure, late>>

Expire(t) ==
  /\ t \notin expired
  /\ expired' = expired \cup {t}
  /\ UNCHANGED <<javascript, prefs, deviceToken, client, blocks, requests,
                 subscribed, faults, unsure, late>>

\* The process ends and is started again: the preferences stay, completions
\* are lost, and JavaScript connects if somebody is logged in.
Restart ==
  /\ Fault
  /\ connectDue' = (account # None)
  /\ deviceToken' = None
  /\ client' = Off
  /\ blocks' = 0
  /\ requests' = << >>
  /\ unsure' = unsure \cup
       ({requests[i].account : i \in DOMAIN requests} \ {None})
  /\ UNCHANGED <<account, logins, prefs, subscribed, expired, late>>

-----------------------------------------------------------------------------
Agent ==
  \/ \E t \in AccessTokens : Login(t) \/ Renew(t)
  \/ RemoveValue \/ Clear

Answers ==
  \E i \in DOMAIN requests :
    \/ Serve(i) \/ NotSent(i)
    \/ RegisterCompleted(i) \/ FlagStored(i) \/ UnregisterCompleted(i)

Next ==
  \/ Agent \/ InitAndConnect \/ Push
  \/ DidConnect \/ RequestAccessToken \/ MainConnected
  \/ \E d \in DeviceTokens : DidUpdatePushCredentials(d)
  \/ Answers
  \/ \E i \in DOMAIN requests : Refuse(i)
  \/ DidDisConnect \/ Restart
  \/ \E t \in AccessTokens : Expire(t)

Spec == Init /\ [][Next]_vars

\* JavaScript connects after a login, the server answers, the main queue and
\* the completions run.
Fairness ==
  /\ WF_vars(InitAndConnect) /\ WF_vars(DidConnect)
  /\ WF_vars(RequestAccessToken) /\ WF_vars(MainConnected) /\ WF_vars(Answers)

FairSpec == Spec /\ Fairness

-----------------------------------------------------------------------------
(* What the connection promises.                                           *)

TypeOK ==
  /\ account \in Accounts \cup {None} /\ connectDue \in BOOLEAN
  /\ accessToken \in AccessTokens \cup {None}
  /\ registeredToken \in DeviceTokens \cup {None}
  /\ hasRegisteredToReceivePush \in BOOLEAN
  /\ deviceToken \in DeviceTokens \cup {None}
  /\ client \in Client /\ (client.state = "off" <=> client.token = None)
  /\ blocks \in Nat
  /\ requests \in Seq(Request)
  /\ subscribed \subseteq Accounts \X DeviceTokens
  /\ expired \subseteq AccessTokens
  /\ logins \in Nat /\ faults \in Nat
  /\ unsure \subseteq Accounts /\ late \in BOOLEAN

\* What the flag says is so: the server delivers the pushes of the account
\* that is logged in to the device whose token is stored, across failed
\* requests, renewed tokens, lost connections and restarts, unless a
\* registration stored after the logout before is taken for its own.
RegisteredIsSubscribed ==
  hasRegisteredToReceivePush /\ account # None /\ ~late =>
    <<account, registeredToken>> \in subscribed

\* The pushes of an account that is not logged in stop: the device gets them
\* only while its unregistration is under way, or after a request failed or
\* was made for it when it had been logged out.
PushesFollowLogin ==
  \A s \in subscribed :
    \/ s[1] \in {account} \cup unsure
    \/ \E i \in DOMAIN requests :
         requests[i].op = "unregister" /\ requests[i].account = s[1]

\* The client is connected as the account that is logged in, until a logout
\* has disconnected it.
ConnectedAsLoggedIn ==
  client.state # "off" /\ account # None => AccountOf[client.token] = account

\* "if not registered for pushes then register, or when after a logout it
\* connects with another account it has to register too"
\* (StringeeImplement.m 85): a device that is connected, and has nothing on
\* its way, is registered for the account, unless a request of it failed or a
\* registration was stored after the logout before.
ConnectedIsSubscribed ==
  AtRest /\ client.state = "on" /\ deviceToken # None /\ ~late =>
    ClientAccount \in unsure \/ <<ClientAccount, deviceToken>> \in subscribed

\* A login leads to a registration, unless it ends, its token does, PushKit
\* has no token for the device, a request fails, or a registration was stored
\* after the logout before.
LoginRegisters ==
  \A a \in Accounts :
    account = a ~> \/ <<a, deviceToken>> \in subscribed
                   \/ account # a \/ a \in unsure \/ late
                   \/ accessToken \in expired \cup {None}
                   \/ deviceToken = None
=============================================================================
