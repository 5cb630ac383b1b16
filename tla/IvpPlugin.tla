------------------------------ MODULE IvpPlugin ------------------------------
(***************************************************************************)
(* The client library of a plugin (TmxApi/tmx/IvpPlugin.c) with its         *)
(* connection to the core: registration, subscription and reconnection.    *)
(*                                                                         *)
(* The receive thread connects, registers and handles what the core sends. *)
(* Application threads subscribe and broadcast under plugin->lock, which   *)
(* the receive thread takes to send but not to change state and socket.    *)
(* The lock lets one application thread through at a time, so the model    *)
(* has one call in progress: the lock is taken while call # "idle".         *)
(* ivp_destroy is not called by a running plugin and is left out.          *)
(***************************************************************************)
EXTENDS Naturals, Sequences

CONSTANTS
  Filters,    \* the filters an application subscribes with
  None,       \* no filter (NULL, or an empty subscription)
  MaxCalls,   \* bound: calls of the application
  MaxDrops,   \* bound: lost connections
  MaxPushes   \* bound: configuration changes the core sends

ASSUME ClientAssumption ==
  /\ None \notin Filters
  /\ MaxCalls \in Nat /\ MaxDrops \in Nat /\ MaxPushes \in Nat

VARIABLES
  \* struct IvpPlugin
  state, socket, filter,
  \* the receive thread: its position, the messages in its framer, and the
  \* pointer it passes to ivp_subscribe
  rpc, framed, arg,
  \* the application's call, and the message it sends
  call, outgoing,
  \* the connection: its state for the core's end, and what is in transit
  link, toCore, toClient,
  \* the core's end of it: the registration and the subscription
  session, coreFilter,
  \* counters of the bounds
  calls, drops, pushes

clientVars == <<state, socket, filter, rpc, framed, arg, call, outgoing>>
coreVars == <<session, coreFilter>>
bounds == <<calls, drops, pushes>>
vars == <<state, socket, filter, rpc, framed, arg, call, outgoing, link, toCore,
          toClient, session, coreFilter, calls, drops, pushes>>

RegisterMsg == [kind |-> "register", filter |-> None]
DataMsg == [kind |-> "data", filter |-> None]
SubscribeMsg(f) == [kind |-> "subscribe", filter |-> f]
CallMessages == {DataMsg} \cup {SubscribeMsg(f) : f \in Filters \cup {None}}
CoreMessages == {RegisterMsg} \cup CallMessages

ConfigMsg == [kind |-> "config", level |-> "none", error |-> "none"]
\* The errors of the core have a level and no error number.
ErrorMsg(level) == [kind |-> "error", level |-> level, error |-> "none"]
ClientMessages == {ConfigMsg, ErrorMsg("error"), ErrorMsg("fatal")}

Up == state \in {"connected", "registered"}
Registered == session \in {"registered", "halfRegistered"}

Init ==
  /\ state = "disconnected" /\ socket = FALSE /\ filter = None
  /\ rpc = "top" /\ framed = <<>> /\ arg = "none"
  /\ call = "idle" /\ outgoing = DataMsg
  /\ link = "closed" /\ toCore = <<>> /\ toClient = <<>>
  /\ session = "none" /\ coreFilter = None
  /\ calls = 0 /\ drops = 0 /\ pushes = 0

-----------------------------------------------------------------------------
(* Application threads                                                     *)

\* ivp_broadcastMessage up to the send: it returns unless connected.
BeginSend(m) ==
  IF Up THEN call' = "sending" /\ outgoing' = m
        ELSE UNCHANGED <<call, outgoing>>

\* ivp_subscribe: the filter is replaced by a copy and the old one is freed, also
\* when the receive thread is about to use its pointer.
Subscribe(f) ==
  /\ call = "idle" /\ calls < MaxCalls
  /\ calls' = calls + 1
  /\ filter' = f
  /\ arg' = IF arg = "current" THEN "stale" ELSE arg
  /\ BeginSend(SubscribeMsg(f))
  /\ UNCHANGED <<state, socket, rpc, framed, link, toCore, toClient, coreVars,
                 drops, pushes>>

\* ivp_broadcastMessage, and the status, event log and configuration calls.
Broadcast ==
  /\ call = "idle" /\ calls < MaxCalls /\ Up
  /\ calls' = calls + 1
  /\ BeginSend(DataMsg)
  /\ UNCHANGED <<state, socket, filter, rpc, framed, arg, link, toCore, toClient,
                 coreVars, drops, pushes>>

\* send on plugin->socket.  After the core closed its end it may still succeed.
Send ==
  /\ call = "sending"
  /\ \/ socket /\ link = "up" /\ toCore' = Append(toCore, outgoing) /\ call' = "idle"
     \/ socket /\ link = "down" /\ call' = "idle" /\ UNCHANGED toCore
     \/ (~socket \/ link # "up") /\ call' = "failed" /\ UNCHANGED toCore
  /\ UNCHANGED <<state, socket, filter, rpc, framed, arg, outgoing, link, toClient,
                 coreVars, bounds>>

\* The send failed: ivp_onStateChange(disconnected), whatever the state is by now.
SendFailed ==
  /\ call = "failed"
  /\ state' = "disconnected"
  /\ call' = "idle"
  /\ UNCHANGED <<socket, filter, rpc, framed, arg, outgoing, link, toCore, toClient,
                 coreVars, bounds>>

-----------------------------------------------------------------------------
(* The receive thread                                                      *)

\* A connection attempt that succeeds; one that fails is repeated.
Connect ==
  /\ rpc = "top" /\ state # "error"
  /\ rpc' = "opened"
  /\ link' = "up" /\ session' = "connected"
  /\ UNCHANGED <<state, socket, filter, framed, arg, call, outgoing, toCore,
                 toClient, coreFilter, bounds>>

SetSocket ==
  /\ rpc = "opened"
  /\ rpc' = "announcing"
  /\ socket' = TRUE
  /\ UNCHANGED <<state, filter, framed, arg, call, outgoing, link, toCore, toClient,
                 coreVars, bounds>>

SetConnected ==
  /\ rpc = "announcing"
  /\ rpc' = "registering"
  /\ state' = "connected"
  /\ UNCHANGED <<socket, filter, framed, arg, call, outgoing, link, toCore, toClient,
                 coreVars, bounds>>

\* The receive thread sends m under the lock, if it is still connected.
SendLocked(m) ==
  /\ call = "idle"
  /\ \/ Up /\ link = "up" /\ toCore' = Append(toCore, m) /\ UNCHANGED state
     \/ Up /\ link = "down" /\ state' \in {state, "disconnected"} /\ UNCHANGED toCore
     \/ ~Up /\ UNCHANGED <<state, toCore>>

SendRegistration ==
  /\ rpc = "registering"
  /\ rpc' = "receiving"
  /\ SendLocked(RegisterMsg)
  /\ UNCHANGED <<socket, filter, framed, arg, call, outgoing, link, toClient,
                 coreVars, bounds>>

\* recv: one or more messages arrive in the framer.
Receive ==
  /\ rpc = "receiving" /\ framed = <<>> /\ Up
  /\ \E n \in 1..Len(toClient) :
       /\ framed' = SubSeq(toClient, 1, n)
       /\ toClient' = SubSeq(toClient, n + 1, Len(toClient))
  /\ UNCHANGED <<state, socket, filter, rpc, arg, call, outgoing, link, toCore,
                 coreVars, bounds>>

\* Mutant: the end of the connection is not noticed.
ReceiveEndsQuietly ==
  /\ rpc = "receiving" /\ framed = <<>> /\ Up
  /\ toClient = <<>> /\ link = "down"
  /\ UNCHANGED vars

\* recv: the core closed the connection, or it was lost.
ReceiveEnds ==
  /\ rpc = "receiving" /\ framed = <<>> /\ Up
  /\ toClient = <<>> /\ link = "down"
  /\ state' = "disconnected"
  /\ UNCHANGED <<socket, filter, rpc, framed, arg, call, outgoing, link, toCore,
                 toClient, coreVars, bounds>>

\* ivp_onError: an error without a number is ignored.
OnError(m) == IF m.error # "none" /\ m.level = "fatal" THEN "error" ELSE state

IsConfigMsg(m) == m.kind = "config"

\* ivp_onMessageReceived, for every message in the framer, connected or not.  The
\* configuration is updated under the lock.
OnMessageReceived ==
  /\ rpc = "receiving" /\ framed # <<>>
  /\ IsConfigMsg(Head(framed)) => call = "idle"
  /\ framed' = Tail(framed)
  /\ state' = IF Head(framed).kind = "error" THEN OnError(Head(framed)) ELSE state
  /\ rpc' = IF IsConfigMsg(Head(framed)) THEN "configured" ELSE "receiving"
  /\ UNCHANGED <<socket, filter, arg, call, outgoing, link, toCore, toClient,
                 coreVars, bounds>>

\* After the lock is released: the first configuration confirms the registration.
CheckConfirmed ==
  /\ rpc = "configured"
  /\ rpc' = IF state = "connected" THEN "confirming" ELSE "receiving"
  /\ UNCHANGED <<state, socket, filter, framed, arg, call, outgoing, link, toCore,
                 toClient, coreVars, bounds>>

\* ivp_onStateChange(registered), whatever the state is by now.
Confirm ==
  /\ rpc = "confirming"
  /\ rpc' = "reading"
  /\ state' = "registered"
  /\ UNCHANGED <<socket, filter, framed, arg, call, outgoing, link, toCore, toClient,
                 coreVars, bounds>>

\* Mutant: a client that registers does not subscribe again.
ReadFilterOnly ==
  /\ rpc = "reading"
  /\ rpc' = "receiving"
  /\ UNCHANGED <<state, socket, filter, framed, arg, call, outgoing, link, toCore,
                 toClient, coreVars, bounds>>

\* The argument of ivp_subscribe(plugin, plugin->filter) is read without the lock.
ReadFilter ==
  /\ rpc = "reading"
  /\ rpc' = "resubscribing"
  /\ arg' = IF filter = None THEN "null" ELSE "current"
  /\ UNCHANGED <<state, socket, filter, framed, call, outgoing, link, toCore,
                 toClient, coreVars, bounds>>

\* The filter after ivp_subscribe replaced it by what the argument points to.  The
\* argument may be freed memory: then its copy is anything, or the new filter is at
\* the same address and stays.
Resubscribed ==
  {f \in Filters \cup {None} :
     (arg = "current" => f = filter) /\ (arg = "null" => f = None)}

Resubscribe ==
  /\ rpc = "resubscribing"
  /\ rpc' = "receiving"
  /\ arg' = "none"
  /\ filter' \in Resubscribed
  /\ SendLocked(SubscribeMsg(filter'))
  /\ UNCHANGED <<socket, framed, call, outgoing, link, toClient, coreVars, bounds>>

\* The inner loop ends and the connection is closed.
Close ==
  /\ rpc = "receiving" /\ framed = <<>> /\ ~Up
  /\ rpc' = "closed"
  /\ link' = "closed" /\ toCore' = <<>> /\ toClient' = <<>>
  /\ session' = "none" /\ coreFilter' = None
  /\ UNCHANGED <<state, socket, filter, framed, arg, call, outgoing, bounds>>

ClearSocket ==
  /\ rpc = "closed"
  /\ rpc' = "top"
  /\ socket' = FALSE
  /\ UNCHANGED <<state, filter, framed, arg, call, outgoing, link, toCore, toClient,
                 coreVars, bounds>>

-----------------------------------------------------------------------------
(* The core's end (PluginConnection, fast processor thread)                *)

Handling(kind) == link = "up" /\ toCore # <<>> /\ Head(toCore).kind = kind

Reply(m) == toClient' = Append(toClient, m)

\* processRegistrationMessage.  A registration can fail after it took effect.
HandleRegistration ==
  /\ Handling("register")
  /\ toCore' = Tail(toCore)
  /\ \/ session' = "registered" /\ Reply(ConfigMsg)
     \/ session' \in {"refused", "halfRegistered"} /\ Reply(ErrorMsg("fatal"))
  /\ UNCHANGED <<clientVars, link, coreFilter, bounds>>

\* processSubscribeMessage.
HandleSubscribe ==
  /\ Handling("subscribe")
  /\ toCore' = Tail(toCore)
  /\ \/ Registered /\ coreFilter' = Head(toCore).filter /\ UNCHANGED toClient
     \/ ~Registered /\ Reply(ErrorMsg("error")) /\ UNCHANGED coreFilter
  /\ UNCHANGED <<clientVars, link, session, bounds>>

\* sendMessageToRouter.
HandleData ==
  /\ Handling("data")
  /\ toCore' = Tail(toCore)
  /\ \/ Registered /\ UNCHANGED toClient
     \/ ~Registered /\ Reply(ErrorMsg("error"))
  /\ UNCHANGED <<clientVars, link, coreVars, bounds>>

\* onConfigChanged: the configuration monitor of a registered plugin found a change.
PushConfig ==
  /\ link = "up" /\ Registered /\ pushes < MaxPushes
  /\ pushes' = pushes + 1
  /\ Reply(ConfigMsg)
  /\ UNCHANGED <<clientVars, link, toCore, coreVars, calls, drops>>

\* The connection is lost or the core ends; what was in transit may be lost.
Drop ==
  /\ link = "up" /\ drops < MaxDrops
  /\ drops' = drops + 1
  /\ link' = "down" /\ session' = "none" /\ coreFilter' = None
  /\ toCore' = <<>> /\ toClient' \in {<<>>, toClient}
  /\ UNCHANGED <<clientVars, calls, pushes>>

-----------------------------------------------------------------------------
ReceiveThread ==
  \/ Connect \/ SetSocket \/ SetConnected \/ SendRegistration \/ Receive
  \/ ReceiveEnds \/ OnMessageReceived \/ CheckConfirmed \/ Confirm \/ ReadFilter
  \/ Resubscribe \/ Close \/ ClearSocket

Application == (\E f \in Filters : Subscribe(f)) \/ Broadcast \/ Send \/ SendFailed

Core == HandleRegistration \/ HandleSubscribe \/ HandleData \/ PushConfig \/ Drop

Next == ReceiveThread \/ Application \/ Core

Spec == Init /\ [][Next]_vars

\* The threads of both processes are scheduled, and connecting succeeds in the end.
Fairness ==
  /\ WF_vars(ReceiveThread)
  /\ WF_vars(Send \/ SendFailed)
  /\ WF_vars(HandleRegistration \/ HandleSubscribe \/ HandleData)

FairSpec == Spec /\ Fairness

-----------------------------------------------------------------------------
(* Properties                                                              *)

\* Every variable stays in its domain.
TypeOK ==
  /\ state \in {"disconnected", "connected", "registered", "error"}
  /\ socket \in BOOLEAN
  /\ filter \in Filters \cup {None}
  /\ rpc \in {"top", "opened", "announcing", "registering", "receiving",
              "configured", "confirming", "reading", "resubscribing", "closed"}
  /\ framed \in Seq(ClientMessages)
  /\ arg \in {"none", "null", "current", "stale"}
  /\ call \in {"idle", "sending", "failed"}
  /\ outgoing \in CallMessages
  /\ link \in {"closed", "up", "down"}
  /\ toCore \in Seq(CoreMessages)
  /\ toClient \in Seq(ClientMessages)
  /\ session \in {"none", "connected", "registered", "halfRegistered", "refused"}
  /\ coreFilter \in Filters \cup {None}
  /\ calls \in 0..MaxCalls /\ drops \in 0..MaxDrops /\ pushes \in 0..MaxPushes

\* Both ends agree on the registration: while the connection stands, a client in
\* state registered is registered with the core, over all reconnections, refusals
\* and calls that fail late.
RegistrationAgreed ==
  state = "registered" /\ link = "up" => Registered

\* Both ends agree on the subscription: once the registered client and the core
\* have handled everything, the core uses the client's filter, whatever calls were
\* made before, during and after the registration.
SubscriptionAgreed ==
  /\ state = "registered" /\ link = "up" /\ rpc = "receiving"
  /\ call = "idle" /\ toCore = <<>>
  => coreFilter = filter

\* The connection is open exactly between Connect and Close, and nothing is left of
\* one that is not.
LinkInv ==
  /\ rpc \in {"top", "closed"} <=> link = "closed"
  /\ link # "up" => session = "none" /\ toCore = <<>> /\ coreFilter = None
  /\ link = "closed" => toClient = <<>>

\* What each position of the receive thread says of the state, the socket and the
\* call in progress.
PhaseInv ==
  /\ rpc \in {"top", "closed", "opened", "announcing"} => ~Up
  /\ rpc \in {"top", "closed", "opened", "announcing", "registering"}
       => state # "registered" /\ framed = <<>>
  /\ rpc \in {"announcing", "registering", "receiving", "configured", "confirming",
              "reading", "resubscribing"} => socket
  /\ call = "failed" /\ link = "up" => rpc \in {"opened", "announcing", "registering"}
  /\ call = "sending" /\ outgoing.kind = "subscribe" => outgoing = SubscribeMsg(filter)

NoneOf(kind, s) == \A k \in 1..Len(s) : s[k].kind # kind
AtMostOne(kind, s) ==
  \A j, k \in 1..Len(s) : s[j].kind = kind /\ s[k].kind = kind => j = k

\* One registration per connection.
RegisterOnce ==
  /\ AtMostOne("register", toCore)
  /\ link = "up" /\ session # "connected" => NoneOf("register", toCore)
  /\ link = "up" /\ rpc \in {"opened", "announcing", "registering"}
       => session = "connected" /\ NoneOf("register", toCore)

\* Only a registered plugin is sent its configuration.
ConfirmInv ==
  link = "up" /\ ~Registered =>
    /\ NoneOf("config", framed) /\ NoneOf("config", toClient)
    /\ rpc \notin {"configured", "confirming"} /\ state # "registered"

\* f is the subscription once a core that uses g has handled the messages of s.
WillUse(f, s, g) ==
  \/ \E k \in 1..Len(s) :
       /\ s[k] = SubscribeMsg(f)
       /\ \A j \in 1..Len(s) : j > k => s[j].kind # "subscribe"
  \/ g = f /\ NoneOf("subscribe", s)

\* A registered client's filter is in use or under way.
FilterInv ==
  /\ state = "registered" /\ link = "up" /\ rpc \in {"receiving", "configured"}
  /\ ~(call = "sending" /\ outgoing.kind = "subscribe")
  => WillUse(filter, toCore, coreFilter)

\* The inductive invariant.
ClientInv ==
  TypeOK /\ LinkInv /\ PhaseInv /\ RegisterOnce /\ ConfirmInv /\ FilterInv

\* After the last lost connection and the last call, the client ends up registered
\* with its filter in use, or the core has refused it.
Settles ==
  \/ <>[](state = "registered" /\ coreFilter = filter)
  \/ <>[](session \in {"refused", "halfRegistered"})
=============================================================================
