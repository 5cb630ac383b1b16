--------------------------- MODULE IvpPluginProofs ---------------------------
(***************************************************************************)
(* Proofs that a plugin's client library and the core agree on registration *)
(* and subscription, for every set of filters and any number of calls and  *)
(* lost connections.                                                       *)
(***************************************************************************)
EXTENDS IvpPlugin, SequenceTheorems, TLAPS

USE DEF clientVars, coreVars, bounds

-----------------------------------------------------------------------------
(* Messages in transit                                                     *)

\* Nothing is in transit at first.
LEMMA EmptyFacts ==
  ASSUME NEW kind
  PROVE  /\ NoneOf(kind, <<>>) /\ AtMostOne(kind, <<>>)
         /\ \A f, g : WillUse(f, <<>>, g) => f = g
  BY DEF NoneOf, AtMostOne, WillUse

\* What sending a message does to the kinds in transit.
LEMMA AppendKinds ==
  ASSUME NEW S, NEW s \in Seq(S), NEW m \in S, NEW kind
  PROVE  /\ NoneOf(kind, s) /\ m.kind # kind => NoneOf(kind, Append(s, m))
         /\ NoneOf(kind, s) => AtMostOne(kind, Append(s, m))
         /\ AtMostOne(kind, s) /\ m.kind # kind => AtMostOne(kind, Append(s, m))
  <1>1. /\ Len(s) \in Nat /\ Len(Append(s, m)) = Len(s) + 1
        /\ \A i \in 1..Len(s) : Append(s, m)[i] = s[i]
        /\ Append(s, m)[Len(s) + 1] = m
    BY AppendProperties, LenProperties
  <1> DEFINE t == Append(s, m)
  <1> HIDE DEF t
  <1>2. /\ Len(t) = Len(s) + 1 /\ t[Len(s) + 1] = m
        /\ \A i \in 1..Len(t) : i = Len(s) + 1 \/ (i \in 1..Len(s) /\ t[i] = s[i])
    BY <1>1 DEF t
  <1>3. NoneOf(kind, s) /\ m.kind # kind => NoneOf(kind, t)
    BY Zenon, <1>1, <1>2 DEF NoneOf
  <1>4. NoneOf(kind, s) => AtMostOne(kind, t)
    BY Zenon, <1>1, <1>2 DEF NoneOf, AtMostOne
  <1>5. AtMostOne(kind, s) /\ m.kind # kind => AtMostOne(kind, t)
    BY ZenonT(30), <1>1, <1>2 DEF AtMostOne
  <1> QED BY Zenon, <1>3, <1>4, <1>5 DEF t

\* What receiving a message does to the kinds in transit.
LEMMA TailKinds ==
  ASSUME NEW S, NEW s \in Seq(S), s # <<>>, NEW kind
  PROVE  /\ NoneOf(kind, s) => NoneOf(kind, Tail(s)) /\ Head(s).kind # kind
         /\ AtMostOne(kind, s) => AtMostOne(kind, Tail(s))
         /\ AtMostOne(kind, s) /\ Head(s).kind = kind => NoneOf(kind, Tail(s))
  <1> DEFINE t == Tail(s)
  <1>1. /\ Len(s) \in Nat \ {0} /\ Head(s) = s[1]
        /\ Len(t) = Len(s) - 1 /\ \A i \in 1..Len(t) : t[i] = s[i + 1]
    BY HeadTailProperties, LenProperties, EmptySeq
  <1> HIDE DEF t
  <1>2. \A i \in 1..Len(t) : i + 1 \in 1..Len(s) /\ i + 1 # 1
    BY <1>1
  <1>3. NoneOf(kind, s) => NoneOf(kind, t) /\ Head(s).kind # kind
    BY <1>1, <1>2 DEF NoneOf
  <1>4. AtMostOne(kind, s) => AtMostOne(kind, t)
    BY SMTT(30), <1>1, <1>2 DEF AtMostOne
  <1>5. AtMostOne(kind, s) /\ Head(s).kind = kind => NoneOf(kind, t)
    BY SMTT(30), <1>1, <1>2 DEF AtMostOne, NoneOf
  <1> QED BY Zenon, <1>3, <1>4, <1>5 DEF t

\* A subscription that is sent will be used; other messages do not change which.
LEMMA AppendUse ==
  ASSUME NEW s \in Seq(CoreMessages), NEW m \in CoreMessages, NEW f, NEW g
  PROVE  /\ m = SubscribeMsg(f) => WillUse(f, Append(s, m), g)
         /\ WillUse(f, s, g) /\ m.kind # "subscribe" => WillUse(f, Append(s, m), g)
  <1> DEFINE t == Append(s, m)
  <1>1. /\ Len(s) \in Nat /\ Len(t) = Len(s) + 1 /\ t[Len(s) + 1] = m
        /\ \A i \in 1..Len(s) : t[i] = s[i]
    BY AppendProperties, LenProperties
  <1>0. NoneOf("subscribe", s) /\ m.kind # "subscribe" => NoneOf("subscribe", t)
    BY Zenon, AppendKinds
  <1> HIDE DEF t
  <1>2. \A i \in 1..Len(t) : i = Len(s) + 1 \/ i \in 1..Len(s)
    BY <1>1
  <1>3. m = SubscribeMsg(f) => WillUse(f, t, g)
    BY <1>1, <1>2 DEF WillUse
  <1>4. ASSUME WillUse(f, s, g), m.kind # "subscribe"
        PROVE  WillUse(f, t, g)
    <2>1. ASSUME NEW k \in 1..Len(s), s[k] = SubscribeMsg(f),
                 \A j \in 1..Len(s) : j > k => s[j].kind # "subscribe"
          PROVE  WillUse(f, t, g)
      <3>1. k \in 1..Len(t) /\ t[k] = SubscribeMsg(f)
        BY <1>1, <2>1
      <3>2. \A j \in 1..Len(t) : j > k => t[j].kind # "subscribe"
        BY Zenon, <1>1, <1>2, <1>4, <2>1
      <3> QED BY Zenon, <3>1, <3>2 DEF WillUse
    <2> QED BY Zenon, <1>0, <1>4, <2>1 DEF WillUse
  <1> QED BY Zenon, <1>3, <1>4 DEF t

\* The core that handles a message will use the same subscription as before.
LEMMA TailUse ==
  ASSUME NEW s \in Seq(CoreMessages), s # <<>>, NEW f, NEW g, WillUse(f, s, g)
  PROVE  /\ Head(s).kind # "subscribe" => WillUse(f, Tail(s), g)
         /\ Head(s).kind = "subscribe" => WillUse(f, Tail(s), Head(s).filter)
  <1> DEFINE t == Tail(s)
  <1>1. /\ Len(s) \in Nat \ {0} /\ Head(s) = s[1]
        /\ Len(t) = Len(s) - 1 /\ \A i \in 1..Len(t) : t[i] = s[i + 1]
    BY HeadTailProperties, LenProperties, EmptySeq
  <1>0. NoneOf("subscribe", s) => NoneOf("subscribe", t) /\ Head(s).kind # "subscribe"
    BY Zenon, TailKinds
  <1> HIDE DEF t
  <1>2. ASSUME NEW k \in 1..Len(s), s[k] = SubscribeMsg(f),
               \A j \in 1..Len(s) : j > k => s[j].kind # "subscribe"
        PROVE  /\ Head(s).kind # "subscribe" => WillUse(f, t, g)
               /\ Head(s).kind = "subscribe" => WillUse(f, t, Head(s).filter)
    <2>1. CASE k = 1
      <3>1. Head(s) = SubscribeMsg(f)
        BY Zenon, <1>1, <1>2, <2>1
      <3>2. NoneOf("subscribe", t)
        BY <1>1, <1>2, <2>1 DEF NoneOf
      <3> QED BY <3>1, <3>2 DEF WillUse, SubscribeMsg
    <2>2. CASE k # 1
      <3>1. k - 1 \in 1..Len(t) /\ t[k - 1] = SubscribeMsg(f)
        BY <1>1, <1>2, <2>2
      <3>2. \A j \in 1..Len(t) : j > k - 1 => t[j].kind # "subscribe"
        BY SMTT(30), <1>1, <1>2, <2>2
      <3>3. \A h : WillUse(f, t, h)
        BY Zenon, <3>1, <3>2 DEF WillUse
      <3> QED BY Zenon, <3>3
    <2> QED BY Zenon, <2>1, <2>2
  <1> QED BY Zenon, <1>0, <1>2 DEF WillUse, t

\* What recv does to the messages to the client.
LEMMA SplitKinds ==
  ASSUME NEW S, NEW s \in Seq(S), NEW n \in 1..Len(s), NEW kind
  PROVE  /\ SubSeq(s, 1, n) \in Seq(S) /\ SubSeq(s, n + 1, Len(s)) \in Seq(S)
         /\ NoneOf(kind, s) => /\ NoneOf(kind, SubSeq(s, 1, n))
                               /\ NoneOf(kind, SubSeq(s, n + 1, Len(s)))
  <1>1. Len(s) \in Nat /\ \A i \in 1..Len(s) : s[i] \in S
    BY Zenon, LenProperties, ElementOfSeq
  <1> DEFINE t == SubSeq(s, 1, n)
             u == SubSeq(s, n + 1, Len(s))
  <1>2. t \in Seq(S) /\ Len(t) = n /\ \A i \in 1..n : t[i] = s[i]
    <2>1. \A i \in 1..n : s[i] \in S
      BY <1>1
    <2>2. /\ t \in Seq(S) /\ Len(t) = IF 1 <= n THEN n - 1 + 1 ELSE 0
          /\ \A i \in 1..n - 1 + 1 : t[i] = s[1 + i - 1]
      BY <2>1, SubSeqProperties
    <2> QED BY <2>2, <1>1
  <1>3. /\ u \in Seq(S) /\ Len(u) = Len(s) - n
        /\ \A i \in 1..Len(s) - n : u[i] = s[n + i]
    <2>1. \A i \in n + 1..Len(s) : s[i] \in S
      BY <1>1
    <2>2. /\ u \in Seq(S)
          /\ Len(u) = IF n + 1 <= Len(s) THEN Len(s) - (n + 1) + 1 ELSE 0
          /\ \A i \in 1..Len(s) - (n + 1) + 1 : u[i] = s[(n + 1) + i - 1]
      BY <2>1, <1>1, SubSeqProperties
    <2> QED BY SMTT(30), <2>2, <1>1
  <1> HIDE DEF t, u
  <1>4. NoneOf(kind, s) => NoneOf(kind, t)
    BY <1>1, <1>2 DEF NoneOf
  <1>5. \A i \in 1..Len(s) - n : n + i \in 1..Len(s)
    BY <1>1
  <1>6. NoneOf(kind, s) => NoneOf(kind, u)
    BY Zenon, <1>3, <1>5 DEF NoneOf
  <1> QED BY Zenon, <1>2, <1>3, <1>4, <1>6 DEF t, u

\* The kinds of the messages, and that they are messages.
LEMMA MessageFacts ==
  /\ RegisterMsg \in CoreMessages /\ RegisterMsg.kind = "register"
  /\ DataMsg \in CallMessages /\ DataMsg.kind = "data"
  /\ \A f \in Filters \cup {None} :
       /\ SubscribeMsg(f) \in CallMessages /\ SubscribeMsg(f).kind = "subscribe"
       /\ SubscribeMsg(f).filter = f
  /\ CallMessages \subseteq CoreMessages
  /\ \A m \in CallMessages : m.kind # "register"
  /\ \A m \in CoreMessages : m.filter \in Filters \cup {None}
  /\ ConfigMsg \in ClientMessages /\ ConfigMsg.kind = "config"
  /\ ErrorMsg("error") \in ClientMessages /\ ErrorMsg("error").kind = "error"
  /\ ErrorMsg("fatal") \in ClientMessages /\ ErrorMsg("fatal").kind = "error"
  <1>1. CallMessages \subseteq CoreMessages /\ RegisterMsg \in CoreMessages
    BY Zenon DEF CoreMessages
  <1>2. \A f \in Filters \cup {None} :
          /\ SubscribeMsg(f) \in CallMessages /\ SubscribeMsg(f).kind = "subscribe"
          /\ SubscribeMsg(f).filter = f
    BY Zenon DEF CallMessages, SubscribeMsg
  <1>3. DataMsg \in CallMessages /\ DataMsg.kind = "data" /\ DataMsg.filter = None
    BY Zenon DEF CallMessages, DataMsg
  <1>4. RegisterMsg.kind = "register" /\ RegisterMsg.filter = None
    BY Zenon DEF RegisterMsg
  <1>5. \A m \in CallMessages : m.kind # "register" /\ m.filter \in Filters \cup {None}
    BY <1>2, <1>3 DEF CallMessages
  <1>6. \A m \in CoreMessages : m.filter \in Filters \cup {None}
    BY Zenon, <1>4, <1>5 DEF CoreMessages
  <1>7. /\ ConfigMsg \in ClientMessages /\ ConfigMsg.kind = "config"
        /\ ErrorMsg("error") \in ClientMessages /\ ErrorMsg("error").kind = "error"
        /\ ErrorMsg("fatal") \in ClientMessages /\ ErrorMsg("fatal").kind = "error"
    BY Zenon DEF ConfigMsg, ErrorMsg, ClientMessages
  <1> QED BY Zenon, <1>1, <1>2, <1>3, <1>4, <1>5, <1>6, <1>7

\* Sending to the core.
LEMMA CoreAppend ==
  ASSUME NEW s \in Seq(CoreMessages), NEW m \in CoreMessages
  PROVE  /\ Append(s, m) \in Seq(CoreMessages)
         /\ NoneOf("register", s) => AtMostOne("register", Append(s, m))
         /\ m.kind # "register" =>
              /\ NoneOf("register", s) => NoneOf("register", Append(s, m))
              /\ AtMostOne("register", s) => AtMostOne("register", Append(s, m))
  BY Zenon, AppendProperties, AppendKinds

\* The core handles a message.
LEMMA CoreTail ==
  ASSUME NEW s \in Seq(CoreMessages), s # <<>>
  PROVE  /\ Tail(s) \in Seq(CoreMessages) /\ Head(s) \in CoreMessages
         /\ NoneOf("register", s) => NoneOf("register", Tail(s)) /\ Head(s).kind # "register"
         /\ AtMostOne("register", s) => AtMostOne("register", Tail(s))
         /\ AtMostOne("register", s) /\ Head(s).kind = "register"
              => NoneOf("register", Tail(s))
  BY Zenon, HeadTailProperties, TailKinds

\* The core sends to the client.
LEMMA ClientAppend ==
  ASSUME NEW s \in Seq(ClientMessages), NEW m \in ClientMessages
  PROVE  /\ Append(s, m) \in Seq(ClientMessages)
         /\ NoneOf("config", s) /\ m.kind # "config" => NoneOf("config", Append(s, m))
  BY Zenon, AppendProperties, AppendKinds

-----------------------------------------------------------------------------
(* The invariant                                                           *)

\* The initial state satisfies the inductive invariant.
LEMMA ClientInit == Init => ClientInv
  <1> SUFFICES ASSUME Init PROVE ClientInv
    BY Zenon
  <1>1. TypeOK
    <2>1. calls \in 0..MaxCalls /\ drops \in 0..MaxDrops /\ pushes \in 0..MaxPushes
      BY ClientAssumption DEF Init
    <2> QED BY Zenon, <2>1, MessageFacts, EmptySeq DEF Init, TypeOK
  <1>2. LinkInv /\ PhaseInv
    BY Zenon DEF Init, LinkInv, PhaseInv, Up
  <1>3. RegisterOnce /\ ConfirmInv /\ FilterInv
    BY Zenon, EmptyFacts DEF Init, RegisterOnce, ConfirmInv, FilterInv
  <1> QED BY Zenon, <1>1, <1>2, <1>3 DEF ClientInv

\* Every step keeps the variables in their domains.
LEMMA ClientTyped == TypeOK /\ [Next]_vars => TypeOK'
  <1> SUFFICES ASSUME TypeOK, [Next]_vars PROVE TypeOK'
    BY Zenon
  <1> USE DEF TypeOK
  <1>1. ASSUME NEW f \in Filters, Subscribe(f)
        PROVE  TypeOK'
    BY <1>1, ClientAssumption, MessageFacts DEF Subscribe, BeginSend
  <1>2. CASE Broadcast
    BY <1>2, ClientAssumption, MessageFacts DEF Broadcast, BeginSend
  <1>3. CASE Send
    <2>1. toCore' \in Seq(CoreMessages)
      BY ZenonT(30), <1>3, CoreAppend, MessageFacts DEF Send
    <2> QED BY <1>3, <2>1 DEF Send
  <1>4. CASE SendFailed
    BY <1>4 DEF SendFailed
  <1>5. CASE Connect
    BY Zenon, <1>5 DEF Connect
  <1>6. CASE SetSocket
    BY <1>6 DEF SetSocket
  <1>7. CASE SetConnected
    BY <1>7 DEF SetConnected
  <1>8. CASE SendRegistration
    <2>1. toCore' \in Seq(CoreMessages)
      BY Zenon, <1>8, CoreAppend, MessageFacts DEF SendRegistration, SendLocked
    <2> QED BY <1>8, <2>1 DEF SendRegistration, SendLocked
  <1>9. CASE Receive
    <2>1. PICK n \in 1..Len(toClient) :
            /\ framed' = SubSeq(toClient, 1, n)
            /\ toClient' = SubSeq(toClient, n + 1, Len(toClient))
      BY Zenon, <1>9 DEF Receive
    <2>2. framed' \in Seq(ClientMessages) /\ toClient' \in Seq(ClientMessages)
      BY Zenon, <2>1, SplitKinds
    <2> QED BY <1>9, <2>2 DEF Receive
  <1>10. CASE ReceiveEnds
    BY <1>10 DEF ReceiveEnds
  <1>11. CASE OnMessageReceived
    BY <1>11, HeadTailProperties DEF OnMessageReceived, OnError
  <1>12. CASE CheckConfirmed
    BY <1>12 DEF CheckConfirmed
  <1>13. CASE Confirm
    BY <1>13 DEF Confirm
  <1>14. CASE ReadFilter
    BY <1>14 DEF ReadFilter
  <1>15. CASE Resubscribe
    <2>1. filter' \in Filters \cup {None}
      BY Zenon, <1>15 DEF Resubscribe, Resubscribed
    <2>2. toCore' \in Seq(CoreMessages) /\ state' \in {state, "disconnected"}
      BY ZenonT(30), <1>15, <2>1, CoreAppend, MessageFacts DEF Resubscribe, SendLocked
    <2> QED BY Zenon, <1>15, <2>1, <2>2 DEF Resubscribe
  <1>16. CASE Close
    BY Zenon, <1>16, EmptySeq DEF Close
  <1>17. CASE ClearSocket
    <2>1. socket' \in BOOLEAN
      BY Zenon, <1>17 DEF ClearSocket
    <2>2. rpc' \in {"top"}
      BY Zenon, <1>17 DEF ClearSocket
    <2> QED BY <1>17, <2>1, <2>2 DEF ClearSocket
  <1>18. CASE HandleRegistration
    <2>1. toCore' \in Seq(CoreMessages) /\ Head(toCore) \in CoreMessages
      BY Zenon, <1>18, CoreTail DEF HandleRegistration, Handling
    <2>2. toClient' \in Seq(ClientMessages)
      BY ZenonT(30), <1>18, ClientAppend, MessageFacts DEF HandleRegistration, Reply
    <2>3. coreFilter' \in Filters \cup {None}
      BY Zenon, <1>18, <2>1, MessageFacts DEF HandleRegistration
    <2> QED BY <1>18, <2>1, <2>2, <2>3 DEF HandleRegistration
  <1>19. CASE HandleSubscribe
    <2>1. toCore' \in Seq(CoreMessages) /\ Head(toCore) \in CoreMessages
      BY Zenon, <1>19, CoreTail DEF HandleSubscribe, Handling
    <2>2. toClient' \in Seq(ClientMessages)
      BY ZenonT(30), <1>19, ClientAppend, MessageFacts DEF HandleSubscribe, Reply
    <2>3. coreFilter' \in Filters \cup {None}
      BY Zenon, <1>19, <2>1, MessageFacts DEF HandleSubscribe
    <2> QED BY <1>19, <2>1, <2>2, <2>3 DEF HandleSubscribe
  <1>20. CASE HandleData
    <2>1. toCore' \in Seq(CoreMessages) /\ Head(toCore) \in CoreMessages
      BY Zenon, <1>20, CoreTail DEF HandleData, Handling
    <2>2. toClient' \in Seq(ClientMessages)
      <3>1. CASE UNCHANGED toClient
        BY Zenon, <3>1
      <3>2. CASE toClient' = Append(toClient, ErrorMsg("error"))
        BY Zenon, <3>2, ClientAppend, MessageFacts
      <3> QED
        BY Zenon, <1>20, <3>1, <3>2 DEF HandleData, Reply
    <2>3. coreFilter' \in Filters \cup {None}
      BY Zenon, <1>20, <2>1, MessageFacts DEF HandleData
    <2> QED BY <1>20, <2>1, <2>2, <2>3 DEF HandleData
  <1>21. CASE PushConfig
    BY <1>21, ClientAppend, ClientAssumption, MessageFacts DEF PushConfig, Reply
  <1>22. CASE Drop
    <2>1. toCore' \in Seq(CoreMessages) /\ toClient' \in Seq(ClientMessages)
      BY Zenon, <1>22, EmptySeq DEF Drop
    <2>2. drops' \in 0..MaxDrops
      BY <1>22, ClientAssumption DEF Drop
    <2> QED BY <1>22, <2>1, <2>2 DEF Drop
  <1>23. CASE UNCHANGED vars
    BY <1>23 DEF vars
  <1> QED BY ZenonT(30), <1>1, <1>2, <1>3, <1>4, <1>5, <1>6, <1>7, <1>8, <1>9, <1>10,
     <1>11, <1>12, <1>13, <1>14, <1>15, <1>16, <1>17, <1>18, <1>19, <1>20, <1>21,
     <1>22, <1>23 DEF Next, ReceiveThread, Application, Core

\* Every step keeps the inductive invariant.
LEMMA ClientStep == ClientInv /\ [Next]_vars => ClientInv'
  <1> SUFFICES ASSUME ClientInv, [Next]_vars PROVE ClientInv'
    OBVIOUS
  <1>0. TypeOK /\ TypeOK'
    BY Zenon, ClientTyped DEF ClientInv
  <1> DEFINE Rest == LinkInv /\ PhaseInv /\ RegisterOnce /\ ConfirmInv /\ FilterInv
  <1> USE DEF LinkInv, PhaseInv, RegisterOnce, ConfirmInv, FilterInv, Up, Registered
  <1>r. Rest
    BY Zenon DEF ClientInv
  <1>1. ASSUME NEW f \in Filters, Subscribe(f)
        PROVE  Rest'
    BY <1>1, <1>0, <1>r, MessageFacts DEF Subscribe, BeginSend, TypeOK
  <1>2. ASSUME Broadcast
        PROVE  Rest'
    BY Zenon, <1>2, <1>0, <1>r, MessageFacts DEF Broadcast, BeginSend, TypeOK
  <1>3. ASSUME Send
        PROVE  Rest'
    <2>1. CASE socket /\ link = "up" /\ toCore' = Append(toCore, outgoing) /\ call' = "idle"
      <3>1. outgoing.kind # "register"
        BY Zenon, <1>0, MessageFacts DEF TypeOK
      <3> QED BY Zenon, <1>3, <2>1, <3>1, <1>0, <1>r, CoreAppend, AppendUse, MessageFacts
                 DEF Send, TypeOK
    <2>2. CASE call' = "idle" /\ link = "down" /\ toCore' = toCore
      BY Zenon, <1>3, <2>2, <1>0, <1>r DEF Send
    <2>3. CASE (~socket \/ link # "up") /\ call' = "failed" /\ toCore' = toCore
      BY Zenon, <1>3, <2>3, <1>0, <1>r DEF Send, TypeOK
    <2> QED BY Zenon, <1>3, <2>1, <2>2, <2>3 DEF Send
  <1>4. ASSUME SendFailed
        PROVE  Rest'
    BY Zenon, <1>4, <1>0, <1>r, EmptyFacts DEF SendFailed, TypeOK
  <1>5. ASSUME Connect
        PROVE  Rest'
    BY Zenon, <1>5, <1>0, <1>r, EmptyFacts DEF Connect, TypeOK
  <1>6. ASSUME SetSocket
        PROVE  Rest'
    BY Zenon, <1>6, <1>0, <1>r, EmptyFacts DEF SetSocket, TypeOK
  <1>7. ASSUME SetConnected
        PROVE  Rest'
    <2>1. LinkInv' /\ PhaseInv'
      BY Zenon, <1>7, <1>0, <1>r DEF SetConnected, TypeOK
    <2>2. RegisterOnce' /\ ConfirmInv' /\ FilterInv'
      BY Zenon, <1>7, <1>0, <1>r DEF SetConnected, TypeOK
    <2> QED BY Zenon, <2>1, <2>2
  <1>8. ASSUME SendRegistration
        PROVE  Rest'
    <2>0. call = "idle" /\ call' = "idle" /\ rpc = "registering" /\ rpc' = "receiving"
      BY Zenon, <1>8 DEF SendRegistration, SendLocked
    <2>1. CASE Up /\ link = "up" /\ toCore' = Append(toCore, RegisterMsg) /\ state' = state
      <3>1. AtMostOne("register", toCore')
        BY Zenon, <1>8, <2>1, <1>0, <1>r, CoreAppend, MessageFacts DEF SendRegistration, TypeOK
      <3>2. session' = "connected" /\ state' # "registered" /\ rpc' = "receiving"
        BY Zenon, <1>8, <2>1, <1>r DEF SendRegistration
      <3> QED BY Zenon, <1>8, <2>0, <2>1, <3>1, <3>2, <1>r DEF SendRegistration
    <2>2. CASE link = "down" /\ state' \in {state, "disconnected"} /\ toCore' = toCore
      BY Zenon, <1>8, <2>0, <2>2, <1>r DEF SendRegistration
    <2>3. CASE ~Up /\ UNCHANGED <<state, toCore>>
      <3>1. LinkInv' /\ PhaseInv'
        BY Zenon, <1>8, <2>0, <2>3, <1>r DEF SendRegistration
      <3>2. RegisterOnce' /\ ConfirmInv' /\ FilterInv'
        BY Zenon, <1>8, <2>0, <2>3, <1>r DEF SendRegistration
      <3> QED BY <3>1, <3>2
    <2> QED BY Zenon, <1>8, <2>1, <2>2, <2>3 DEF SendRegistration, SendLocked
  <1>9. ASSUME Receive
        PROVE  Rest'
    <2>1. PICK n \in 1..Len(toClient) :
            /\ framed' = SubSeq(toClient, 1, n)
            /\ toClient' = SubSeq(toClient, n + 1, Len(toClient))
      BY Zenon, <1>9 DEF Receive
    <2>2. NoneOf("config", toClient)
            => NoneOf("config", framed') /\ NoneOf("config", toClient')
      BY Zenon, <2>1, <1>0, SplitKinds DEF TypeOK
    <2>3. link # "closed"
      BY Zenon, <1>9, <1>r DEF Receive
    <2> QED BY Zenon, <1>9, <2>2, <2>3, <1>0, <1>r DEF Receive
  <1>10. ASSUME ReceiveEnds
        PROVE  Rest'
    BY Zenon, <1>10, <1>0, <1>r DEF ReceiveEnds
  <1>11. ASSUME OnMessageReceived
        PROVE  Rest'
    <2>1. NoneOf("config", framed)
            => NoneOf("config", framed') /\ Head(framed).kind # "config"
      BY Zenon, <1>11, <1>0, TailKinds DEF OnMessageReceived, TypeOK
    <2>2. state' \in {state, "error"}
      BY Zenon, <1>11 DEF OnMessageReceived, OnError
    <2>3. rpc' = "configured" => Head(framed).kind = "config"
      BY Zenon, <1>11 DEF OnMessageReceived, IsConfigMsg
    <2>4. rpc = "receiving" /\ rpc' \in {"receiving", "configured"}
      BY Zenon, <1>11 DEF OnMessageReceived
    <2> QED BY Zenon, <1>11, <2>1, <2>2, <2>3, <2>4, <1>0, <1>r DEF OnMessageReceived
  <1>12. ASSUME CheckConfirmed
        PROVE  Rest'
    BY Zenon, <1>12, <1>0, <1>r DEF CheckConfirmed
  <1>13. ASSUME Confirm
        PROVE  Rest'
    BY Zenon, <1>13, <1>0, <1>r DEF Confirm
  <1>14. ASSUME ReadFilter
        PROVE  Rest'
    BY Zenon, <1>14, <1>0, <1>r DEF ReadFilter
  <1>15. ASSUME Resubscribe
        PROVE  Rest'
    <2>1. filter' \in Filters \cup {None}
      BY Zenon, <1>0 DEF TypeOK
    <2>2. SubscribeMsg(filter') \in CoreMessages /\ SubscribeMsg(filter').kind = "subscribe"
      BY Zenon, <2>1, MessageFacts
    <2>3. CASE Up /\ link = "up" /\ toCore' = Append(toCore, SubscribeMsg(filter')) /\ state' = state
      <3>1. /\ AtMostOne("register", toCore) => AtMostOne("register", toCore')
            /\ NoneOf("register", toCore) => NoneOf("register", toCore')
        BY Zenon, <2>2, <2>3, <1>0, CoreAppend DEF TypeOK
      <3>2. WillUse(filter', toCore', coreFilter)
        BY Zenon, <2>2, <2>3, <1>0, AppendUse DEF TypeOK
      <3> QED BY Zenon, <1>15, <2>3, <3>1, <3>2, <1>0, <1>r DEF Resubscribe, SendLocked
    <2>4. CASE link = "down" /\ state' \in {state, "disconnected"} /\ toCore' = toCore
      BY Zenon, <1>15, <2>4, <1>0, <1>r DEF Resubscribe, SendLocked
    <2>5. CASE ~Up /\ UNCHANGED <<state, toCore>>
      BY Zenon, <1>15, <2>5, <1>0, <1>r DEF Resubscribe, SendLocked
    <2> QED BY Zenon, <1>15, <2>3, <2>4, <2>5 DEF Resubscribe, SendLocked
  <1>16. ASSUME Close
        PROVE  Rest'
    BY Zenon, <1>16, <1>0, <1>r, EmptyFacts DEF Close
  <1>17. ASSUME ClearSocket
        PROVE  Rest'
    BY Zenon, <1>17, <1>0, <1>r DEF ClearSocket
  <1>18. ASSUME HandleRegistration
        PROVE  Rest'
    <2>1. /\ AtMostOne("register", toCore') /\ NoneOf("register", toCore')
          /\ \A f, g : WillUse(f, toCore, g) => WillUse(f, toCore', g)
      BY Zenon, <1>18, <1>0, <1>r, CoreTail, TailUse DEF HandleRegistration, Handling, TypeOK
    <2>2. session = "connected" /\ ~NoneOf("register", toCore)
      BY Zenon, <1>18, <1>0, <1>r, CoreTail DEF HandleRegistration, Handling, TypeOK
    <2>3. rpc \notin {"opened", "announcing", "registering"}
      BY Zenon, <1>18, <2>2, <1>r DEF HandleRegistration, Handling
    <2>4. NoneOf("config", toClient) /\ session' = "refused" => NoneOf("config", toClient')
      BY Zenon, <1>18, <1>0, ClientAppend, MessageFacts DEF HandleRegistration, Reply, TypeOK
    <2> QED BY Zenon, <1>18, <2>1, <2>2, <2>3, <2>4, <1>0, <1>r DEF HandleRegistration, Handling
  <1>19. ASSUME HandleSubscribe
        PROVE  Rest'
    <2>1. /\ AtMostOne("register", toCore')
          /\ NoneOf("register", toCore) => NoneOf("register", toCore')
      BY Zenon, <1>19, <1>0, <1>r, CoreTail DEF HandleSubscribe, Handling, TypeOK
    <2>2. Registered => \A f : WillUse(f, toCore, coreFilter) => WillUse(f, toCore', coreFilter')
      BY Zenon, <1>19, <1>0, TailUse DEF HandleSubscribe, Handling, TypeOK
    <2>3. NoneOf("config", toClient) => NoneOf("config", toClient')
      BY Zenon, <1>19, <1>0, ClientAppend, MessageFacts DEF HandleSubscribe, Reply, TypeOK
    <2> QED BY Zenon, <1>19, <2>1, <2>2, <2>3, <1>0, <1>r DEF HandleSubscribe, Handling
  <1>20. ASSUME HandleData
        PROVE  Rest'
    <2>1. /\ AtMostOne("register", toCore')
          /\ NoneOf("register", toCore) => NoneOf("register", toCore')
      BY Zenon, <1>20, <1>0, <1>r, CoreTail DEF HandleData, Handling, TypeOK
    <2>2. Registered => \A f : WillUse(f, toCore, coreFilter) => WillUse(f, toCore', coreFilter')
      BY Zenon, <1>20, <1>0, TailUse DEF HandleData, Handling, TypeOK
    <2>3. NoneOf("config", toClient) => NoneOf("config", toClient')
      BY Zenon, <1>20, <1>0, ClientAppend, MessageFacts DEF HandleData, Reply, TypeOK
    <2> QED BY Zenon, <1>20, <2>1, <2>2, <2>3, <1>0, <1>r DEF HandleData, Handling
  <1>21. ASSUME PushConfig
        PROVE  Rest'
    BY Zenon, <1>21, <1>0, <1>r DEF PushConfig, Reply
  <1>22. ASSUME Drop
        PROVE  Rest'
    BY Zenon, <1>22, <1>0, <1>r, EmptyFacts DEF Drop
  <1>23. ASSUME UNCHANGED vars
        PROVE  Rest'
    BY Zenon, <1>23, <1>0, <1>r DEF vars
  <1> HIDE DEF Rest
  <1>q. Rest'
    BY Zenon, <1>1, <1>2, <1>3, <1>4, <1>5, <1>6, <1>7, <1>8, <1>9, <1>10, <1>11,
       <1>12, <1>13, <1>14, <1>15, <1>16, <1>17, <1>18, <1>19, <1>20, <1>21, <1>22,
       <1>23 DEF Next, ReceiveThread, Application, Core
  <1> QED BY Zenon, <1>0, <1>q DEF Rest, ClientInv

\* The client and its connection keep the inductive invariant.
THEOREM ClientCorrect == Spec => []ClientInv
  BY ClientInit, ClientStep, PTL DEF Spec

\* A client in state registered is registered with the core.
THEOREM RegistrationIsAgreed == Spec => []RegistrationAgreed
  <1>1. ClientInv => RegistrationAgreed
    BY Zenon DEF ClientInv, ConfirmInv, RegistrationAgreed
  <1> QED BY <1>1, ClientCorrect, PTL

\* The core uses the filter of a registered client once nothing is in transit.
THEOREM SubscriptionIsAgreed == Spec => []SubscriptionAgreed
  <1>1. ClientInv => SubscriptionAgreed
    BY Zenon, EmptyFacts DEF ClientInv, FilterInv, SubscriptionAgreed
  <1> QED BY <1>1, ClientCorrect, PTL

\* The variables of the client and its connection keep their types.
THEOREM ClientTypes == Spec => []TypeOK
  <1>1. ClientInv => TypeOK
    BY Zenon DEF ClientInv
  <1> QED BY <1>1, ClientCorrect, PTL
==============================================================================
