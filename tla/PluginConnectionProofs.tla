----------------------- MODULE PluginConnectionProofs -----------------------
(***************************************************************************)
(* Proofs that a plugin connection keeps ConnectionInv, and with it that no *)
(* wakeup is lost, that each message is destroyed exactly once, and that   *)
(* each queue keeps its order, for every capacity and number of messages.  *)
(***************************************************************************)
EXTENDS PluginConnection, SequenceTheorems, TLAPS

USE DEF queueVars, threadVars, Processors

-----------------------------------------------------------------------------
(* What the operations on a queue do to its elements and its order         *)

\* pop_front takes the head and leaves the other elements, in order.
LEMMA TailFacts ==
  ASSUME NEW s \in Seq(Ids), s # <<>>
  PROVE  /\ Head(s) \in Elements(s)
         /\ Tail(s) \in Seq(Ids)
         /\ Len(Tail(s)) = Len(s) - 1
         /\ Elements(s) = {Head(s)} \cup Elements(Tail(s))
         /\ Increasing(s) => /\ Increasing(Tail(s))
                             /\ \A i \in Elements(Tail(s)) : Head(s) < i
  <1>1. /\ Len(s) \in Nat /\ Len(s) > 0 /\ Head(s) = s[1] /\ Tail(s) \in Seq(Ids)
        /\ Len(Tail(s)) = Len(s) - 1
        /\ \A j \in 1..Len(Tail(s)) : Tail(s)[j] = s[j + 1]
    OBVIOUS
  <1>2. \A j \in 2..Len(s) : j - 1 \in 1..Len(Tail(s)) /\ s[j] = Tail(s)[j - 1]
    BY <1>1
  <1>3. Elements(s) = {Head(s)} \cup Elements(Tail(s))
    <2>1. Elements(s) \subseteq {Head(s)} \cup Elements(Tail(s))
      BY <1>1, <1>2 DEF Elements
    <2>2. Elements(Tail(s)) \subseteq Elements(s)
      BY <1>1 DEF Elements
    <2>3. Head(s) \in Elements(s)
      BY <1>1 DEF Elements
    <2> QED BY Zenon, <2>1, <2>2, <2>3
  <1>4. ASSUME Increasing(s)
        PROVE  Increasing(Tail(s)) /\ \A i \in Elements(Tail(s)) : Head(s) < i
    BY <1>1, <1>4 DEF Increasing, Elements
  <1> QED BY Zenon, <1>1, <1>3, <1>4

\* push_back adds a larger element at the end.
LEMMA AppendFacts ==
  ASSUME NEW s \in Seq(Ids), NEW i \in Ids
  PROVE  /\ Append(s, i) \in Seq(Ids)
         /\ Append(s, i) # <<>>
         /\ Len(Append(s, i)) = Len(s) + 1
         /\ Elements(Append(s, i)) = Elements(s) \cup {i}
         /\ Increasing(s) /\ (\A j \in Elements(s) : j < i) => Increasing(Append(s, i))
  <1>1. /\ Len(s) \in Nat /\ Append(s, i) \in Seq(Ids) /\ Append(s, i) # <<>>
        /\ Len(Append(s, i)) = Len(s) + 1
        /\ Append(s, i)[Len(s) + 1] = i
        /\ \A j \in 1..Len(s) : Append(s, i)[j] = s[j]
    OBVIOUS
  <1>2. Elements(Append(s, i)) = Elements(s) \cup {i}
    <2>1. 1..(Len(s) + 1) = 1..Len(s) \cup {Len(s) + 1}
      BY <1>1
    <2> QED BY <1>1, <2>1 DEF Elements
  <1>3. ASSUME Increasing(s), \A j \in Elements(s) : j < i
        PROVE  Increasing(Append(s, i))
    BY <1>1, <1>3 DEF Increasing, Elements
  <1> QED BY Zenon, <1>1, <1>2, <1>3

\* The elements of a queue are message numbers.
LEMMA ElementsTyped ==
  ASSUME NEW s \in Seq(Ids)
  PROVE  Elements(s) \subseteq Ids /\ (s = <<>> => Elements(s) = {})
  BY DEF Elements

\* The message a full queue loses to a push.
Dropped(s) == IF Len(s) = Capacity THEN {Head(s)} ELSE {}

\* A push keeps the order and the capacity, and loses only the oldest message.
LEMMA PushFacts ==
  ASSUME NEW s \in Seq(Ids), NEW i \in Ids, Len(s) <= Capacity,
         Increasing(s), \A j \in Elements(s) : j < i
  PROVE  /\ Push(s, i) \in Seq(Ids)
         /\ Push(s, i) # <<>>
         /\ Len(Push(s, i)) <= Capacity
         /\ Dropped(s) \subseteq Elements(s)
         /\ Elements(Push(s, i)) = (Elements(s) \ Dropped(s)) \cup {i}
         /\ Increasing(Push(s, i))
  <1> USE ConnectionAssumption DEF Push, Dropped
  <1>1. CASE Len(s) = Capacity
    <2>1. s # <<>>
      BY Zenon, <1>1
    <2>2. /\ Tail(s) \in Seq(Ids) /\ Len(Tail(s)) = Len(s) - 1
          /\ Increasing(Tail(s)) /\ \A j \in Elements(Tail(s)) : Head(s) < j
          /\ Elements(s) = {Head(s)} \cup Elements(Tail(s))
      BY Zenon, <2>1, TailFacts
    <2>3. Head(s) \in Ids /\ Head(s) \notin Elements(Tail(s))
      BY <2>1, <2>2 DEF Ids
    <2>4. Elements(Tail(s)) = Elements(s) \ {Head(s)}
      BY Zenon, <2>2, <2>3
    <2>5. /\ Append(Tail(s), i) \in Seq(Ids)
          /\ Append(Tail(s), i) # <<>>
          /\ Len(Append(Tail(s), i)) = Len(Tail(s)) + 1
          /\ Elements(Append(Tail(s), i)) = Elements(Tail(s)) \cup {i}
          /\ Increasing(Append(Tail(s), i))
      BY Zenon, <2>2, AppendFacts
    <2>6. Push(s, i) = Append(Tail(s), i) /\ Dropped(s) = {Head(s)}
      BY Zenon, <1>1
    <2>7. Len(Push(s, i)) <= Capacity
      BY <1>1, <2>2, <2>5, <2>6
    <2> HIDE DEF Push, Dropped
    <2> QED BY Zenon, <2>2, <2>4, <2>5, <2>6, <2>7
  <1>2. CASE Len(s) # Capacity
    BY <1>2, AppendFacts
  <1> QED BY Zenon, <1>1, <1>2

-----------------------------------------------------------------------------
(* The initial state                                                       *)

\* The initial state satisfies the inductive invariant.
LEMMA ConnectionInit == Init => ConnectionInv
  <1> SUFFICES ASSUME Init PROVE ConnectionInv
    BY Zenon
  <1> USE ConnectionAssumption
  <1>1. TypeOK
    <2>1. queue \in [Processors -> Seq(Ids)] /\ \A p \in Processors : Len(queue[p]) <= Capacity
      BY DEF Init
    <2>2. received \in 0..MaxMessages /\ last \in [Processors -> 0..MaxMessages]
      BY DEF Init
    <2> QED BY Zenon, <2>1, <2>2 DEF Init, TypeOK, ReceiverPCs
  <1>2. \A p \in Processors : Elements(queue[p]) = {} /\ Increasing(queue[p])
    BY DEF Init, Elements, Increasing
  <1>3. WakeInv /\ JoinInv
    BY Zenon DEF Init, WakeInv, JoinInv
  <1>4. OwnInv
    BY <1>2 DEF Init, OwnInv, Ids
  <1>5. InOrder
    BY Zenon, <1>2 DEF InOrder
  <1>6. DestroyedOnce
    <2>1. \A i \in Ids : ~(i <= received)
      BY DEF Init, Ids
    <2> QED BY Zenon, <2>1 DEF DestroyedOnce, Init
  <1> QED BY Zenon, <1>1, <1>3, <1>4, <1>5, <1>6 DEF ConnectionInv

-----------------------------------------------------------------------------
(* Receiving a message                                                     *)

\* What Receive does to the queue it pushes on and to the other one.
LEMMA ReceiveQueues ==
  ASSUME ConnectionInv, NEW k \in Kinds, Receive(k)
  PROVE  LET p == ProcessorOf(k)
             i == received + 1
         IN /\ p \in Processors /\ i \in Ids
            /\ queue' \in [Processors -> Seq(Ids)]
            /\ queue'[p] # <<>> /\ Len(queue'[p]) <= Capacity
            /\ Increasing(queue'[p])
            /\ Dropped(queue[p]) \subseteq Elements(queue[p])
            /\ Elements(queue'[p]) = (Elements(queue[p]) \ Dropped(queue[p])) \cup {i}
            /\ \A q \in Processors \ {p} : queue'[q] = queue[q]
  <1> DEFINE p == ProcessorOf(k)
             i == received + 1
  <1>1. p \in Processors /\ i \in Ids /\ received \in Nat
    BY ConnectionAssumption DEF Receive, ProcessorOf, ConnectionInv, TypeOK, Ids
  <1>2. queue \in [Processors -> Seq(Ids)] /\ queue[p] \in Seq(Ids) /\ Len(queue[p]) <= Capacity
    BY Zenon, <1>1 DEF ConnectionInv, TypeOK
  <1>3. Increasing(queue[p])
    BY Zenon, <1>1 DEF ConnectionInv, InOrder
  <1>4. \A j \in Elements(queue[p]) : j < i
    BY <1>1, <1>2, ElementsTyped DEF ConnectionInv, InOrder, Ids
  <1>5. queue' = [queue EXCEPT ![p] = Push(queue[p], i)]
    BY Zenon DEF Receive
  <1>6. queue'[p] = Push(queue[p], i)
    BY Zenon, <1>1, <1>2, <1>5
  <1> HIDE DEF p, i
  <1>7. /\ Push(queue[p], i) \in Seq(Ids)
        /\ Push(queue[p], i) # <<>>
        /\ Len(Push(queue[p], i)) <= Capacity
        /\ Dropped(queue[p]) \subseteq Elements(queue[p])
        /\ Elements(Push(queue[p], i)) = (Elements(queue[p]) \ Dropped(queue[p])) \cup {i}
        /\ Increasing(Push(queue[p], i))
    BY Zenon, <1>1, <1>2, <1>3, <1>4, PushFacts
  <1>8. queue' \in [Processors -> Seq(Ids)] /\ \A q \in Processors \ {p} : queue'[q] = queue[q]
    BY Zenon, <1>2, <1>5, <1>7
  <1> QED BY Zenon, <1>1, <1>6, <1>7, <1>8 DEF p, i

\* Each held message has one holder: the queues and the handled messages are
\* pairwise disjoint.
LEMMA OneHolder ==
  ASSUME ConnectionInv, NEW p \in Processors, NEW q \in Processors, NEW i \in Ids
  PROVE  /\ i \in Elements(queue[p]) => msg[p] # i
         /\ p # q /\ (i \in Elements(queue[p]) \/ msg[p] = i)
              => i \notin Elements(queue[q]) /\ msg[q] # i
         /\ i \in Elements(queue[p]) \/ msg[p] = i => i <= received /\ destroyed[i] = 0
  <1>1. ASSUME i \in Elements(queue[p]) PROVE msg[p] # i
    <2>1. last[p] < i /\ last[p] \in 0..MaxMessages
      BY Zenon, <1>1 DEF ConnectionInv, InOrder, TypeOK
    <2>2. msg[p] = None \/ msg[p] = last[p]
      BY Zenon DEF ConnectionInv, OwnInv
    <2> QED BY <2>1, <2>2, ConnectionAssumption DEF Ids
  <1>2. ASSUME p # q, i \in Elements(queue[p]) \/ msg[p] = i
        PROVE  i \notin Elements(queue[q]) /\ msg[q] # i
    <2>1. ProcessorOf(kind[i]) = p
      BY Zenon, <1>2 DEF ConnectionInv, OwnInv
    <2> QED BY Zenon, <1>2, <2>1 DEF ConnectionInv, OwnInv
  <1>3. ASSUME i \in Elements(queue[p]) \/ msg[p] = i
        PROVE  i <= received /\ destroyed[i] = 0
    <2>1. destroyed[i] = 0
      BY Zenon, <1>3 DEF ConnectionInv, DestroyedOnce, Held
    <2>2. i <= received
      <3>1. CASE i \in Elements(queue[p])
        BY Zenon, <3>1 DEF ConnectionInv, InOrder
      <3>2. CASE msg[p] = i
        <4>1. i # None
          BY ConnectionAssumption DEF Ids
        <4>2. msg[p] = last[p] /\ last[p] <= received
          BY Zenon, <3>2, <4>1 DEF ConnectionInv, OwnInv
        <4> QED BY Zenon, <3>2, <4>2
      <3> QED BY Zenon, <1>3, <3>1, <3>2
    <2> QED BY Zenon, <2>1, <2>2
  <1> QED BY Zenon, <1>1, <1>2, <1>3

\* Receive keeps the inductive invariant.
LEMMA ReceiveStep ==
  ASSUME ConnectionInv, NEW k \in Kinds, Receive(k)
  PROVE  ConnectionInv'
  <1> DEFINE p == ProcessorOf(k)
             i == received + 1
             D == Dropped(queue[p])
  <1>1. /\ p \in Processors /\ i \in Ids
        /\ queue' \in [Processors -> Seq(Ids)]
        /\ queue'[p] # <<>> /\ Len(queue'[p]) <= Capacity
        /\ Increasing(queue'[p])
        /\ D \subseteq Elements(queue[p])
        /\ Elements(queue'[p]) = (Elements(queue[p]) \ D) \cup {i}
        /\ \A q \in Processors \ {p} : queue'[q] = queue[q]
    BY Zenon, ReceiveQueues
  <1>2. /\ receiver = "reading" /\ receiver' = SignalStage(p)
        /\ received < MaxMessages /\ received' = i
        /\ kind' = [kind EXCEPT ![i] = k]
        /\ destroyed' = [j \in Ids |-> IF j \in D THEN destroyed[j] + 1 ELSE destroyed[j]]
        /\ UNCHANGED <<flag, interrupted, threadVars, crashed>>
    BY Zenon DEF Receive, DestroyAll, Dropped
  <1>4. received \in Nat /\ i = received + 1 /\ ProcessorOf(k) = p
    BY DEF ConnectionInv, TypeOK
  <1> HIDE DEF p, i, D
  <1>5. \A q \in Processors : Elements(queue[q]) \subseteq Ids /\ Elements(queue'[q]) \subseteq Ids
    BY Zenon, <1>1, ElementsTyped DEF ConnectionInv, TypeOK
  <1>6. \A j \in Ids, q \in Processors : j \in Elements(queue[q]) \/ msg[q] = j => j # i
    BY <1>4, <1>1, OneHolder DEF Ids
  <1>7. TypeOK'
    <2>1. receiver' \in ReceiverPCs
      BY Zenon, <1>1, <1>2 DEF SignalStage, ReceiverPCs
    <2>2. kind' \in [Ids -> Kinds \cup {None}] /\ received' \in 0..MaxMessages
      BY <1>1, <1>2, <1>4, ConnectionAssumption DEF ConnectionInv, TypeOK
    <2>3. \A q \in Processors : Len(queue'[q]) <= Capacity
      BY Zenon, <1>1 DEF ConnectionInv, TypeOK
    <2>4. destroyed' \in [Ids -> Nat]
      BY <1>2 DEF ConnectionInv, TypeOK
    <2> QED BY Zenon, <1>1, <1>2, <2>1, <2>2, <2>3, <2>4 DEF ConnectionInv, TypeOK
  <1>8. WakeInv' /\ JoinInv'
    BY Zenon, <1>1, <1>2 DEF ConnectionInv, WakeInv, JoinInv, WakePending, SignalStage
  <1>9. OwnInv'
    <2> SUFFICES ASSUME NEW q \in Processors
                 PROVE  /\ last[q] <= i
                        /\ pc[q] = "handling" => msg[q] = last[q] /\ msg[q] \in Ids
                        /\ pc[q] # "handling" => msg[q] = None
                        /\ \A j \in Ids : j \in Elements(queue'[q]) \/ msg[q] = j
                             => kind'[j] # None /\ ProcessorOf(kind'[j]) = q
      BY ZenonT(30), <1>2 DEF OwnInv
    <2>1. last[q] <= i
      BY <1>4 DEF ConnectionInv, OwnInv, TypeOK
    <2>2. kind'[i] = k /\ \A j \in Ids \ {i} : kind'[j] = kind[j]
      BY Zenon, <1>1, <1>2 DEF ConnectionInv, TypeOK
    <2>3. ASSUME NEW j \in Ids, j \in Elements(queue'[q]) \/ msg[q] = j
          PROVE  kind'[j] # None /\ ProcessorOf(kind'[j]) = q
      <3>1. CASE j = i
        <4>1. msg[q] # i /\ i \notin Elements(queue[q])
          BY Zenon, <1>1, <1>6
        <4>2. q = p
          BY Zenon, <1>1, <2>3, <3>1, <4>1
        <4> QED BY Zenon, <1>4, <2>2, <3>1, <4>2, ConnectionAssumption
      <3>2. CASE j # i
        BY <1>1, <2>2, <2>3, <3>2 DEF ConnectionInv, OwnInv
      <3> QED BY Zenon, <3>1, <3>2
    <2> QED BY Zenon, <2>1, <2>3 DEF ConnectionInv, OwnInv
  <1>10. InOrder'
    <2> SUFFICES ASSUME NEW q \in Processors
                 PROVE  /\ \A j \in Elements(queue'[q]) : last[q] < j /\ j <= i
                        /\ Increasing(queue'[q])
      BY Zenon, <1>2 DEF InOrder
    <2>1. last[q] < i
      BY <1>4 DEF ConnectionInv, OwnInv, TypeOK
    <2>2. \A j \in Elements(queue[q]) : last[q] < j /\ j <= i
      BY <1>4, <1>5 DEF ConnectionInv, InOrder, Ids
    <2> QED BY SMTT(30), <1>1, <1>4, <2>1, <2>2 DEF ConnectionInv, InOrder
  <1>11. DestroyedOnce'
    <2> SUFFICES ASSUME NEW j \in Ids
                 PROVE  destroyed'[j] = IF j <= i /\ ~Held(j)' THEN 1 ELSE 0
      BY Zenon, <1>2 DEF DestroyedOnce
    <2>1. Held(j)' <=> \E q \in Processors : j \in Elements(queue'[q]) \/ msg[q] = j
      BY Zenon, <1>2 DEF Held
    <2>2. CASE j = i
      <3>1. Held(j)' /\ j \notin D
        BY Zenon, <1>1, <1>6, <2>1, <2>2
      <3>2. destroyed[j] = 0
        BY <1>4, <2>2 DEF ConnectionInv, DestroyedOnce
      <3> QED BY Zenon, <1>2, <3>1, <3>2
    <2>3. CASE j \in D
      <3>1. j \in Elements(queue[p]) /\ j # i
        BY Zenon, <1>1, <1>6, <2>3
      <3>2. j <= received /\ destroyed[j] = 0 /\ msg[p] # j
        BY Zenon, <1>1, <3>1, OneHolder
      <3>3. \A q \in Processors \ {p} : j \notin Elements(queue[q]) /\ msg[q] # j
        BY <1>1, <3>1, OneHolder
      <3>4. ~Held(j)'
        BY Zenon, <1>1, <2>1, <2>3, <3>1, <3>2, <3>3
      <3> QED BY <1>2, <1>4, <2>3, <3>2, <3>4 DEF Ids
    <2>4. CASE j # i /\ j \notin D
      <3>1. Held(j)' <=> Held(j)
        BY Zenon, <1>1, <2>1, <2>4 DEF Held
      <3>2. j <= i <=> j <= received
        BY <1>4, <2>4 DEF Ids
      <3> QED BY Zenon, <1>2, <2>4, <3>1, <3>2 DEF ConnectionInv, DestroyedOnce
    <2> QED BY Zenon, <2>2, <2>3, <2>4
  <1> QED BY Zenon, <1>7, <1>8, <1>9, <1>10, <1>11 DEF ConnectionInv

-----------------------------------------------------------------------------
(* Steps that leave the messages where they are                            *)

\* A step that moves no message keeps the order, the ownership and the account of
\* the messages.
LEMMA QuietStep ==
  ASSUME ConnectionInv, UNCHANGED <<kind, received, queue, destroyed, msg, last>>,
         \A p \in Processors : pc'[p] = "handling" <=> pc[p] = "handling"
  PROVE  OwnInv' /\ InOrder' /\ DestroyedOnce'
  <1>1. OwnInv'
    BY ZenonT(30) DEF ConnectionInv, OwnInv
  <1>2. InOrder'
    BY Zenon DEF ConnectionInv, InOrder
  <1>3. DestroyedOnce'
    BY Zenon DEF ConnectionInv, DestroyedOnce, Held
  <1> QED BY Zenon, <1>1, <1>2, <1>3

\* The steps of the receiver other than Receive and Clear, and the steps of a
\* processor that neither take nor finish a message, keep the invariant.
LEMMA QuietSteps ==
  ASSUME ConnectionInv, NEW p \in Processors,
         \/ Disconnect \/ Signal(p) \/ Interrupt(p) \/ Wake(p) \/ Join(p)
         \/ Check(p) \/ WaitOne(p) \/ TakeNothing(p) \/ HandlerThrows(p)
         \/ UNCHANGED vars
  PROVE  ConnectionInv'
  <1>1. OwnInv' /\ InOrder' /\ DestroyedOnce'
    <2>1. UNCHANGED <<kind, received, queue, destroyed, msg, last>>
      BY Zenon DEF Disconnect, Signal, Interrupt, Wake, Join, Check, WaitOne, TakeNothing,
             HandlerThrows, vars
    <2>2. \A q \in Processors : pc'[q] = "handling" <=> pc[q] = "handling"
      BY SMTT(30) DEF Disconnect, Signal, Interrupt, Wake, Join, Check, WaitOne, TakeNothing,
             HandlerThrows, vars, ConnectionInv, TypeOK
    <2> QED BY Zenon, <2>1, <2>2, QuietStep
  <1>2. TypeOK' /\ WakeInv' /\ JoinInv'
    <2> USE DEF ConnectionInv, TypeOK, WakeInv, JoinInv, WakePending, ReceiverPCs
    <2>1. CASE Disconnect
      BY Zenon, <2>1 DEF Disconnect, SignalStage, AfterStage
    <2>2. CASE Signal(p)
      BY Zenon, <2>2 DEF Signal, SignalStage, FlagSet
    <2>3. CASE Interrupt(p)
      BY Zenon, <2>3 DEF Interrupt, InterruptStage, AfterStage, SignalStage
    <2>4. CASE Wake(p)
      BY Zenon, <2>4 DEF Wake, WakeStage, AfterStage, FlagSet, SignalStage
    <2>5. CASE Join(p)
      BY ZenonT(30), <2>5 DEF Join, JoinStage, AfterStage, Exited, SignalStage
    <2>6. CASE Check(p)
      BY SMTT(30), <2>6 DEF Check, SignalStage
    <2>7. CASE WaitOne(p)
      BY SMTT(30), <2>7 DEF WaitOne, SignalStage
    <2>8. CASE TakeNothing(p)
      BY SMTT(30), <2>8 DEF TakeNothing, SignalStage
    <2>9. CASE HandlerThrows(p)
      BY ZenonT(30), <2>9 DEF HandlerThrows, SignalStage
    <2>10. CASE UNCHANGED vars
      BY Zenon, <2>10 DEF vars, SignalStage
    <2> QED BY ZenonT(30), <2>1, <2>2, <2>3, <2>4, <2>5, <2>6, <2>7, <2>8, <2>9, <2>10
  <1> QED BY Zenon, <1>1, <1>2 DEF ConnectionInv

-----------------------------------------------------------------------------
(* Taking, handling and clearing messages                                  *)

\* Take keeps the inductive invariant.
LEMMA TakeStep ==
  ASSUME ConnectionInv, NEW p \in Processors, Take(p)
  PROVE  ConnectionInv'
  <1> DEFINE h == Head(queue[p])
             t == Tail(queue[p])
  <1>1. queue[p] \in Seq(Ids) /\ queue[p] # <<>> /\ Increasing(queue[p])
    BY Zenon DEF Take, ConnectionInv, TypeOK, InOrder
  <1>2. /\ h \in Elements(queue[p]) /\ t \in Seq(Ids) /\ Len(t) = Len(queue[p]) - 1
        /\ Elements(queue[p]) = {h} \cup Elements(t)
        /\ Increasing(t) /\ \A i \in Elements(t) : h < i
    BY Zenon, <1>1, TailFacts
  <1>3. /\ pc[p] = "taking" /\ pc' = [pc EXCEPT ![p] = "handling"]
        /\ msg' = [msg EXCEPT ![p] = h] /\ last' = [last EXCEPT ![p] = h]
        /\ queue' = [queue EXCEPT ![p] = t]
        /\ messageWaiting' = [messageWaiting EXCEPT ![p] = (t # <<>>)]
        /\ UNCHANGED <<receiver, kind, received, flag, interrupted, mRegistered,
                       crashed, destroyed>>
    BY Zenon DEF Take, MoreQueued
  <1> HIDE DEF h, t
  <1>4. h \in Ids /\ h <= received /\ msg[p] = None
    <2>1. h \in Ids
      BY Zenon, <1>1, <1>2, ElementsTyped
    <2> QED BY Zenon, <1>2, <1>3, <2>1 DEF ConnectionInv, InOrder, OwnInv
  <1>5. TypeOK'
    <2>1. queue' \in [Processors -> Seq(Ids)] /\ \A q \in Processors : Len(queue'[q]) <= Capacity
      BY SMTT(30), <1>1, <1>2, <1>3, ConnectionAssumption DEF ConnectionInv, TypeOK
    <2>2. last' \in [Processors -> 0..MaxMessages] /\ msg' \in [Processors -> Ids \cup {None}]
      BY <1>3, <1>4 DEF ConnectionInv, TypeOK, Ids
    <2> QED BY Zenon, <1>3, <2>1, <2>2 DEF ConnectionInv, TypeOK
  <1>6. WakeInv' /\ JoinInv'
    BY ZenonT(30), <1>3 DEF ConnectionInv, TypeOK, WakeInv, JoinInv, WakePending, SignalStage
  <1>7. /\ queue'[p] = t /\ msg'[p] = h /\ last'[p] = h /\ pc'[p] = "handling"
        /\ \A q \in Processors \ {p} : /\ queue'[q] = queue[q] /\ msg'[q] = msg[q]
                                       /\ last'[q] = last[q] /\ pc'[q] = pc[q]
    BY Zenon, <1>3 DEF ConnectionInv, TypeOK
  <1>8. \A i \in Ids, q \in Processors :
          (i \in Elements(queue'[q]) \/ msg'[q] = i)
            <=> (i \in Elements(queue[q]) \/ msg[q] = i)
    BY SMTT(30), <1>2, <1>4, <1>7, ConnectionAssumption DEF Ids
  <1>9. OwnInv'
    BY SMTT(30), <1>3, <1>4, <1>7, <1>8 DEF ConnectionInv, OwnInv
  <1>10. InOrder'
    BY <1>2, <1>3, <1>7 DEF ConnectionInv, InOrder
  <1>11. DestroyedOnce'
    BY Zenon, <1>3, <1>8 DEF ConnectionInv, DestroyedOnce, Held
  <1> QED BY Zenon, <1>5, <1>6, <1>9, <1>10, <1>11 DEF ConnectionInv

\* Handle keeps the inductive invariant.
LEMMA HandleStep ==
  ASSUME ConnectionInv, NEW p \in Processors, Handle(p)
  PROVE  ConnectionInv'
  <1> DEFINE m == msg[p]
  <1>1. m \in Ids /\ m = last[p]
    BY Zenon DEF Handle, ConnectionInv, OwnInv
  <1>2. /\ pc[p] = "handling" /\ pc' = [pc EXCEPT ![p] = "check"]
        /\ msg' = [msg EXCEPT ![p] = None]
        /\ destroyed' = [i \in Ids |-> IF i \in {m} THEN destroyed[i] + 1 ELSE destroyed[i]]
        /\ UNCHANGED <<receiver, kind, received, queue, flag, interrupted,
                       messageWaiting, crashed, last>>
    BY Zenon DEF Handle, DestroyAll
  <1>3. mRegistered' \in BOOLEAN
    BY Zenon DEF Handle, ConnectionInv, TypeOK
  <1>4. TypeOK'
    BY SMTT(30), <1>1, <1>2, <1>3 DEF ConnectionInv, TypeOK
  <1>5. WakeInv' /\ JoinInv'
    BY SMTT(30), <1>2 DEF ConnectionInv, TypeOK, WakeInv, JoinInv, WakePending, SignalStage
  <1>6. OwnInv' /\ InOrder'
    <2>1. /\ pc'[p] = "check" /\ msg'[p] = None
          /\ \A q \in Processors \ {p} : pc'[q] = pc[q] /\ msg'[q] = msg[q]
      BY Zenon, <1>2 DEF ConnectionInv, TypeOK
    <2>2. \A i \in Ids : i # None
      BY ConnectionAssumption DEF Ids
    <2>3. OwnInv'
      BY <1>2, <2>1, <2>2 DEF ConnectionInv, OwnInv
    <2>4. InOrder'
      BY Zenon, <1>2 DEF ConnectionInv, InOrder
    <2> QED BY Zenon, <2>3, <2>4
  <1>7. DestroyedOnce'
    <2> SUFFICES ASSUME NEW i \in Ids
                 PROVE  destroyed'[i] = IF i <= received /\ ~Held(i)' THEN 1 ELSE 0
      BY Zenon, <1>2 DEF DestroyedOnce
    <2>1. i # None
      BY ConnectionAssumption DEF Ids
    <2>2. CASE i = m
      <3>1. i <= received /\ destroyed[i] = 0
        BY Zenon, <2>2, OneHolder
      <3>2. \A q \in Processors : i \notin Elements(queue[q]) /\ (q # p => msg[q] # i)
        BY Zenon, <2>2, OneHolder
      <3>3. ~Held(i)'
        BY Zenon, <1>2, <2>1, <3>2 DEF Held, ConnectionInv, TypeOK
      <3> QED BY <1>2, <2>2, <3>1, <3>3
    <2>3. CASE i # m
      <3>1. Held(i)' <=> Held(i)
        BY Zenon, <1>2, <2>1, <2>3 DEF Held, ConnectionInv, TypeOK
      <3> QED BY Zenon, <1>2, <2>3, <3>1 DEF ConnectionInv, DestroyedOnce
    <2> QED BY Zenon, <2>2, <2>3
  <1> QED BY Zenon, <1>4, <1>5, <1>6, <1>7 DEF ConnectionInv

\* Clear keeps the inductive invariant: both processors have exited, so what it
\* destroys nobody else holds.
LEMMA ClearStep ==
  ASSUME ConnectionInv, NEW p \in Processors, Clear(p)
  PROVE  ConnectionInv'
  <1> DEFINE L == Elements(queue[p])
  <1>1. /\ receiver = ClearStage(p) /\ receiver' = AfterStage[receiver]
        /\ destroyed' = [i \in Ids |-> IF i \in L THEN destroyed[i] + 1 ELSE destroyed[i]]
        /\ queue' = [queue EXCEPT ![p] = <<>>]
        /\ UNCHANGED <<kind, received, flag, interrupted, threadVars, crashed>>
    BY Zenon DEF Clear, DestroyAll, LeftOver
  <1>2. pc["fast"] = "exited" /\ pc["slow"] = "exited"
    BY Zenon, <1>1 DEF ClearStage, ConnectionInv, JoinInv
  <1>3. /\ queue'[p] = <<>> /\ Elements(queue'[p]) = {} /\ Increasing(queue'[p])
        /\ \A q \in Processors \ {p} : queue'[q] = queue[q]
    BY <1>1 DEF ConnectionInv, TypeOK, Elements, Increasing
  <1> HIDE DEF L
  <1>4. TypeOK'
    <2>1. queue' \in [Processors -> Seq(Ids)] /\ \A q \in Processors : Len(queue'[q]) <= Capacity
      BY <1>1, <1>3, ConnectionAssumption DEF ConnectionInv, TypeOK
    <2>2. receiver' \in ReceiverPCs
      BY Zenon, <1>1 DEF ClearStage, AfterStage, ReceiverPCs
    <2>3. destroyed' \in [Ids -> Nat]
      BY SMTT(30), <1>1 DEF ConnectionInv, TypeOK
    <2> QED BY Zenon, <1>1, <2>1, <2>2, <2>3 DEF ConnectionInv, TypeOK
  <1>5. WakeInv' /\ JoinInv'
    BY Zenon, <1>1, <1>2 DEF WakeInv, JoinInv, ClearStage, AfterStage
  <1>6. OwnInv' /\ InOrder'
    BY <1>1, <1>3 DEF ConnectionInv, OwnInv, InOrder
  <1>7. DestroyedOnce'
    <2> SUFFICES ASSUME NEW i \in Ids
                 PROVE  destroyed'[i] = IF i <= received /\ ~Held(i)' THEN 1 ELSE 0
      BY Zenon, <1>1 DEF DestroyedOnce
    <2>1. CASE i \in L
      <3>1. i <= received /\ destroyed[i] = 0 /\ msg[p] # i
        BY Zenon, <2>1, OneHolder DEF L
      <3>2. \A q \in Processors \ {p} : i \notin Elements(queue[q]) /\ msg[q] # i
        BY Zenon, <2>1, OneHolder DEF L
      <3>3. ~Held(i)'
        BY Zenon, <1>1, <1>3, <3>1, <3>2 DEF Held
      <3> QED BY <1>1, <2>1, <3>1, <3>3
    <2>2. CASE i \notin L
      <3>1. Held(i)' <=> Held(i)
        BY Zenon, <1>1, <1>3, <2>2 DEF Held, L
      <3> QED BY Zenon, <1>1, <2>2, <3>1 DEF ConnectionInv, DestroyedOnce
    <2> QED BY Zenon, <2>1, <2>2
  <1> QED BY <1>4, <1>5, <1>6, <1>7 DEF ConnectionInv

-----------------------------------------------------------------------------
(* The theorems                                                            *)

\* Every step keeps the inductive invariant.
LEMMA ConnectionStep == ConnectionInv /\ [Next]_vars => ConnectionInv'
  <1> SUFFICES ASSUME ConnectionInv, [Next]_vars PROVE ConnectionInv'
    BY Zenon
  <1>1. ASSUME NEW k \in Kinds, Receive(k) PROVE ConnectionInv'
    BY Zenon, <1>1, ReceiveStep
  <1>2. CASE Disconnect \/ UNCHANGED vars
    BY Zenon, <1>2, QuietSteps
  <1>3. ASSUME NEW p \in Processors,
               Signal(p) \/ Interrupt(p) \/ Wake(p) \/ Join(p) \/ Clear(p)
        PROVE  ConnectionInv'
    BY Zenon, <1>3, QuietSteps, ClearStep
  <1>4. ASSUME NEW p \in Processors, ProcessorStep(p) PROVE ConnectionInv'
    BY Zenon, <1>4, QuietSteps, TakeStep, HandleStep DEF ProcessorStep
  <1> QED BY Zenon, <1>1, <1>2, <1>3, <1>4 DEF Next, ReceiverStep

\* A connection keeps its inductive invariant.
THEOREM ConnectionCorrect == Spec => []ConnectionInv
  BY ConnectionInit, ConnectionStep, PTL DEF Spec

\* No processor sleeps over a queued message or a request to stop without a signal
\* on its way.
THEOREM NoWakeupIsLost == Spec => []NoLostWakeup
  <1>1. ConnectionInv => NoLostWakeup
    BY Zenon DEF ConnectionInv, WakeInv, NoLostWakeup
  <1> QED BY <1>1, ConnectionCorrect, PTL

\* Every message read from the socket is destroyed exactly once: none is leaked
\* and none is freed twice, whichever of the three threads frees it.
THEOREM MessagesAreDestroyedOnce == Spec => []DestroyedOnce
  <1>1. ConnectionInv => DestroyedOnce
    BY Zenon DEF ConnectionInv
  <1> QED BY <1>1, ConnectionCorrect, PTL

\* Each processor takes its messages in the order they were sent.
THEOREM QueuesKeepOrder == Spec => []InOrder
  <1>1. ConnectionInv => InOrder
    BY Zenon DEF ConnectionInv
  <1> QED BY <1>1, ConnectionCorrect, PTL

\* No processor thread runs when the queues are cleared and the connection deleted.
THEOREM DeletionIsSafe == Spec => []NoUseAfterDelete
  <1>1. ConnectionInv => NoUseAfterDelete
    BY Zenon DEF ConnectionInv, JoinInv, NoUseAfterDelete
  <1> QED BY <1>1, ConnectionCorrect, PTL

\* The variables of a connection keep their types; in particular no queue outgrows its
\* limit.
THEOREM ConnectionTypes == Spec => []TypeOK
  <1>1. ConnectionInv => TypeOK
    BY Zenon DEF ConnectionInv
  <1> QED BY <1>1, ConnectionCorrect, PTL
=============================================================================
