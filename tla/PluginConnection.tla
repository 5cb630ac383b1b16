-------------------------- MODULE PluginConnection --------------------------
(***************************************************************************)
(* The threads of one plugin connection (TmxCore/src/PluginConnection.cpp) *)
(* and the events they wait on (utils/AutoResetEvent.cpp).                 *)
(*                                                                         *)
(* The receiver thread reads messages from the socket and puts each on the *)
(* bounded queue of the fast or of the slow processor thread, which handle *)
(* and destroy them.  When the peer closes the socket the receiver thread  *)
(* stops and joins both processors, destroys what is left in the queues    *)
(* and deletes the connection.                                             *)
(*                                                                         *)
(* The constructor starts the receiver thread first; the model begins when *)
(* all three threads exist.                                                *)
(***************************************************************************)
EXTENDS Naturals, Sequences

CONSTANTS
  Capacity,      \* capacity of each circular buffer (50 in the code)
  MaxMessages,   \* bound: messages the peer sends
  None           \* no message

Processors == {"fast", "slow"}

Ids == 1..MaxMessages

\* What a message is, as far as its handling differs.
SlowKinds == {"status", "event"}
FastKinds == {"register", "config", "other"}
Kinds == SlowKinds \cup FastKinds

ASSUME ConnectionAssumption ==
  /\ Capacity \in Nat \ {0}
  /\ MaxMessages \in Nat
  /\ None \notin Nat /\ None \notin Kinds

VARIABLES
  receiver,        \* where the receiver thread is
  kind,            \* the kind of each message, by its number
  received,        \* messages read from the socket
  queue,           \* mFastMessageQueue and mSlowMessageQueue
  flag,            \* the flags of the two AutoResetEvents
  interrupted,     \* boost::thread interruption requests
  pc,              \* where each processor thread is
  messageWaiting,  \* its local variable
  msg,             \* the message it handles
  mRegistered,
  crashed,         \* an exception left a thread: the core process terminates
  destroyed,       \* history: calls of ivpMsg_destroy for each message
  last             \* history: the last message each processor took

queueVars == <<kind, received, queue, destroyed>>
threadVars == <<pc, messageWaiting, msg, mRegistered, last>>
vars == <<receiver, kind, received, queue, flag, interrupted, pc,
          messageWaiting, msg, mRegistered, crashed, destroyed, last>>

\* The stages of closing, in order: each processor is interrupted, woken and
\* joined, then the queues are emptied and the object is deleted.
AfterStage ==
  [interruptFast |-> "interruptSlow", interruptSlow |-> "wakeFast",
   wakeFast |-> "wakeSlow", wakeSlow |-> "joinFast",
   joinFast |-> "joinSlow", joinSlow |-> "clearFast",
   clearFast |-> "clearSlow", clearSlow |-> "deleted"]

InterruptStage(p) == IF p = "fast" THEN "interruptFast" ELSE "interruptSlow"
WakeStage(p) == IF p = "fast" THEN "wakeFast" ELSE "wakeSlow"
JoinStage(p) == IF p = "fast" THEN "joinFast" ELSE "joinSlow"
ClearStage(p) == IF p = "fast" THEN "clearFast" ELSE "clearSlow"

\* The receiver has queued a message for p and is about to signal it.
SignalStage(p) == IF p = "fast" THEN "signalFast" ELSE "signalSlow"

ReceiverPCs ==
  {"reading", "signalFast", "signalSlow", "deleted"} \cup DOMAIN AfterStage

\* ivpMsg_destroy.
DestroyAll(S) ==
  destroyed' = [i \in Ids |-> IF i \in S THEN destroyed[i] + 1 ELSE destroyed[i]]

Elements(s) == {s[i] : i \in 1..Len(s)}

-----------------------------------------------------------------------------
Init ==
  /\ receiver = "reading"
  /\ kind = [i \in Ids |-> None]
  /\ received = 0
  /\ queue = [p \in Processors |-> <<>>]
  /\ flag = [p \in Processors |-> FALSE]
  /\ interrupted = [p \in Processors |-> FALSE]
  /\ pc = [p \in Processors |-> "check"]
  /\ messageWaiting = [p \in Processors |-> FALSE]
  /\ msg = [p \in Processors |-> None]
  /\ mRegistered = FALSE
  /\ crashed = FALSE
  /\ destroyed = [i \in Ids |-> 0]
  /\ last = [p \in Processors |-> 0]

-----------------------------------------------------------------------------
(* The receiver thread                                                     *)

ProcessorOf(k) == IF k \in SlowKinds THEN "slow" ELSE "fast"

\* circular_buffer::push_back: a full buffer overwrites its oldest element.
Push(s, i) == IF Len(s) = Capacity THEN Append(Tail(s), i) ELSE Append(s, i)

\* A message is read and parsed and, under the queue's mutex, pushed; the oldest
\* one is destroyed first if the buffer is full.  A message that does not parse
\* is answered with an error and leaves no trace.
Receive(k) ==
  LET p == ProcessorOf(k)
      i == received + 1
  IN /\ receiver = "reading"
     /\ received < MaxMessages
     /\ receiver' = SignalStage(p)
     /\ received' = i
     /\ kind' = [kind EXCEPT ![i] = k]
     /\ queue' = [queue EXCEPT ![p] = Push(@, i)]
     /\ DestroyAll(IF Len(queue[p]) = Capacity THEN {Head(queue[p])} ELSE {})
     /\ UNCHANGED <<flag, interrupted, threadVars, crashed>>

\* Mutant: the event is not set.
FlagUnset(p) == flag

FlagSet(p) == [flag EXCEPT ![p] = TRUE]

\* AutoResetEvent::Set after a push.
Signal(p) ==
  /\ receiver = SignalStage(p)
  /\ receiver' = "reading"
  /\ flag' = FlagSet(p)
  /\ UNCHANGED <<queueVars, interrupted, threadVars, crashed>>

\* recv returns zero or an error: the socket is closed.
Disconnect ==
  /\ receiver = "reading"
  /\ receiver' = "interruptFast"
  /\ UNCHANGED <<queueVars, flag, interrupted, threadVars, crashed>>

Interrupt(p) ==
  /\ receiver = InterruptStage(p)
  /\ receiver' = AfterStage[receiver]
  /\ interrupted' = [interrupted EXCEPT ![p] = TRUE]
  /\ UNCHANGED <<queueVars, flag, threadVars, crashed>>

\* AutoResetEvent::Set while closing.
Wake(p) ==
  /\ receiver = WakeStage(p)
  /\ receiver' = AfterStage[receiver]
  /\ flag' = FlagSet(p)
  /\ UNCHANGED <<queueVars, interrupted, threadVars, crashed>>

\* Mutant: the processor is not waited for.
JoinSkipped(p) == TRUE

Exited(p) == pc[p] = "exited"

Join(p) ==
  /\ receiver = JoinStage(p)
  /\ Exited(p)
  /\ receiver' = AfterStage[receiver]
  /\ UNCHANGED <<queueVars, flag, interrupted, threadVars, crashed>>

\* Mutant: the buffer is emptied and its messages are leaked.
DestroyNone(p) == {}

LeftOver(p) == Elements(queue[p])

Clear(p) ==
  /\ receiver = ClearStage(p)
  /\ receiver' = AfterStage[receiver]
  /\ DestroyAll(LeftOver(p))
  /\ queue' = [queue EXCEPT ![p] = <<>>]
  /\ UNCHANGED <<kind, received, flag, interrupted, threadVars, crashed>>

-----------------------------------------------------------------------------
(* The processor threads                                                   *)

\* The loop condition and the choice whether to sleep.
Check(p) ==
  /\ pc[p] = "check"
  /\ pc' = [pc EXCEPT ![p] = IF interrupted[p] THEN "exited"
                             ELSE IF messageWaiting[p] THEN "taking"
                             ELSE "waiting"]
  /\ UNCHANGED <<receiver, queueVars, flag, interrupted, messageWaiting, msg,
                 mRegistered, crashed, last>>

\* AutoResetEvent::WaitOne returns and resets the flag.
WaitOne(p) ==
  /\ pc[p] = "waiting"
  /\ flag[p]
  /\ pc' = [pc EXCEPT ![p] = "taking"]
  /\ flag' = [flag EXCEPT ![p] = FALSE]
  /\ UNCHANGED <<receiver, queueVars, interrupted, messageWaiting, msg,
                 mRegistered, crashed, last>>

MoreQueued(p) == Tail(queue[p]) # <<>>

\* Under the queue's mutex the oldest message is taken.
Take(p) ==
  /\ pc[p] = "taking"
  /\ queue[p] # <<>>
  /\ pc' = [pc EXCEPT ![p] = "handling"]
  /\ msg' = [msg EXCEPT ![p] = Head(queue[p])]
  /\ last' = [last EXCEPT ![p] = Head(queue[p])]
  /\ queue' = [queue EXCEPT ![p] = Tail(@)]
  /\ messageWaiting' = [messageWaiting EXCEPT ![p] = MoreQueued(p)]
  /\ UNCHANGED <<receiver, kind, received, flag, interrupted, mRegistered,
                 crashed, destroyed>>

\* The queue is empty: msg is NULL and the loop continues.
TakeNothing(p) ==
  /\ pc[p] = "taking"
  /\ queue[p] = <<>>
  /\ pc' = [pc EXCEPT ![p] = "check"]
  /\ UNCHANGED <<receiver, queueVars, flag, interrupted, messageWaiting, msg,
                 mRegistered, crashed, last>>

\* The handler returns and the message is destroyed.  A registration succeeds
\* or is answered with an error; an event log message of a plugin that is not
\* registered does not get here.
Handle(p) ==
  /\ pc[p] = "handling"
  /\ kind[msg[p]] = "event" => mRegistered
  /\ mRegistered' \in (IF kind[msg[p]] = "register" THEN {TRUE} ELSE {})
                      \cup {mRegistered}
  /\ DestroyAll({msg[p]})
  /\ msg' = [msg EXCEPT ![p] = None]
  /\ pc' = [pc EXCEPT ![p] = "check"]
  /\ UNCHANGED <<receiver, kind, received, queue, flag, interrupted,
                 messageWaiting, crashed, last>>

\* Nothing catches what processConfigMessage throws (an unknown key, a plugin
\* that is not registered, a database error), nor the PluginNotRegisteredException
\* of processEventLogMessage: it leaves the thread and the process terminates.
HandlerThrows(p) ==
  /\ pc[p] = "handling"
  /\ \/ kind[msg[p]] = "config"
     \/ kind[msg[p]] = "event" /\ ~mRegistered
  /\ crashed' = TRUE
  /\ UNCHANGED <<receiver, queueVars, flag, interrupted, threadVars>>

-----------------------------------------------------------------------------
ReceiverStep ==
  \E p \in Processors :
    Signal(p) \/ Interrupt(p) \/ Wake(p) \/ Join(p) \/ Clear(p)

ProcessorStep(p) ==
  Check(p) \/ WaitOne(p) \/ Take(p) \/ TakeNothing(p) \/ Handle(p)
    \/ HandlerThrows(p)

Next ==
  /\ ~crashed
  /\ \/ \E k \in Kinds : Receive(k)
     \/ Disconnect
     \/ ReceiverStep
     \/ \E p \in Processors : ProcessorStep(p)

Spec == Init /\ [][Next]_vars

\* The three threads are scheduled; the peer need not send or disconnect.
Fairness ==
  /\ WF_vars(~crashed /\ ReceiverStep)
  /\ \A p \in Processors : WF_vars(~crashed /\ ProcessorStep(p))

FairSpec == Spec /\ Fairness
-----------------------------------------------------------------------------
(* Properties                                                              *)

\* Every variable stays in its domain, and no queue exceeds its capacity.
TypeOK ==
  /\ receiver \in ReceiverPCs
  /\ kind \in [Ids -> Kinds \cup {None}]
  /\ received \in 0..MaxMessages
  /\ queue \in [Processors -> Seq(Ids)]
  /\ \A p \in Processors : Len(queue[p]) <= Capacity
  /\ flag \in [Processors -> BOOLEAN]
  /\ interrupted \in [Processors -> BOOLEAN]
  /\ pc \in [Processors -> {"check", "waiting", "taking", "handling", "exited"}]
  /\ messageWaiting \in [Processors -> BOOLEAN]
  /\ msg \in [Processors -> Ids \cup {None}]
  /\ mRegistered \in BOOLEAN
  /\ crashed \in BOOLEAN
  /\ destroyed \in [Ids -> Nat]
  /\ last \in [Processors -> 0..MaxMessages]

\* The receiver is closing and has yet to wake p.
WakePending(p) ==
  \/ receiver \in {"interruptFast", "interruptSlow", "wakeFast"}
  \/ receiver = "wakeSlow" /\ p = "slow"

\* No wakeup is lost: a processor that sleeps in WaitOne with its flag clear while
\* its queue holds a message, or while it has been asked to stop, is about to be
\* signalled by the receiver.  The push and the Set are two steps, and so are the
\* test of messageWaiting and the sleep.
NoLostWakeup ==
  \A p \in Processors :
    pc[p] = "waiting" /\ ~flag[p] =>
      /\ queue[p] # <<>> => receiver = SignalStage(p)
      /\ interrupted[p] => WakePending(p)

\* i waits in a queue or is being handled.
Held(i) ==
  \E p \in Processors : i \in Elements(queue[p]) \/ msg[p] = i

\* Every message is destroyed exactly once, by the receiver when it drops the
\* oldest one or clears the queues, or by the processor that handled it: one that
\* is held has not been destroyed, one that was read and is no longer held has
\* been, once.
DestroyedOnce ==
  \A i \in Ids : destroyed[i] = IF i <= received /\ ~Held(i) THEN 1 ELSE 0

\* Each processor takes the messages of its queue in the order they were sent,
\* even when the oldest ones are dropped ("no important message get out of order").
Increasing(s) == \A j, k \in 1..Len(s) : j < k => s[j] < s[k]

\* The messages that wait are newer than the last one taken, and in order.
InOrder ==
  \A p \in Processors :
    /\ \A i \in Elements(queue[p]) : last[p] < i /\ i <= received
    /\ Increasing(queue[p])

\* Once the receiver clears the queues and deletes the connection no processor
\* thread of it runs.
NoUseAfterDelete ==
  receiver \in {"clearFast", "clearSlow", "deleted"} =>
    \A p \in Processors : pc[p] = "exited"

\* The inductive strengthening.  A processor that is not between waking and taking
\* and will not look at its queue unasked has an empty queue, a set flag or a
\* receiver about to set it; messageWaiting is right when it is true; ...
WakeInv ==
  \A p \in Processors :
    /\ pc[p] \in {"check", "waiting", "handling"} /\ ~messageWaiting[p] /\ ~flag[p]
         /\ queue[p] # <<>> => receiver = SignalStage(p)
    /\ pc[p] = "waiting" => ~messageWaiting[p]
    /\ messageWaiting[p] /\ pc[p] # "exited" => queue[p] # <<>>
    /\ pc[p] = "waiting" /\ ~flag[p] /\ interrupted[p] => WakePending(p)

\* ... the receiver passes a join only when the processor has exited; ...
JoinInv ==
  /\ receiver \in {"joinSlow", "clearFast", "clearSlow", "deleted"}
       => pc["fast"] = "exited"
  /\ receiver \in {"clearFast", "clearSlow", "deleted"} => pc["slow"] = "exited"

\* ... and a processor holds a message exactly while it handles it, the last one it
\* took, and only messages of its own kinds.
OwnInv ==
  \A p \in Processors :
    /\ last[p] <= received
    /\ pc[p] = "handling" => msg[p] = last[p] /\ msg[p] \in Ids
    /\ pc[p] # "handling" => msg[p] = None
    /\ \A i \in Ids : i \in Elements(queue[p]) \/ msg[p] = i
                      => kind[i] # None /\ ProcessorOf(kind[i]) = p

\* The inductive invariant of a connection: wake-ups, joins and ownership of messages
\* between the receiver and the processors (PluginConnection.cpp).
ConnectionInv ==
  /\ TypeOK
  /\ WakeInv
  /\ JoinInv
  /\ OwnInv
  /\ InOrder
  /\ DestroyedOnce

\* Every message that was read is eventually handled, dropped or cleared: with
\* the threads scheduled, no message waits for ever.
EventuallyDestroyed ==
  \A i \in Ids : (received >= i) ~> (destroyed[i] > 0 \/ crashed)

\* A closed socket leads to the deletion of the connection: the receiver does not
\* wait for ever for a sleeping processor.
CloseCompletes ==
  (receiver = "interruptFast") ~> (receiver = "deleted" \/ crashed)

\* PluginConnection.cpp:281-282 says of the messages of the slow processor that
\* "it does not matter if they are executed out-of-order from other messages
\* received": an event log message never brings the core down because the
\* registration sent before it has not been handled yet.
OutOfOrderHarmless ==
  crashed /\ pc["slow"] = "handling" /\ kind[msg["slow"]] = "event" /\ ~mRegistered
    => ~\E i \in 1..(msg["slow"] - 1) : kind[i] = "register" /\ destroyed[i] = 0
=============================================================================
