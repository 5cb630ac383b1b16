--------------------------- MODULE MessageManager ---------------------------
(***************************************************************************)
(* TmxMessageManager with its ThreadGroup of LockFreeThreads.  The receive *)
(* thread assigns incoming messages to worker threads, all messages of one *)
(* source to the same worker while any of them is active; a worker handles *)
(* a message and queues a clean-up item, behind what the handler sent; the *)
(* output thread broadcasts what was sent and, on a clean-up item, removes *)
(* the message from the assignment.  The count and the thread of an        *)
(* assignment are separate atomics, and nothing is locked.                 *)
(***************************************************************************)
EXTENDS Integers, Sequences, SequencesExt, FiniteSets

CONSTANTS
  Sources,     \* the (group, id) pairs other than (0, 0)
  NoSource,    \* (0, 0): thread assignment is ignored
  Sizes,       \* the values of the thread number setting, one after the other
  Strategies,  \* assignment strategies to consider
  Capacity,    \* of the lock-free queues
  Overflow,    \* overflow setting, 0 for none
  MaxMessages  \* bound: incoming messages

VARIABLES
  settings,    \* how many of Sizes have been configured
  strategy,    \* _strategy
  starts,      \* by worker: OS threads started on it; the length is _threads.size()
  inQ, outQ,   \* by worker: the queues
  count,       \* assignments[s].count
  threadId,    \* assignments[s].threadId, 0 for none (the code numbers from 0, -1)
  next,        \* the round-robin counter
  producer,    \* the receive thread inside assign
  busy,        \* by worker and OS thread on it: the message in doWork, and where
  output,      \* the output thread
  handled      \* messages given to a handler, in order

vars == <<settings, strategy, starts, inQ, outQ, count, threadId, next, producer, busy,
          output, handled>>

Workers == 1..Len(starts)
MaxWorkers == Sizes[Len(Sizes)]
AllSources == Sources \cup {NoSource}
Free == [pc |-> "idle", msg |-> <<>>]
NoProducer == [pc |-> "idle", msg |-> <<>>, tid |-> 0]

Init ==
  /\ settings = 0
  /\ strategy \in Strategies
  /\ starts = <<>>
  /\ inQ = [w \in 1..MaxWorkers |-> <<>>] /\ outQ = [w \in 1..MaxWorkers |-> <<>>]
  /\ count = [s \in Sources |-> 0]
  /\ threadId = [s \in AllSources |-> 0]
  /\ next = [worker |-> 1, msg |-> 1]
  /\ producer = NoProducer
  /\ busy = [c \in (1..MaxWorkers) \X (1..2) |-> Free]
  /\ output = [pc |-> "check", at |-> 1, src |-> NoSource]
  /\ handled = <<>>

\* Mutant: only the first worker is started.
SetSizeStartsFirst(n) == starts' = [w \in 1..n |-> IF w = 1 THEN 1 ELSE 0]

\* Start -> set_size(n): add workers until there are n, starting worker i in the i-th
\* round, i from the beginning.
SetSize(n) ==
  LET added == n - Len(starts)
  IN starts' = [w \in 1..n |-> (IF w <= Len(starts) THEN starts[w] ELSE 0)
                                 + (IF w <= added THEN 1 ELSE 0)]

\* OnStateChange(registered) and OnConfigChanged: only an increase has an effect.
Configure ==
  /\ producer.pc = "idle" /\ settings < Len(Sizes)
  /\ settings' = settings + 1
  /\ IF Sizes[settings + 1] > Len(starts) THEN SetSize(Sizes[settings + 1])
                                          ELSE UNCHANGED starts
  /\ UNCHANGED <<strategy, inQ, outQ, count, threadId, next, producer, busy, output,
                 handled>>

----------------------------------------------------------------------------
(* ThreadGroup::assign, on the receive thread *)

Bump(f, s, d) == IF s \in Sources THEN [f EXCEPT ![s] = @ + d] ELSE f

\* IncomingMessage: count the message first.
IncomingMessage(s) ==
  /\ producer.pc = "idle" /\ starts # <<>> /\ next.msg <= MaxMessages
  /\ producer' = [pc |-> "read", msg |-> <<s, next.msg>>, tid |-> 0]
  /\ next' = [next EXCEPT !.msg = @ + 1]
  /\ count' = Bump(count, s, 1)
  /\ UNCHANGED <<settings, strategy, starts, inQ, outQ, threadId, busy, output, handled>>

\* Read the thread of the assignment.
ReadAssignment ==
  /\ producer.pc = "read"
  /\ LET s == producer.msg[1]
     IN producer' = [producer EXCEPT
          !.tid = threadId[s],
          !.pc = IF threadId[s] = 0 \/ s = NoSource THEN "choose" ELSE "push"]
  /\ UNCHANGED <<settings, strategy, starts, inQ, outQ, count, threadId, next, busy, output, handled>>

QueueSize(w) == Len(inQ[w]) + Cardinality({k \in 1..2 : busy[<<w, k>>].pc # "idle"})

Chosen ==
  CASE strategy = "RoundRobin" -> {next.worker}
    [] strategy = "Random" -> Workers
    [] strategy = "ShortestQueue" ->
         {w \in Workers : /\ \A v \in Workers : QueueSize(w) <= QueueSize(v)
                          /\ \A v \in Workers : v < w => QueueSize(w) < QueueSize(v)}

\* No assignment: choose a thread and store it.
ChooseThread ==
  /\ producer.pc = "choose"
  /\ \E w \in Chosen :
       /\ producer' = [producer EXCEPT !.tid = w, !.pc = "push"]
       /\ threadId' = [threadId EXCEPT ![producer.msg[1]] = w]
  /\ next' = IF strategy # "RoundRobin" THEN next
             ELSE [next EXCEPT !.worker = IF @ + 1 > Len(starts) THEN 1 ELSE @ + 1]
  /\ UNCHANGED <<settings, strategy, starts, inQ, outQ, count, busy, output, handled>>

\* push; its result is ignored.
PushIncoming ==
  /\ producer.pc = "push"
  /\ LET w == producer.tid
     IN IF Len(inQ[w]) < Capacity
        THEN inQ' = [inQ EXCEPT ![w] = Append(@, producer.msg)]
        ELSE UNCHANGED inQ
  /\ producer' = NoProducer
  /\ UNCHANGED <<settings, strategy, starts, outQ, count, threadId, next, busy, output, handled>>

----------------------------------------------------------------------------
(* RxThread: the k-th OS thread of worker w *)

\* process: pop.  The queue is for one consumer: with two, the popped message may be
\* left in the queue for the other.
Pop(w, k) ==
  /\ k <= starts[w] /\ busy[<<w, k>>].pc = "idle" /\ inQ[w] # <<>>
  /\ busy' = [busy EXCEPT ![<<w, k>>] = [pc |-> "work", msg |-> Head(inQ[w])]]
  /\ \/ inQ' = [inQ EXCEPT ![w] = Tail(@)]
     \/ starts[w] > 1 /\ UNCHANGED inQ
  /\ UNCHANGED <<settings, strategy, starts, outQ, count, threadId, next, producer, output, handled>>

\* push_out followed by notify_one.
PushOut(w, item) ==
  IF Len(outQ[w]) < Capacity
  THEN /\ outQ' = [outQ EXCEPT ![w] = Append(@, item)]
       /\ output' = IF output.pc = "blocked" THEN [output EXCEPT !.pc = "check"] ELSE output
  ELSE /\ output' = IF output.pc = "blocked" THEN [output EXCEPT !.pc = "check"] ELSE output
       /\ UNCHANGED outQ

\* doWork, first half: drop the message when the queue is longer than the overflow
\* size, or invoke the handler.
DoWork(w, k) ==
  LET c == <<w, k>>
  IN /\ busy[c].pc = "work"
     /\ \/ /\ Overflow > 0 /\ QueueSize(w) > Overflow
           /\ busy' = [busy EXCEPT ![c] = Free]
           /\ UNCHANGED <<handled, outQ, output>>
        \/ /\ Overflow = 0 \/ QueueSize(w) <= Overflow
           /\ handled' = Append(handled, busy[c].msg)
           /\ busy' = [busy EXCEPT ![c].pc = "sent"]
           /\ \/ UNCHANGED <<outQ, output>>
              \/ PushOut(w, [src |-> NoSource])   \* OutgoingMessage called by the handler
  /\ UNCHANGED <<settings, strategy, starts, inQ, count, threadId, next, producer>>

\* doWork, second half: queue the clean-up of the assignment.
PushCleanup(w, k) ==
  LET c == <<w, k>>
      s == busy[c].msg[1]
  IN /\ busy[c].pc = "sent"
     /\ PushOut(w, [src |-> s])
     /\ busy' = [busy EXCEPT ![c] = Free]
  /\ UNCHANGED <<settings, strategy, starts, inQ, count, threadId, next, producer, handled>>

----------------------------------------------------------------------------
(* RunOutputThread *)

outputKeeps == <<settings, strategy, starts, inQ, next, producer, busy, handled>>

\* cv.wait: the predicate is evaluated, and then the thread blocks; a worker's notify
\* in between wakes nobody up, because workers do not take the lock.
CheckAvailable ==
  /\ output.pc = "check" /\ starts # <<>>
  /\ output' = [output EXCEPT !.pc = IF \E w \in Workers : outQ[w] # <<>> THEN "scan"
                                     ELSE "blocking", !.at = 1]
  /\ UNCHANGED <<outputKeeps, outQ, count, threadId>>

Block ==
  /\ output.pc = "blocking"
  /\ output' = [output EXCEPT !.pc = "blocked"]
  /\ UNCHANGED <<outputKeeps, outQ, count, threadId>>

AfterItem(o) == IF o.at >= Len(starts) THEN [o EXCEPT !.pc = "check", !.src = NoSource]
                ELSE [o EXCEPT !.pc = "scan", !.at = @ + 1, !.src = NoSource]

\* pop one item of the worker, broadcast what it holds, clean up: decrement the count.
\* The count of (0, 0) is never used and left out.
Cleanup ==
  /\ output.pc = "scan"
  /\ LET w == output.at
         s == Head(outQ[w]).src
     IN IF outQ[w] = <<>> THEN output' = AfterItem(output) /\ UNCHANGED <<outQ, count>>
        ELSE /\ outQ' = [outQ EXCEPT ![w] = Tail(@)]
             /\ count' = Bump(count, s, -1)
             /\ output' = IF s \in Sources /\ count[s] = 1
                          THEN [output EXCEPT !.pc = "free", !.src = s]
                          ELSE AfterItem(output)
  /\ UNCHANGED <<outputKeeps, threadId>>

\* unassign, when the decremented count was zero.
FreeThread ==
  /\ output.pc = "free"
  /\ threadId' = [threadId EXCEPT ![output.src] = 0]
  /\ output' = AfterItem(output)
  /\ UNCHANGED <<outputKeeps, outQ, count>>

\* A step of worker w on its queue k.
WorkerQueueStep(w, k) ==
  w \in Workers /\ (Pop(w, k) \/ DoWork(w, k) \/ PushCleanup(w, k))

WorkerStep == \E w \in Workers, k \in 1..2 : WorkerQueueStep(w, k)
ProducerStep == ReadAssignment \/ ChooseThread \/ PushIncoming
OutputStep == CheckAvailable \/ Block \/ Cleanup \/ FreeThread

Next ==
  \/ Configure
  \/ \E s \in AllSources : IncomingMessage(s)
  \/ ProducerStep \/ WorkerStep \/ OutputStep

Spec == Init /\ [][Next]_vars

\* The operating system runs every thread of the group and the receive thread.
FairSpec ==
  /\ Spec
  /\ WF_vars(ProducerStep)
  /\ \A w \in 1..MaxWorkers, k \in 1..2 : WF_vars(WorkerQueueStep(w, k))
  /\ WF_vars(OutputStep)

----------------------------------------------------------------------------

\* Every message that was pushed is popped by its worker.
QueuesDrain == \A w \in 1..MaxWorkers : inQ[w] # <<>> ~> inQ[w] = <<>>
=============================================================================
