------------------------- MODULE MessageRouterBasic -------------------------
(***************************************************************************)
(* The message router of the TMX core (TmxCore/src/MessageRouterBasic.cpp) *)
(* together with the client base class that calls it                       *)
(* (TmxCore/src/MessageRouterClient.cpp).                                  *)
(*                                                                         *)
(* Any number of threads may be inside broadcastMessage at once; they walk *)
(* the receiver map without holding its lock and are only counted.         *)
(* registerReceiver and unregisterReceiver take the map lock, spin until   *)
(* the count reads zero, and then change the map.                          *)
(*                                                                         *)
(* A receiver is the MessageReceiver pointer that keys the map, so it is   *)
(* an integer (the map is walked in pointer order) and may be reused for a *)
(* new object once the old one is destroyed.  Every receiver is driven by  *)
(* one thread at a time: the fast processor of its connection, and after   *)
(* that thread was joined the receiver thread that deletes it.             *)
(***************************************************************************)
EXTENDS Integers, FiniteSets

CONSTANTS
  NumReceivers,   \* receivers are the pointers 1..NumReceivers
  Messages,       \* records [type, subtype, flags]; flags is a set of bits
  FilterLists,    \* sets of filters [type, subtype, flagmask]
  Wildcard,       \* the string "*"
  Null,           \* a NULL type or subtype; also "no thread"
  MaxOps          \* bound: router calls made on behalf of one receiver

ASSUME RouterAssumption ==
  /\ NumReceivers \in Nat \ {0}
  /\ MaxOps \in Nat
  /\ {} \in FilterLists
  /\ Null \notin 1..NumReceivers

Receivers == 1..NumReceivers

\* The cursor value of an iterator equal to map.end().
End == NumReceivers + 1

VARIABLES
  keys,               \* keys of mReceiverMessageFilterEntryMap
  filters,            \* its values: the filter list each key was given last
  mActiveBroadcasts,  \* threads counted as inside broadcastMessage
  mMapLock,           \* owner of the map lock, or Null
  pc,                 \* where the thread of each receiver is
  arg,                \* the message it broadcasts or the filters it registers
  cursor,             \* its iterator: the key of the node it is visiting
  alive,              \* the receiver object exists
  crashed,            \* the core process died of an invalid iterator
  ops,                \* router calls made so far (bounded by MaxOps)
  torn,               \* the map was written since the iterator last moved
  overlapped,         \* history: the map was written during this broadcast
  late,               \* history: broadcasts entered since a writer's check
  delivered,          \* history: deliveries of the current broadcast
  expected            \* history: who it should reach, as of its start

mapVars   == <<keys, filters>>
histVars  == <<torn, overlapped, late, delivered, expected>>
vars == <<keys, filters, mActiveBroadcasts, mMapLock, pc, arg, cursor, alive,
          crashed, ops, torn, overlapped, late, delivered, expected>>

PCs == {"idle", "iterating", "locking", "spinning", "writing"}

\* The call a thread in "locking", "spinning" or "writing" is executing.
Unregister == [call |-> "unregister"]
Register(F) == [call |-> "register", filters |-> F]

Broadcasting == {r \in Receivers : pc[r] = "iterating"}

-----------------------------------------------------------------------------
(* Filter matching                                                         *)

FlagsMatch(f, m) == f.flagmask = {} \/ f.flagmask \cap m.flags # {}

Matches(f, m) ==
  /\ \/ f.type = Wildcard
     \/ /\ m.type # Null
        /\ f.type = m.type
        /\ \/ f.subtype = Wildcard
           \/ m.subtype # Null /\ f.subtype = m.subtype
  /\ FlagsMatch(f, m)

\* Mutant: the "break" after receiveMessage is missing.
DeliveriesNoBreak(F, m) == Cardinality({f \in F : Matches(f, m)})

\* receiveMessage is called for the first filter that matches, then "break".
Deliveries(F, m) == IF \E f \in F : Matches(f, m) THEN 1 ELSE 0

\* The receivers that asked for message m, as the map stands.
Subscribers(m) == {k \in keys : \E f \in filters[k] : Matches(f, m)}

-----------------------------------------------------------------------------
Init ==
  /\ keys = {}
  /\ filters = [r \in Receivers |-> {}]
  /\ mActiveBroadcasts = 0
  /\ mMapLock = Null
  /\ pc = [r \in Receivers |-> "idle"]
  /\ arg = [r \in Receivers |-> Null]
  /\ cursor = [r \in Receivers |-> End]
  /\ alive = [r \in Receivers |-> FALSE]
  /\ crashed = FALSE
  /\ ops = [r \in Receivers |-> 0]
  /\ torn = [r \in Receivers |-> FALSE]
  /\ overlapped = [r \in Receivers |-> FALSE]
  /\ late = [r \in Receivers |-> {}]
  /\ delivered = [r \in Receivers |-> [k \in Receivers |-> 0]]
  /\ expected = [r \in Receivers |-> {}]

Goto(r, from, to) ==
  /\ pc[r] = from
  /\ pc' = [pc EXCEPT ![r] = to]

CountCall(r) ==
  /\ ops[r] < MaxOps
  /\ ops' = [ops EXCEPT ![r] = @ + 1]

\* new PluginConnection (or a core plugin): the object does not enter the map.
Construct(r) ==
  /\ ~alive[r] /\ pc[r] = "idle"
  /\ CountCall(r)
  /\ alive' = [alive EXCEPT ![r] = TRUE]
  /\ UNCHANGED <<mapVars, mActiveBroadcasts, mMapLock, pc, arg, cursor,
                 crashed, histVars>>

\* broadcastMessage up to the loop: the count is raised under its own lock.
EnterBroadcast(r, m) ==
  /\ alive[r]
  /\ Goto(r, "idle", "iterating")
  /\ CountCall(r)
  /\ mActiveBroadcasts' = mActiveBroadcasts + 1
  /\ arg' = [arg EXCEPT ![r] = m]
  /\ cursor' = [cursor EXCEPT ![r] = 0]
  /\ late' = [w \in Receivers |->
                IF pc[w] = "writing" THEN late[w] \cup {r} ELSE late[w]]
  /\ expected' = [expected EXCEPT ![r] = Subscribers(m) \ {r}]
  /\ UNCHANGED <<mapVars, mMapLock, alive, crashed, torn, overlapped,
                 delivered>>

\* The nodes the iterator of r can reach with begin() or ++.  The walk goes up
\* the keys in order; if the map was changed under it without synchronisation
\* that increment may land on any node or on end().
Successors(r) ==
  IF torn[r]
  THEN keys \cup {End}
  ELSE {k \in keys \cup {End} :
          /\ k > cursor[r]
          /\ \A j \in keys : j > cursor[r] => k <= j}

\* One turn of the loop: move to the next node and serve its receiver.
Visit(r) ==
  /\ pc[r] = "iterating" /\ cursor[r] # End
  /\ \E k \in Successors(r) :
       /\ cursor' = [cursor EXCEPT ![r] = k]
       /\ delivered' =
            IF k \in {r, End} THEN delivered
            ELSE [delivered EXCEPT
                    ![r][k] = @ + Deliveries(filters[k], arg[r])]
  /\ torn' = [torn EXCEPT ![r] = FALSE]
  /\ UNCHANGED <<mapVars, mActiveBroadcasts, mMapLock, pc, arg, alive, crashed,
                 ops, overlapped, late, expected>>

\* The increment of an iterator whose map was changed under it may also fault.
Fault(r) ==
  /\ pc[r] = "iterating" /\ cursor[r] # End
  /\ torn[r]
  /\ crashed' = TRUE
  /\ UNCHANGED <<mapVars, mActiveBroadcasts, mMapLock, pc, arg, cursor, alive,
                 ops, histVars>>

\* Mutants: the count is not lowered, or lowered twice.
NotLowered == mActiveBroadcasts

Lowered == mActiveBroadcasts - 1

\* The end of broadcastMessage: the count is lowered under its own lock.
LeaveBroadcast(r) ==
  /\ cursor[r] = End
  /\ Goto(r, "iterating", "idle")
  /\ mActiveBroadcasts' = Lowered
  /\ arg' = [arg EXCEPT ![r] = Null]
  /\ torn' = [torn EXCEPT ![r] = FALSE]
  /\ overlapped' = [overlapped EXCEPT ![r] = FALSE]
  /\ delivered' = [delivered EXCEPT ![r] = [k \in Receivers |-> 0]]
  /\ expected' = [expected EXCEPT ![r] = {}]
  /\ UNCHANGED <<mapVars, mMapLock, cursor, alive, crashed, ops, late>>

\* subscribeForMessages calls registerReceiver(this, F).
CallRegister(r, F) ==
  /\ alive[r]
  /\ Goto(r, "idle", "locking")
  /\ CountCall(r)
  /\ arg' = [arg EXCEPT ![r] = Register(F)]
  /\ UNCHANGED <<mapVars, mActiveBroadcasts, mMapLock, cursor, alive, crashed,
                 histVars>>

\* ~MessageRouterClient calls unregisterReceiver(this).
CallUnregister(r) ==
  /\ alive[r]
  /\ Goto(r, "idle", "locking")
  /\ arg' = [arg EXCEPT ![r] = Unregister]
  /\ UNCHANGED <<mapVars, mActiveBroadcasts, mMapLock, cursor, alive, crashed,
                 ops, histVars>>

MapLockFree == mMapLock = Null

\* pthread_mutex_lock(&mMapLock).
LockMap(r) ==
  /\ MapLockFree
  /\ Goto(r, "locking", "spinning")
  /\ mMapLock' = r
  /\ UNCHANGED <<mapVars, mActiveBroadcasts, arg, cursor, alive, crashed, ops,
                 histVars>>

\* Mutant: the spin loop is missing.
NoSpin == TRUE

BroadcastsInactive == ~(mActiveBroadcasts > 0)

\* while(mActiveBroadcasts > 0) { sleep(0); } -- the read that ends the loop.
Drained(r) ==
  /\ BroadcastsInactive
  /\ Goto(r, "spinning", "writing")
  /\ UNCHANGED <<mapVars, mActiveBroadcasts, mMapLock, arg, cursor, alive,
                 crashed, ops, histVars>>

MarkOverlaps ==
  /\ torn' = [b \in Receivers |-> torn[b] \/ pc[b] = "iterating"]
  /\ overlapped' = [b \in Receivers |-> overlapped[b] \/ pc[b] = "iterating"]

\* The assignment to the map entry, then pthread_mutex_unlock.
WriteRegister(r) ==
  /\ arg[r] # Unregister
  /\ Goto(r, "writing", "idle")
  /\ keys' = keys \cup {r}
  /\ filters' = [filters EXCEPT ![r] = arg[r].filters]
  /\ MarkOverlaps
  /\ mMapLock' = Null
  /\ arg' = [arg EXCEPT ![r] = Null]
  /\ late' = [late EXCEPT ![r] = {}]
  /\ UNCHANGED <<mActiveBroadcasts, cursor, alive, crashed, ops, delivered,
                 expected>>

Erased(r) == keys \ {r}

\* erase(), then pthread_mutex_unlock; the destructor returns and the object is
\* gone.  Erasing an absent key changes nothing.
WriteUnregister(r) ==
  /\ arg[r] = Unregister
  /\ Goto(r, "writing", "idle")
  /\ keys' = Erased(r)
  /\ filters' = [filters EXCEPT ![r] = {}]
  /\ IF r \in keys THEN MarkOverlaps ELSE UNCHANGED <<torn, overlapped>>
  /\ mMapLock' = Null
  /\ alive' = [alive EXCEPT ![r] = FALSE]
  /\ arg' = [arg EXCEPT ![r] = Null]
  /\ late' = [late EXCEPT ![r] = {}]
  /\ UNCHANGED <<mActiveBroadcasts, cursor, crashed, ops, delivered, expected>>

\* The steps that continue a call already made.
Continue(r) ==
  \/ Visit(r) \/ Fault(r) \/ LeaveBroadcast(r)
  \/ LockMap(r) \/ Drained(r) \/ WriteRegister(r) \/ WriteUnregister(r)

Call(r) ==
  \/ Construct(r)
  \/ \E m \in Messages : EnterBroadcast(r, m)
  \/ \E F \in FilterLists : CallRegister(r, F)
  \/ CallUnregister(r)

Next == ~crashed /\ \E r \in Receivers : Call(r) \/ Continue(r)

Spec == Init /\ [][Next]_vars

\* A thread inside a call keeps running: the kernel schedules it.
Fairness == \A r \in Receivers : WF_vars(~crashed /\ Continue(r))

FairSpec == Spec /\ Fairness

-----------------------------------------------------------------------------
(* Properties                                                              *)

Calls == {Null, Unregister} \cup Messages \cup {Register(F) : F \in FilterLists}

\* Every variable stays in its domain.
TypeOK ==
  /\ keys \in SUBSET Receivers
  /\ filters \in [Receivers -> FilterLists]
  /\ mActiveBroadcasts \in Nat
  /\ mMapLock \in Receivers \cup {Null}
  /\ pc \in [Receivers -> PCs]
  /\ arg \in [Receivers -> Calls]
  /\ cursor \in [Receivers -> 0..End]
  /\ alive \in [Receivers -> BOOLEAN]
  /\ crashed \in BOOLEAN
  /\ ops \in [Receivers -> 0..MaxOps]
  /\ torn \in [Receivers -> BOOLEAN]
  /\ overlapped \in [Receivers -> BOOLEAN]
  /\ late \in [Receivers -> SUBSET Receivers]
  /\ delivered \in [Receivers -> [Receivers -> Nat]]
  /\ expected \in [Receivers -> SUBSET Receivers]

\* mActiveBroadcasts is exactly the number of threads inside broadcastMessage,
\* so a zero read by registerReceiver means that no walk is in progress.
ActiveCountExact == mActiveBroadcasts = Cardinality(Broadcasting)

\* Two calls never change the map at the same time: at most one thread is past
\* pthread_mutex_lock in registerReceiver or unregisterReceiver, and it is the
\* recorded owner of the lock.
OneMapWriter ==
  \A r \in Receivers : pc[r] \in {"spinning", "writing"} <=> mMapLock = r

\* What the spin loop does guarantee: a broadcast that runs while a writer is
\* about to change the map entered after the writer read a zero count.  No
\* broadcast that was running when the writer looked is ever disturbed.
OverlapOnlyLate ==
  \A w, b \in Receivers :
    pc[w] = "writing" /\ pc[b] = "iterating" => b \in late[w]

\* A broadcast under which the map was not written calls receiveMessage exactly
\* once for every receiver with a matching filter when it began, and not at all
\* for the others and for its sender.
ExactDelivery ==
  \A r \in Receivers :
    pc[r] = "iterating" /\ cursor[r] = End /\ ~overlapped[r]
      => \A k \in Receivers : delivered[r][k] = IF k \in expected[r] THEN 1 ELSE 0

\* A broadcast under which the map was not written never stands inside
\* receiveMessage of an object whose destructor has finished.
LiveDispatch ==
  \A r \in Receivers :
    pc[r] = "iterating" /\ cursor[r] \in Receivers /\ ~overlapped[r]
      => alive[cursor[r]]

\* The inductive strengthening of the invariants above.  A walk under which the
\* map was not written has served exactly the subscribers up to its cursor;
\* only living receivers are in the map; and a thread between the calls, or
\* before its check, has no recorded latecomers.
WalkServed(r) ==
  /\ ~torn[r]
  /\ expected[r] = Subscribers(arg[r]) \ {r}
  /\ cursor[r] \in keys \cup {0, End}
  /\ \A k \in Receivers :
       delivered[r][k] = IF k \in expected[r] /\ k <= cursor[r] THEN 1 ELSE 0

WalkExact ==
  \A r \in Receivers : pc[r] = "iterating" /\ ~overlapped[r] => WalkServed(r)

KeysAlive == \A k \in keys : alive[k]

CallsWellFormed ==
  \A r \in Receivers :
    /\ pc[r] = "iterating" => arg[r] \in Messages
    /\ pc[r] \in {"locking", "spinning", "writing"} =>
         arg[r] = Unregister \/ \E F \in FilterLists : arg[r] = Register(F)
    /\ pc[r] # "idle" => alive[r]
    /\ pc[r] # "iterating" =>
         ~torn[r] /\ ~overlapped[r] /\ \A k \in Receivers : delivered[r][k] = 0

\* The inductive invariant of the router: the safety properties with the locking
\* discipline of RegisterClient, UnregisterClient and BroadcastMessage behind them.
RouterInv ==
  /\ TypeOK
  /\ ActiveCountExact
  /\ OneMapWriter
  /\ OverlapOnlyLate
  /\ WalkExact
  /\ KeysAlive
  /\ CallsWellFormed

\* Every broadcastMessage, registerReceiver and unregisterReceiver call returns
\* (once the callers stop making new ones: MaxOps bounds them), whatever the
\* interleaving, unless an invalid iterator kills the process first.
CallsReturn == \A r \in Receivers : pc[r] # "idle" ~> pc[r] = "idle" \/ crashed
=============================================================================
