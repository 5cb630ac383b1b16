------------------------- MODULE StreetsConsumers --------------------------
(***************************************************************************)
(* The CARMA Streets plugin, from Kafka to the RSU: one detached thread    *)
(* per topic polls its consumer and broadcasts what it can convert.  The   *)
(* consumers commit their offsets in the background, the core restarts the *)
(* plugin when it dies, and the broker keeps the records (external).       *)
(***************************************************************************)
EXTENDS Integers, Sequences, FiniteSets, Functions

CONSTANTS
  Topics,      \* a subset of {"plan", "spat", "ssm", "sdsm"}
  PlanRecords, \* plans that are published: sequences of item kinds, or Unparsable
  ItemRecords, \* records of the other topics: one item each
  MaxRecords,  \* bound: records published
  MaxCrashes,  \* bound: deaths of the plugin
  MaxErrors    \* bound: errors of a consumer

Unparsable == <<"unparsable">>
NoOffset == -1

VARIABLES
  log,        \* the records of each topic
  committed,  \* the offset the group committed, or NoOffset
  position,   \* the offset each consumer reads next
  consumer,   \* "new", "running", "stopped": _run and the thread that looks at it
  inHand,     \* whether the thread holds a record it has not dealt with
  plugin,     \* "up" or "down"
  handled,    \* offsets broadcast or counted as skipped
  jumped,     \* offsets an offset reset went past
  dropped,    \* offsets in hand when the plugin died
  skipped,    \* ...MessageSkipped of this process
  crashes, errors  \* so far (bounds)

consVars == <<log, committed, position, consumer, inHand, plugin, handled, jumped, dropped,
              skipped, crashes, errors>>

ConsInit ==
  /\ log = [t \in Topics |-> <<>>]
  /\ committed \in [Topics -> {NoOffset, 0}]
  /\ position = [t \in Topics |-> 0]
  /\ consumer = [t \in Topics |-> "new"]
  /\ inHand = [t \in Topics |-> FALSE]
  /\ plugin = "up"
  /\ handled = [t \in Topics |-> {}]
  /\ jumped = [t \in Topics |-> {}]
  /\ dropped = [t \in Topics |-> {}]
  /\ skipped = [t \in Topics |-> 0]
  /\ crashes = 0 /\ errors = 0

----------------------------------------------------------------------------
(* Conversion: what becomes of a record, item by item *)

\* In the plan, SPaT and SDSM threads a member of the wrong type is an exception that
\* nothing catches.
getEncodedtsm3(item) ==
  CASE item = "good" -> "broadcast" [] item = "unencodable" -> "skip" [] item = "mistyped" -> "crash"

\* A plan without payload is still broadcast once.
SchedulingPlanOutcomes(record) ==
  IF record = Unparsable THEN <<"skip">>
  ELSE LET items == IF record = <<>> THEN <<"good">> ELSE record
       IN [i \in DOMAIN items |-> getEncodedtsm3(items[i])]

convertJson2Spat(item) == IF item = "mistyped" THEN "crash" ELSE "encode"
SpatOutcomes(item) ==
  CASE item = "unparsable" -> "skip"
    [] convertJson2Spat(item) = "crash" -> "crash"
    [] OTHER -> IF item = "unencodable" THEN "skip" ELSE "broadcast"

\* toJ2735SSM leaves out a member of the wrong type, and catches every exception.
toJ2735SSM(item) == IF item = "mistyped" THEN "good" ELSE item
SSMOutcomes(item) ==
  IF item = "unparsable" \/ toJ2735SSM(item) = "unencodable" THEN "skip" ELSE "broadcast"

convertJsonToSDSM(item) == IF item = "mistyped" THEN "crash" ELSE "encode"
SDSMOutcomes(item) ==
  CASE item = "unparsable" -> "skip"
    [] convertJsonToSDSM(item) = "crash" -> "crash"
    [] OTHER -> IF item = "unencodable" THEN "skip" ELSE "broadcast"

\* A record of the other topics is one item.
OutcomesOf(t, record) ==
  CASE t = "plan" -> SchedulingPlanOutcomes(record)
    [] t = "spat" -> [i \in DOMAIN record |-> SpatOutcomes(record[i])]
    [] t = "ssm" -> [i \in DOMAIN record |-> SSMOutcomes(record[i])]
    [] t = "sdsm" -> [i \in DOMAIN record |-> SDSMOutcomes(record[i])]

Crashes(t, record) == "crash" \in Range(OutcomesOf(t, record))
SkippedItems(t, record) == Len(SelectSeq(OutcomesOf(t, record), LAMBDA o : o = "skip"))

----------------------------------------------------------------------------
(* The consumer threads *)

\* Mutant: the consumer starts where create_consumer's cur_offset says, at the end.
StartOffsetEnd(t) == Len(log[t])

\* Without a committed offset a consumer starts at the end of the topic.
StartOffset(t) == IF committed[t] = NoOffset THEN Len(log[t]) ELSE committed[t]

Subscribe(t) ==
  /\ plugin = "up" /\ consumer[t] = "new"
  /\ consumer' = [consumer EXCEPT ![t] = "running"]
  /\ position' = [position EXCEPT ![t] = StartOffset(t)]
  /\ jumped' = [jumped EXCEPT ![t] = @ \cup (IF committed[t] = NoOffset
                                             THEN 1..Len(log[t]) ELSE {})]
  /\ UNCHANGED <<log, committed, inHand, plugin, handled, dropped, skipped, crashes, errors>>

\* consume: the offset moves past the record before the thread deals with it.
Consume(t) ==
  /\ consumer[t] = "running" /\ ~inHand[t] /\ position[t] < Len(log[t])
  /\ position' = [position EXCEPT ![t] = @ + 1]
  /\ inHand' = [inHand EXCEPT ![t] = TRUE]
  /\ UNCHANGED <<log, committed, consumer, plugin, handled, jumped, dropped, skipped, crashes,
                 errors>>

RecordInHand(t) == IF inHand[t] THEN {position[t]} ELSE {}

\* The process dies: every thread of it, and what they counted.
Die ==
  /\ plugin' = "down" /\ crashes' = crashes + 1
  /\ dropped' = [u \in Topics |-> dropped[u] \cup RecordInHand(u)]
  /\ consumer' = [u \in Topics |-> "new"]
  /\ inHand' = [u \in Topics |-> FALSE]
  /\ skipped' = [u \in Topics |-> 0]
  /\ position' = [u \in Topics |-> 0]

HandleRecord(t) ==
  /\ inHand[t]
  /\ LET record == log[t][position[t]] IN
     IF Crashes(t, record)
     THEN /\ crashes < MaxCrashes /\ Die
          /\ UNCHANGED <<log, committed, handled, jumped, errors>>
     ELSE /\ handled' = [handled EXCEPT ![t] = @ \cup {position[t]}]
          /\ skipped' = [skipped EXCEPT ![t] = @ + SkippedItems(t, record)]
          /\ inHand' = [inHand EXCEPT ![t] = FALSE]
          /\ UNCHANGED <<log, committed, position, consumer, plugin, jumped, dropped, crashes,
                         errors>>

\* Any error but a timeout, the end of the partition or an unknown topic closes the
\* consumer and ends its thread.
ConsumeError(t) ==
  /\ consumer[t] = "running" /\ ~inHand[t] /\ errors < MaxErrors
  /\ errors' = errors + 1
  /\ consumer' = [consumer EXCEPT ![t] = "stopped"]
  /\ UNCHANGED <<log, committed, position, inHand, plugin, handled, jumped, dropped, skipped,
                 crashes>>

----------------------------------------------------------------------------
(* The broker, the background commit, and the core that restarts the plugin *)

PublishRecord(t) ==
  /\ Cardinality(UNION {{t2} \X (1..Len(log[t2])) : t2 \in Topics}) < MaxRecords
  /\ \E r \in (IF t = "plan" THEN PlanRecords ELSE ItemRecords) : log' = [log EXCEPT ![t] = Append(@, r)]
  /\ UNCHANGED <<committed, position, consumer, inHand, plugin, handled, jumped, dropped,
                 skipped, crashes, errors>>

\* Every few seconds, and at close: what consume returned, dealt with or not.
AutoCommit(t) ==
  /\ consumer[t] \in {"running", "stopped"} /\ committed[t] # position[t]
  /\ committed' = [committed EXCEPT ![t] = position[t]]
  /\ UNCHANGED <<log, position, consumer, inHand, plugin, handled, jumped, dropped, skipped,
                 crashes, errors>>

Killed ==
  /\ plugin = "up" /\ crashes < MaxCrashes /\ Die
  /\ UNCHANGED <<log, committed, handled, jumped, errors>>

Restart ==
  /\ plugin = "down" /\ plugin' = "up"
  /\ UNCHANGED <<log, committed, position, consumer, inHand, handled, jumped, dropped,
                 skipped, crashes, errors>>

ConsumerThread(t) == Subscribe(t) \/ Consume(t) \/ HandleRecord(t)

ConsNext ==
  \/ \E t \in Topics :
       \/ ConsumerThread(t) \/ ConsumeError(t)
       \/ PublishRecord(t) \/ AutoCommit(t)
  \/ Killed
  \/ Restart

ConsSpec == ConsInit /\ [][ConsNext]_consVars

----------------------------------------------------------------------------
(* Properties *)

Unhandled(t) == {o \in 1..position[t] : o \notin handled[t] \cup jumped[t]}

\* Offsets are committed before a record is dealt with, so a death of the plugin may lose
\* the one record a thread has in hand, and no other: whatever was read is handled, or is
\* in hand, or was in hand when the plugin died, and whatever was published while the
\* plugin was down is read after the restart.
LostOnlyInHand ==
  \A t \in Topics :
    consumer[t] = "running" => Unhandled(t) \subseteq dropped[t] \cup RecordInHand(t)

=============================================================================
