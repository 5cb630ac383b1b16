-------------------------- MODULE StreetsProducer --------------------------
(***************************************************************************)
(* The CARMA Streets plugin, from the hub to Kafka: the message thread     *)
(* converts each message and hands the records to the producer, whose      *)
(* topic handle is replaced when the topic changes.  librdkafka (external) *)
(* keeps a queue of each topic and counts, up to a limit, the records that *)
(* wait to be sent and those whose delivery report nobody has fetched yet. *)
(***************************************************************************)
EXTENDS Integers, Sequences

CONSTANTS
  Kinds,         \* kinds of message, a subset of those of TopicOf
  QueueLimit,    \* queue.buffering.max.messages
  MaxHubMessages,  \* bound: messages of the hub
  MaxUndelivered   \* bound: records that librdkafka refuses or the broker never takes

NoTopic == "none"

VARIABLES
  toSend,     \* records the handler still has to send
  sending,    \* the record send() is at, or <<>>
  topicHandle,  \* _topic
  rdQueue,    \* librdkafka's queue of each topic
  outstanding,  \* its count of records waiting, or sent and not fetched
  unfetched,  \* delivery reports that nobody has fetched
  settled,    \* records of each topic that were received or timed out, in order
  produced,   \* records handed to send for each topic and not refused, in order
  undelivered,  \* records refused or timed out (bound)
  hubCount    \* messages so far (bound)

prodVars == <<toSend, sending, topicHandle, rdQueue, outstanding, unfetched, settled, produced,
              undelivered, hubCount>>

TopicOf ==
  [bsm |-> "v2xhub_bsm_in", operation |-> "v2xhub_mobility_operation_in",
   path |-> "v2xhub_mobility_path_in", map |-> "v2xhub_map_msg_in", srm |-> "v2xhub_srm_in",
   sensor |-> "v2xhub_sim_sensor_detected_object", time |-> "time_sync"]

ASSUME KindsAssumption == Kinds \subseteq DOMAIN TopicOf

KafkaTopics == {TopicOf[k] : k \in Kinds}

ProdInit ==
  /\ toSend = <<>> /\ sending = <<>>
  /\ topicHandle = NoTopic
  /\ rdQueue = [t \in KafkaTopics |-> <<>>]
  /\ outstanding = 0 /\ unfetched = 0
  /\ settled = [t \in KafkaTopics |-> <<>>]
  /\ produced = [t \in KafkaTopics |-> <<>>]
  /\ undelivered = 0 /\ hubCount = 0

----------------------------------------------------------------------------
(* The handlers: how many records a message becomes *)

HandleMobilityOperationMessage == {0, 1}  \* none if it is not one of the strategies
HandleMobilityPathMessage == {1}
HandleSRMMessage == {0, 1, 2}             \* one per request, none if it has none
HandleBasicSafetyMessage == {1}
HandleMapMessage == {1}
HandleSimulatedSensorDetectedMessage == {1}
HandleTimeSyncMessage == {0, 1}           \* only in simulation

\* A message of the first four kinds that cannot be decoded is counted and skipped.
RecordsOf(kind) ==
  CASE kind = "operation" -> HandleMobilityOperationMessage
    [] kind = "path" -> HandleMobilityPathMessage \cup {0}
    [] kind = "srm" -> HandleSRMMessage
    [] kind = "bsm" -> HandleBasicSafetyMessage \cup {0}
    [] kind = "map" -> HandleMapMessage
    [] kind = "sensor" -> HandleSimulatedSensorDetectedMessage
    [] kind = "time" -> HandleTimeSyncMessage

HandleMessage(kind) ==
  /\ toSend = <<>> /\ sending = <<>> /\ hubCount < MaxHubMessages
  /\ hubCount' = hubCount + 1
  /\ \E n \in RecordsOf(kind) :
       toSend' = [i \in 1..n |-> [topic |-> TopicOf[kind], id |-> <<hubCount, i>>]]
  /\ UNCHANGED <<sending, topicHandle, rdQueue, outstanding, unfetched, settled, produced,
                 undelivered>>

----------------------------------------------------------------------------
(* kafka_producer_worker *)

\* The handle of another topic is deleted and a new one made.
HandleFor(topic) == IF topicHandle # topic THEN topic ELSE topicHandle

SendToTopic ==
  /\ sending = <<>> /\ toSend # <<>>
  /\ sending' = <<Head(toSend)>> /\ toSend' = Tail(toSend)
  /\ topicHandle' = HandleFor(Head(toSend).topic)
  /\ produced' = [produced EXCEPT ![Head(toSend).topic] = Append(@, Head(toSend))]
  /\ UNCHANGED <<rdQueue, outstanding, unfetched, settled, undelivered, hubCount>>

\* The record joins the queue of the topic _topic is a handle of.
Queued == rdQueue' = [rdQueue EXCEPT ![topicHandle] = Append(@, sending[1])]

\* Poll fetches the delivery reports; n records are counted without them.
Poll(n) == outstanding' = n - unfetched /\ unfetched' = 0

\* Mutant: a full queue drops the record.
SendDrops ==
  /\ sending # <<>>
  /\ IF outstanding < QueueLimit
     THEN Queued /\ Poll(outstanding + 1)
     ELSE UNCHANGED rdQueue /\ Poll(outstanding)
  /\ sending' = <<>>
  /\ UNCHANGED <<toSend, topicHandle, settled, produced, undelivered, hubCount>>

\* The record being sent is given up.
GivenUp ==
  /\ undelivered < MaxUndelivered /\ undelivered' = undelivered + 1
  /\ produced' = [produced EXCEPT ![sending[1].topic] = SubSeq(@, 1, Len(@) - 1)]

\* One turn of the loop: produce, or poll and try again when the queue is full; any
\* other error ends the loop.
Send ==
  /\ sending # <<>>
  /\ \/ /\ outstanding < QueueLimit
        /\ Queued /\ Poll(outstanding + 1)
        /\ sending' = <<>>
        /\ UNCHANGED <<produced, undelivered>>
     \/ /\ outstanding >= QueueLimit
        /\ Poll(outstanding)
        /\ UNCHANGED <<sending, rdQueue, produced, undelivered>>
     \/ /\ outstanding < QueueLimit
        /\ GivenUp /\ Poll(outstanding)
        /\ sending' = <<>>
        /\ UNCHANGED rdQueue
  /\ UNCHANGED <<toSend, topicHandle, settled, hubCount>>

\* The broker takes the first record of a topic, or the record times out.
Deliver ==
  \E t \in KafkaTopics, delivered \in BOOLEAN :
    /\ rdQueue[t] # <<>>
    /\ delivered \/ undelivered < MaxUndelivered
    /\ settled' = [settled EXCEPT ![t] = Append(@, Head(rdQueue[t]))]
    /\ rdQueue' = [rdQueue EXCEPT ![t] = Tail(@)]
    /\ unfetched' = unfetched + 1
    /\ undelivered' = IF delivered THEN undelivered ELSE undelivered + 1
    /\ UNCHANGED <<toSend, sending, topicHandle, outstanding, produced, hubCount>>

MessageThread == SendToTopic \/ Send

ProdNext == (\E k \in Kinds : HandleMessage(k)) \/ SendToTopic \/ Send \/ Deliver

ProdSpec == ProdInit /\ [][ProdNext]_prodVars

----------------------------------------------------------------------------
(* Properties *)

SendingFor(t) == IF sending # <<>> /\ sending[1].topic = t THEN sending ELSE <<>>

\* Every record reaches the topic its handler chose, once and in the order the handlers
\* made them, through every change of the topic handle and every full queue, unless
\* librdkafka refuses it: what a topic received or lost for want of a broker, what waits
\* for it and what is being sent is what was produced for it.
EachTopicInOrder ==
  \A t \in KafkaTopics : settled[t] \o rdQueue[t] \o SendingFor(t) = produced[t]

=============================================================================
