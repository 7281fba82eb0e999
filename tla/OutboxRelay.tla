------------------------------ MODULE OutboxRelay ------------------------------
(***************************************************************************)
(* The Outbox Relay (outbox_relay/relay.py) and the job.queued topic it    *)
(* publishes to.  A message carries a job id and nothing else, so the      *)
(* topic is the number of undelivered messages of each job.                *)
(***************************************************************************)
EXTENDS JobStore

CONSTANT MaxTopic   \* bound on the messages of one job waiting in the topic

ASSUME MaxTopicPositive == MaxTopic \in Nat \ {0}

VARIABLES
    topic,          \* Kafka: messages of each job not yet consumed
    relay           \* the job whose message was sent and is not yet marked

RelayInit ==
    /\ topic = [j \in Jobs |-> 0]
    /\ relay = None

\* Broker side of a publish or of a redelivery.
Deliver(j) ==
    /\ topic[j] < MaxTopic
    /\ topic' = [topic EXCEPT ![j] = topic[j] + 1]

\* producer.send(...).get(): the broker has acknowledged the message.
Publish(j) ==
    /\ relay = None
    /\ outbox[j] > 0
    /\ Deliver(j)
    /\ relay' = j
    /\ UNCHANGED storeVars

\* mark_published, committed in its own transaction.
MarkPublished ==
    /\ relay # None
    /\ outbox' = [outbox EXCEPT ![relay] = outbox[relay] - 1]
    /\ relay' = None
    /\ UNCHANGED <<jobs, reservations, capacity, attempts, dlq, decisions, topic>>

\* The relay dies between the two (or send's ack times out): the row stays
\* unpublished and is sent again.
RelayCrash ==
    /\ relay # None
    /\ relay' = None
    /\ UNCHANGED <<storeVars, topic>>

RelayStep == (\E j \in Jobs : Publish(j)) \/ MarkPublished
=============================================================================
