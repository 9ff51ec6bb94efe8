---------------------------- MODULE ConsumerLoop ----------------------------
(***************************************************************************)
(* The Kafka consumer loop every RydTrip service is built on: the class    *)
(* EventConsumer of libraries/event-schema over a KafkaJS consumer group.  *)
(*                                                                         *)
(* One process handles one message at a time (KafkaJS handles the fetched  *)
(* partitions of a member one after the other), in offset order within a   *)
(* topic and in any order between topics.  Every topic has one partition.  *)
(* A handler runs at most MaxAttempts times; when the last attempt throws, *)
(* the message is parked on the Dead Letter Topic and the loop moves on.   *)
(* Offsets are committed automatically, some time after the message was    *)
(* resolved, so a restart handles again what was not committed.            *)
(*                                                                         *)
(* The module has the loop's state and one operator per way a step of the  *)
(* loop can end; a service EXTENDS it and conjoins its handlers' effects.  *)
(***************************************************************************)
EXTENDS Naturals, Sequences

CONSTANTS
    Topics,         \* the topics this consumer group subscribes to
    NoTopic,        \* "no message is being handled"
    MaxAttempts     \* RetryOptions.maxAttempts, 3 in the code

ASSUME ConsumerAssumption ==
    /\ NoTopic \notin Topics
    /\ MaxAttempts \in Nat \ {0}

VARIABLES
    log,        \* topic -> everything published on it, in offset order
    position,   \* topic -> how many of its messages this process resolved
    committed,  \* topic -> the group's committed offset, kept by the broker
    handling,   \* the topic whose next message is being handled, or NoTopic
    attempt,    \* which attempt the handler is on, 0 when there is none
    dlt         \* the (topic, offset) pairs parked on the Dead Letter Topic

consumerVars == <<position, committed, handling, attempt, dlt>>

ConsumerInit ==
    /\ log = [t \in Topics |-> << >>]
    /\ position = [t \in Topics |-> 0]
    /\ committed = [t \in Topics |-> 0]
    /\ handling = NoTopic
    /\ attempt = 0
    /\ dlt = {}

\* The message being handled, and where it sits.
Offset == position[handling] + 1
Envelope == log[handling][Offset]

\* producer.send: the broker appends.
SendTo(t, envelope) == log' = [log EXCEPT ![t] = Append(@, envelope)]

\* KafkaJS hands the next unresolved message of topic t to eachMessage.
Fetch(t) ==
    /\ handling = NoTopic
    /\ position[t] < Len(log[t])
    /\ handling' = t
    /\ attempt' = 1
    /\ UNCHANGED <<log, position, committed, dlt>>

\* eachMessage returns: the offset is resolved and the loop is free.
Resolve ==
    /\ position' = [position EXCEPT ![handling] = @ + 1]
    /\ handling' = NoTopic
    /\ attempt' = 0

\* The handler returned normally.
HandlerReturns ==
    /\ handling # NoTopic
    /\ Resolve
    /\ UNCHANGED <<log, committed, dlt>>

\* Variant for the checks: after the last attempt the count starts over.
HandlerThrowsForever ==
    /\ handling # NoTopic
    /\ attempt' = IF attempt < MaxAttempts THEN attempt + 1 ELSE 1
    /\ UNCHANGED <<log, position, committed, handling, dlt>>

\* Variant for the checks: one attempt too many.
HandlerThrowsOnceMore ==
    /\ handling # NoTopic
    /\ \/ /\ attempt <= MaxAttempts
          /\ attempt' = attempt + 1
          /\ UNCHANGED <<position, handling, dlt>>
       \/ /\ attempt > MaxAttempts
          /\ dlt' = dlt \cup {<<handling, Offset>>}
          /\ Resolve
    /\ UNCHANGED <<log, committed>>

\* Variant for the checks: the last attempt gives up without parking.
HandlerThrowsDrops ==
    /\ handling # NoTopic
    /\ \/ /\ attempt < MaxAttempts
          /\ attempt' = attempt + 1
          /\ UNCHANGED <<position, handling>>
       \/ /\ attempt = MaxAttempts
          /\ Resolve
    /\ UNCHANGED <<log, committed, dlt>>

\* The handler threw: sleep and try again, or park when it was the last try.
HandlerThrows ==
    /\ handling # NoTopic
    /\ \/ /\ attempt < MaxAttempts
          /\ attempt' = attempt + 1
          /\ UNCHANGED <<position, handling, dlt>>
       \/ /\ attempt = MaxAttempts
          /\ dlt' = dlt \cup {<<handling, Offset>>}
          /\ Resolve
    /\ UNCHANGED <<log, committed>>

\* eachMessage itself throws because parkOnDlq failed: KafkaJS delivers the
\* same message again and its attempts start over.
Redeliver ==
    /\ handling # NoTopic
    /\ handling' = NoTopic
    /\ attempt' = 0
    /\ UNCHANGED <<log, position, committed, dlt>>

\* KafkaJS's default auto-commit: the resolved offsets of all topics at once.
AutoCommit ==
    /\ committed # position
    /\ committed' = position
    /\ UNCHANGED <<log, position, handling, attempt, dlt>>

\* The process dies and a new one resumes from the committed offsets.
ConsumerRestart ==
    /\ position' = committed
    /\ handling' = NoTopic
    /\ attempt' = 0
    /\ UNCHANGED <<log, committed, dlt>>

-----------------------------------------------------------------------------

ConsumerTypeOK(Envelopes) ==
    /\ log \in [Topics -> Seq(Envelopes)]
    /\ position \in [Topics -> Nat]
    /\ committed \in [Topics -> Nat]
    /\ handling \in Topics \cup {NoTopic}
    /\ attempt \in 0 .. MaxAttempts
    /\ dlt \subseteq Topics \X Nat

\* How the three offsets of a topic, and the message in hand, are related.
OffsetsOK ==
    /\ \A t \in Topics : committed[t] <= position[t] /\ position[t] <= Len(log[t])
    /\ handling \in Topics => position[handling] < Len(log[handling])
    /\ handling = NoTopic <=> attempt = 0

=============================================================================
