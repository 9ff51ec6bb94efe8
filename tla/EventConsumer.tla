---------------------------- MODULE EventConsumer ---------------------------
(***************************************************************************)
(* A consumer group running the loop of ConsumerLoop over any handler: the *)
(* handler may return or throw at each attempt, messages may be empty or   *)
(* not parse as JSON, parking may fail, and the process may be killed at   *)
(* any moment and started again.                                           *)
(***************************************************************************)
EXTENDS ConsumerLoop

CONSTANTS
    Events,         \* values that parse as an event envelope
    Malformed,      \* a value that is not JSON
    Empty,          \* a message without a value
    MaxLog,         \* bound: messages per topic
    MaxFaults       \* bound: restarts and failed parkings together

ASSUME EventConsumerAssumption ==
    /\ Malformed \notin Events
    /\ Empty \notin Events \cup {Malformed}
    /\ MaxLog \in Nat
    /\ MaxFaults \in Nat

VARIABLES
    handled,    \* the (topic, offset) pairs a handler returned normally for
    faults      \* restarts and failed parkings so far

vars == <<log, consumerVars, handled, faults>>

Messages == Events \cup {Malformed, Empty}

Init ==
    /\ ConsumerInit
    /\ handled = {}
    /\ faults = 0

-----------------------------------------------------------------------------
\* The environment

Publish(t, m) ==
    /\ Len(log[t]) < MaxLog
    /\ SendTo(t, m)
    /\ UNCHANGED <<consumerVars, handled, faults>>

-----------------------------------------------------------------------------
\* eachMessage

Take(t) == Fetch(t) /\ UNCHANGED <<handled, faults>>

\* "if (!raw) return"
SkipEmpty ==
    /\ handling # NoTopic
    /\ Envelope = Empty
    /\ HandlerReturns
    /\ UNCHANGED <<handled, faults>>

\* Variant for the checks: a value that does not parse is dropped.
ParkMalformedDrops ==
    /\ handling # NoTopic
    /\ Envelope = Malformed
    /\ HandlerReturns
    /\ UNCHANGED <<handled, faults>>

\* JSON.parse threw: parked at once, no handler attempt is made.
ParkMalformed ==
    /\ handling # NoTopic
    /\ Envelope = Malformed
    /\ dlt' = dlt \cup {<<handling, Offset>>}
    /\ Resolve
    /\ UNCHANGED <<log, committed, handled, faults>>

HandlerSucceeds ==
    /\ handling # NoTopic
    /\ Envelope \in Events
    /\ handled' = handled \cup {<<handling, Offset>>}
    /\ HandlerReturns
    /\ UNCHANGED faults

HandlerFails ==
    /\ handling # NoTopic
    /\ Envelope \in Events
    /\ HandlerThrows
    /\ UNCHANGED <<handled, faults>>

ParkingFails ==
    /\ faults < MaxFaults
    /\ handling # NoTopic
    /\ Envelope = Malformed \/ (Envelope \in Events /\ attempt = MaxAttempts)
    /\ Redeliver
    /\ faults' = faults + 1
    /\ UNCHANGED handled

Commit == AutoCommit /\ UNCHANGED <<handled, faults>>

Restart ==
    /\ faults < MaxFaults
    /\ ConsumerRestart
    /\ faults' = faults + 1
    /\ UNCHANGED handled

Next ==
    \/ \E t \in Topics, m \in Messages : Publish(t, m)
    \/ \E t \in Topics : Take(t)
    \/ Commit
    \/ SkipEmpty
    \/ ParkMalformed
    \/ HandlerSucceeds
    \/ HandlerFails
    \/ ParkingFails
    \/ Restart

Spec == Init /\ [][Next]_vars

\* The loop takes some message while there is one, eachMessage keeps running
\* and KafkaJS commits what is resolved.  A handler that throws is not
\* required to recover: parking bounds it.
Fairness ==
    /\ WF_vars(\E t \in Topics : Take(t))
    /\ WF_vars(SkipEmpty \/ ParkMalformed \/ HandlerSucceeds \/ HandlerFails)
    /\ WF_vars(Commit)

FairSpec == Spec /\ Fairness

-----------------------------------------------------------------------------
\* Properties

\* Types, and the order of the three offsets of a topic.
TypeOK ==
    /\ ConsumerTypeOK(Messages)
    /\ OffsetsOK
    /\ handled \subseteq Topics \X Nat
    /\ faults \in 0 .. MaxFaults

Settled(t, i) ==
    <<t, i>> \in handled \/ <<t, i>> \in dlt \/ log[t][i] = Empty

\* No message is dropped: whatever the group has committed was handled or
\* parked, through any number of retries, failed parkings and restarts
\* (EventConsumer's "park rather than silently drop").
NothingDropped ==
    \A t \in Topics : \A i \in 1 .. committed[t] : Settled(t, i)

\* The same for what this process resolved but the broker does not know yet.
ResolvedIsSettled ==
    \A t \in Topics : \A i \in 1 .. position[t] : Settled(t, i)

\* The loop implements the at-least-once promise.
Promise == INSTANCE AtLeastOnce
ImplementsAtLeastOnce == Promise!Spec

\* A poison message does not block its partition: everything published is
\* committed in the end, whatever the handler does ("one poison message
\* doesn't block the partition forever").
EventuallyCommitted ==
    \A t \in Topics : \A i \in 1 .. MaxLog :
        Len(log[t]) >= i ~> committed[t] >= i

=============================================================================
