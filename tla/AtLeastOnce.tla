----------------------------- MODULE AtLeastOnce ----------------------------
(***************************************************************************)
(* What a consumer group built on EventConsumer promises its broker,       *)
(* without saying how: every message of a topic is settled, that is handed *)
(* to a handler that returned, parked on the Dead Letter Topic, or empty;  *)
(* messages of a topic are settled in offset order; and the committed      *)
(* offset never passes a message that is not settled.  A settled message   *)
(* may be handled again: that is what "at least once" allows.              *)
(***************************************************************************)
EXTENDS Naturals, Sequences

CONSTANTS Topics, Messages, Empty

VARIABLES log, committed, handled, dlt

vars == <<log, committed, handled, dlt>>

Settled(t, i) ==
    <<t, i>> \in handled \/ <<t, i>> \in dlt \/ log[t][i] = Empty

\* Message i of topic t may be worked on once everything before it is settled.
InTurn(t, i) ==
    /\ i \in 1 .. Len(log[t])
    /\ \A j \in 1 .. i - 1 : Settled(t, j)

Init ==
    /\ log = [t \in Topics |-> << >>]
    /\ committed = [t \in Topics |-> 0]
    /\ handled = {}
    /\ dlt = {}

Publish(t, m) ==
    /\ log' = [log EXCEPT ![t] = Append(@, m)]
    /\ UNCHANGED <<committed, handled, dlt>>

Handle(t, i) ==
    /\ InTurn(t, i)
    /\ handled' = handled \cup {<<t, i>>}
    /\ UNCHANGED <<log, committed, dlt>>

Park(t, i) ==
    /\ InTurn(t, i)
    /\ dlt' = dlt \cup {<<t, i>>}
    /\ UNCHANGED <<log, committed, handled>>

\* Offsets only grow, and only over settled messages.
Commit ==
    /\ committed' \in [Topics -> Nat]
    /\ \A t \in Topics :
         /\ committed'[t] \in committed[t] .. Len(log[t])
         /\ \A i \in 1 .. committed'[t] : Settled(t, i)
    /\ UNCHANGED <<log, handled, dlt>>

Next ==
    \/ \E t \in Topics :
         \/ \E m \in Messages : Publish(t, m)
         \/ \E i \in 1 .. Len(log[t]) : Handle(t, i) \/ Park(t, i)
    \/ Commit

Spec == Init /\ [][Next]_vars

=============================================================================
