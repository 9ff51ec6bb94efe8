------------------------- MODULE ConsumerLoopProofs -------------------------
(***************************************************************************)
(* What each step of the consumer loop preserves, whatever the service and *)
(* its envelopes are.  The proofs about the services cite these lemmas.    *)
(***************************************************************************)
EXTENDS ConsumerLoop, SequenceTheorems, TLAPS

LoopInv(Envelopes) == ConsumerTypeOK(Envelopes) /\ OffsetsOK

\* The loop starts with every offset at zero.
LEMMA LoopInit ==
    ASSUME NEW E, ConsumerInit
    PROVE  LoopInv(E)
BY ConsumerAssumption DEF ConsumerInit, LoopInv, ConsumerTypeOK, OffsetsOK

\* Appending to a topic disturbs no offset and no earlier message.
LEMMA LoopSend ==
    ASSUME NEW E, LoopInv(E), NEW t \in Topics, NEW e \in E,
           SendTo(t, e), UNCHANGED consumerVars
    PROVE  /\ LoopInv(E)'
           /\ \A u \in Topics : /\ Len(log'[u]) = Len(log[u]) + (IF u = t THEN 1 ELSE 0)
                                /\ \A i \in 1 .. Len(log[u]) : log'[u][i] = log[u][i]
           /\ log'[t][Len(log[t]) + 1] = e
BY AppendProperties DEF LoopInv, ConsumerTypeOK, OffsetsOK, SendTo, consumerVars

\* Taking a message.
LEMMA LoopFetch ==
    ASSUME NEW E, LoopInv(E), NEW t \in Topics, Fetch(t)
    PROVE  LoopInv(E)'
BY ConsumerAssumption DEF LoopInv, ConsumerTypeOK, OffsetsOK, Fetch

\* Resolving the message in hand, parked or not.
LEMMA LoopResolve ==
    ASSUME NEW E, LoopInv(E), handling # NoTopic, Resolve,
           UNCHANGED <<log, committed>>,
           dlt' \in {dlt, dlt \cup {<<handling, Offset>>}}
    PROVE  LoopInv(E)'
BY ConsumerAssumption DEF LoopInv, ConsumerTypeOK, OffsetsOK, Resolve, Offset

LEMMA LoopReturns ==
    ASSUME NEW E, LoopInv(E), HandlerReturns
    PROVE  LoopInv(E)'
BY LoopResolve DEF HandlerReturns

\* A failed attempt, the last one included.
LEMMA LoopThrows ==
    ASSUME NEW E, LoopInv(E), HandlerThrows
    PROVE  LoopInv(E)'
<1>1. CASE attempt < MaxAttempts
  BY <1>1, ConsumerAssumption
  DEF HandlerThrows, LoopInv, ConsumerTypeOK, OffsetsOK
<1>2. CASE attempt = MaxAttempts
  <2>1. /\ handling # NoTopic
        /\ dlt' = dlt \cup {<<handling, Offset>>}
        /\ Resolve
        /\ UNCHANGED <<log, committed>>
    BY <1>2, ConsumerAssumption DEF HandlerThrows
  <2> QED BY <2>1, LoopResolve
<1> QED BY <1>1, <1>2 DEF HandlerThrows

LEMMA LoopRedeliver ==
    ASSUME NEW E, LoopInv(E), Redeliver
    PROVE  LoopInv(E)'
BY ConsumerAssumption DEF LoopInv, ConsumerTypeOK, OffsetsOK, Redeliver

LEMMA LoopAutoCommit ==
    ASSUME NEW E, LoopInv(E), AutoCommit
    PROVE  LoopInv(E)'
BY DEF LoopInv, ConsumerTypeOK, OffsetsOK, AutoCommit

LEMMA LoopRestart ==
    ASSUME NEW E, LoopInv(E), ConsumerRestart
    PROVE  LoopInv(E)'
BY ConsumerAssumption DEF LoopInv, ConsumerTypeOK, OffsetsOK, ConsumerRestart

LEMMA LoopStutter ==
    ASSUME NEW E, LoopInv(E), UNCHANGED <<log, consumerVars>>
    PROVE  LoopInv(E)'
BY DEF LoopInv, ConsumerTypeOK, OffsetsOK, consumerVars

=============================================================================
