--------------------------- MODULE DlqReplayProofs --------------------------
(***************************************************************************)
(* Theorems about EventConsumer and about DlqReplay, which adds the replay *)
(* tool to it, for every set of topics and events and every bound.  Of the *)
(* consumer: its type invariant, that no message is dropped, and that it   *)
(* implements the at-least-once promise of AtLeastOnce.  With the tool     *)
(* running: the group still loses nothing, and the tool, if no send of its *)
(* throws, replays what was on the Dead Letter Topic when it started.      *)
(***************************************************************************)
EXTENDS DlqReplay, ConsumerLoopProofs

-----------------------------------------------------------------------------
\* The consumer loop

\* What one process resolved is settled, so what it commits is settled: the
\* inductive invariant behind every theorem of this module.
ConsumerInv == TypeOK /\ ResolvedIsSettled

LEMMA InitInv == Init => ConsumerInv
<1> SUFFICES ASSUME Init PROVE ConsumerInv
  OBVIOUS
<1>1. LoopInv(Messages)
  BY LoopInit DEF Init
<1>2. TypeOK
  BY <1>1, EventConsumerAssumption DEF Init, TypeOK, LoopInv
<1>3. ResolvedIsSettled
  BY DEF Init, ConsumerInit, ResolvedIsSettled
<1> QED BY <1>2, <1>3 DEF ConsumerInv

\* A step that only adds to handled and dlt, and resolves at most the message
\* in hand once that is settled, keeps what is resolved settled.
LEMMA SettledGrows ==
    ASSUME ConsumerInv, UNCHANGED log, handled \subseteq handled', dlt \subseteq dlt',
           position' \in [Topics -> Nat],
           \/ \A t \in Topics : position'[t] <= position[t]
           \/ /\ handling \in Topics
              /\ position' = [position EXCEPT ![handling] = @ + 1]
              /\ \/ <<handling, Offset>> \in handled' \cup dlt'
                 \/ log[handling][Offset] = Empty
    PROVE  ResolvedIsSettled'
<1> SUFFICES ASSUME NEW t \in Topics, NEW i \in 1 .. position'[t]
             PROVE  Settled(t, i)'
  BY DEF ResolvedIsSettled
<1>1. Settled(t, i) => Settled(t, i)'
  BY DEF Settled
<1>2. i <= position[t] => Settled(t, i)
  BY DEF ConsumerInv, ResolvedIsSettled, TypeOK, ConsumerTypeOK
<1>3. position \in [Topics -> Nat]
  BY DEF ConsumerInv, TypeOK, ConsumerTypeOK
<1>4. ASSUME i > position[t] PROVE Settled(t, i)'
  <2>1. t = handling /\ i = Offset
    BY <1>3, <1>4 DEF Offset
  <2> QED BY <2>1, <1>3, <1>4 DEF Settled
<1> QED BY <1>1, <1>2, <1>3, <1>4

\* Every step of the loop preserves the invariant.
LEMMA NextInv == ConsumerInv /\ [Next]_vars => ConsumerInv'
<1> SUFFICES ASSUME ConsumerInv, [Next]_vars PROVE ConsumerInv'
  OBVIOUS
<1> USE DEF ConsumerInv
<1>0. LoopInv(Messages) /\ position \in [Topics -> Nat]
  BY DEF TypeOK, LoopInv, ConsumerTypeOK
<1>T. LoopInv(Messages)' /\ handled' \subseteq Topics \X Nat /\ faults' \in 0 .. MaxFaults
      => TypeOK' /\ position' \in [Topics -> Nat]
  BY DEF TypeOK, LoopInv, ConsumerTypeOK
<1>1. ASSUME NEW t \in Topics, NEW m \in Messages, Publish(t, m) PROVE ConsumerInv'
  <2>1. /\ LoopInv(Messages)'
        /\ \A u \in Topics : \A i \in 1 .. Len(log[u]) : log'[u][i] = log[u][i]
    BY <1>0, <1>1, LoopSend DEF Publish
  <2>2. \A u \in Topics : position[u] <= Len(log[u])
    BY DEF TypeOK, OffsetsOK
  <2>3. ASSUME NEW u \in Topics, NEW i \in 1 .. position'[u] PROVE Settled(u, i)'
    <3>1. i \in 1 .. position[u] /\ i \in 1 .. Len(log[u])
      BY <1>0, <1>1, <2>2, LenProperties DEF Publish, consumerVars, TypeOK, ConsumerTypeOK
    <3>2. Settled(u, i) /\ log'[u][i] = log[u][i]
      BY <2>1, <3>1 DEF ResolvedIsSettled
    <3> QED BY <1>1, <3>2 DEF Publish, consumerVars, Settled
  <2>4. ResolvedIsSettled'
    BY <2>3 DEF ResolvedIsSettled
  <2> QED BY <2>1, <2>4, <1>1, <1>T DEF Publish, TypeOK
<1>2. ASSUME NEW t \in Topics, Take(t) PROVE ConsumerInv'
  <2>1. TypeOK' /\ position' \in [Topics -> Nat]
    BY <1>0, <1>2, <1>T, LoopFetch DEF Take, TypeOK
  <2> QED BY <1>0, <1>2, <2>1, SettledGrows DEF Take, Fetch
<1>3. CASE Commit
  <2>1. TypeOK' /\ position' \in [Topics -> Nat]
    BY <1>0, <1>3, <1>T, LoopAutoCommit DEF Commit, TypeOK
  <2> QED BY <1>0, <1>3, <2>1, SettledGrows DEF Commit, AutoCommit
<1>4. CASE SkipEmpty
  <2>1. TypeOK' /\ position' \in [Topics -> Nat]
    BY <1>0, <1>4, <1>T, LoopReturns DEF SkipEmpty, TypeOK
  <2>2. handling \in Topics
    BY <1>4 DEF SkipEmpty, TypeOK, ConsumerTypeOK
  <2> QED BY <1>4, <2>1, <2>2, SettledGrows DEF SkipEmpty, HandlerReturns, Resolve, Envelope
<1>5. CASE ParkMalformed
  <2>1. TypeOK' /\ position' \in [Topics -> Nat]
    BY <1>0, <1>5, <1>T, LoopResolve DEF ParkMalformed, TypeOK
  <2>2. handling \in Topics
    BY <1>5 DEF ParkMalformed, TypeOK, ConsumerTypeOK
  <2> QED BY <1>5, <2>1, <2>2, SettledGrows DEF ParkMalformed, Resolve
<1>6. CASE HandlerSucceeds
  <2>1. handling \in Topics /\ Offset \in Nat
    BY <1>0, <1>6 DEF HandlerSucceeds, TypeOK, ConsumerTypeOK, Offset
  <2>2. TypeOK' /\ position' \in [Topics -> Nat]
    BY <1>0, <1>6, <2>1, <1>T, LoopReturns DEF HandlerSucceeds, TypeOK
  <2> QED BY <1>6, <2>1, <2>2, SettledGrows DEF HandlerSucceeds, HandlerReturns, Resolve
<1>7. CASE HandlerFails
  <2>1. TypeOK' /\ position' \in [Topics -> Nat]
    BY <1>0, <1>7, <1>T, LoopThrows DEF HandlerFails, TypeOK
  <2>2. handling \in Topics
    BY <1>7 DEF HandlerFails, TypeOK, ConsumerTypeOK
  <2> QED BY <1>0, <1>7, <2>1, <2>2, SettledGrows DEF HandlerFails, HandlerThrows, Resolve
<1>8. CASE ParkingFails
  <2>1. TypeOK' /\ position' \in [Topics -> Nat]
    BY <1>0, <1>8, <1>T, LoopRedeliver, EventConsumerAssumption DEF ParkingFails, TypeOK
  <2> QED BY <1>0, <1>8, <2>1, SettledGrows DEF ParkingFails, Redeliver
<1>9. CASE Restart
  <2>1. TypeOK' /\ position' \in [Topics -> Nat]
    BY <1>0, <1>9, <1>T, LoopRestart, EventConsumerAssumption DEF Restart, TypeOK
  <2>2. \A t \in Topics : committed[t] <= position[t]
    BY DEF TypeOK, OffsetsOK
  <2> QED BY <1>9, <2>1, <2>2, SettledGrows DEF Restart, ConsumerRestart
<1>10. CASE UNCHANGED vars
  <2>1. TypeOK' /\ position' \in [Topics -> Nat]
    BY <1>0, <1>10, <1>T, LoopStutter DEF vars, TypeOK
  <2> QED BY <1>0, <1>10, <2>1, SettledGrows DEF vars, consumerVars
<1> QED BY <1>1, <1>2, <1>3, <1>4, <1>5, <1>6, <1>7, <1>8, <1>9, <1>10 DEF Next

-----------------------------------------------------------------------------

\* Types and the order of the offsets hold in every reachable state.
THEOREM TypeCorrect == Spec => []TypeOK
<1>1. ConsumerInv => TypeOK
  BY DEF ConsumerInv
<1> QED BY <1>1, InitInv, NextInv, PTL DEF Spec

\* No committed message is dropped: it was handled, parked, or empty.
THEOREM NothingIsDropped == Spec => []NothingDropped
<1>1. ConsumerInv => NothingDropped
  BY DEF ConsumerInv, TypeOK, ConsumerTypeOK, OffsetsOK, ResolvedIsSettled, NothingDropped
<1> QED BY <1>1, InitInv, NextInv, PTL DEF Spec

-----------------------------------------------------------------------------
\* Refinement: every step of the loop is a step of AtLeastOnce or a stutter.

LEMMA PromiseInit == Init => Promise!Init
BY DEF Init, ConsumerInit, Promise!Init

\* The message in hand is one the promise lets a consumer work on.
LEMMA InHandIsInTurn ==
    ASSUME ConsumerInv, handling # NoTopic
    PROVE  /\ handling \in Topics
           /\ Offset \in 1 .. Len(log[handling])
           /\ Promise!InTurn(handling, Offset)
<1>1. handling \in Topics /\ position[handling] \in Nat
  BY DEF ConsumerInv, TypeOK, ConsumerTypeOK
<1>2. Offset \in 1 .. Len(log[handling])
  BY <1>1, LenProperties DEF ConsumerInv, TypeOK, ConsumerTypeOK, OffsetsOK, Offset
<1>3. \A j \in 1 .. Offset - 1 : Promise!Settled(handling, j)
  BY <1>1 DEF ConsumerInv, ResolvedIsSettled, Settled, Promise!Settled, Offset
<1> QED BY <1>1, <1>2, <1>3 DEF Promise!InTurn

LEMMA PromiseNext == ConsumerInv /\ [Next]_vars => [Promise!Next]_(Promise!vars)
<1> SUFFICES ASSUME ConsumerInv, [Next]_vars PROVE [Promise!Next]_(Promise!vars)
  OBVIOUS
<1> USE DEF Promise!vars
<1>1. ASSUME NEW t \in Topics, NEW m \in Messages, Publish(t, m) PROVE Promise!Next
  BY <1>1 DEF Publish, SendTo, consumerVars, Promise!Publish, Promise!Next
<1>2. ASSUME NEW t \in Topics, Take(t) PROVE UNCHANGED Promise!vars
  BY <1>2 DEF Take, Fetch
<1>3. CASE Commit
  <2>1. committed' = position /\ UNCHANGED <<log, handled, dlt>>
    BY <1>3 DEF Commit, AutoCommit
  <2>2. \A t \in Topics : committed'[t] \in committed[t] .. Len(log[t])
    BY <2>1, LenProperties DEF ConsumerInv, TypeOK, ConsumerTypeOK, OffsetsOK
  <2>3. \A t \in Topics : \A i \in 1 .. committed'[t] : Promise!Settled(t, i)
    BY <2>1 DEF ConsumerInv, ResolvedIsSettled, Settled, Promise!Settled
  <2> QED BY <2>1, <2>2, <2>3 DEF Promise!Commit, Promise!Next, ConsumerInv, TypeOK, ConsumerTypeOK
<1>4. CASE SkipEmpty
  BY <1>4 DEF SkipEmpty, HandlerReturns
<1>5. ASSUME handling # NoTopic, dlt' = dlt \cup {<<handling, Offset>>},
             UNCHANGED <<log, committed, handled>>
      PROVE  Promise!Next
  BY <1>5, InHandIsInTurn DEF Promise!Park, Promise!Next
<1>6. CASE ParkMalformed
  BY <1>5, <1>6 DEF ParkMalformed
<1>7. CASE HandlerSucceeds
  <2>1. Promise!Handle(handling, Offset)
    BY <1>7, InHandIsInTurn DEF HandlerSucceeds, HandlerReturns, Promise!Handle
  <2> QED BY <1>7, <2>1, InHandIsInTurn DEF HandlerSucceeds, Promise!Next
<1>8. CASE HandlerFails
  BY <1>5, <1>8 DEF HandlerFails, HandlerThrows
<1>9. CASE ParkingFails
  BY <1>9 DEF ParkingFails, Redeliver
<1>10. CASE Restart
  BY <1>10 DEF Restart, ConsumerRestart
<1>11. CASE UNCHANGED vars
  BY <1>11 DEF vars, consumerVars
<1> QED BY <1>1, <1>2, <1>3, <1>4, <1>6, <1>7, <1>8, <1>9, <1>10, <1>11 DEF Next

\* The loop of EventConsumer keeps the at-least-once promise: messages are
\* settled in order, and no offset is committed over an unsettled one.
THEOREM KeepsPromise == Spec => ImplementsAtLeastOnce
BY InitInv, NextInv, PromiseInit, PromiseNext, PTL
DEF Spec, ImplementsAtLeastOnce, Promise!Spec

-----------------------------------------------------------------------------
\* The replay tool

\* What the tool has been given was sent or cannot be, and its count of
\* deliveries is the offset it has reached unless a send has thrown.
ToolInv ==
    /\ ReplayTypeOK
    /\ \A k \in 1 .. tool.at : k \in tool.sent \/ ~Replayable(k)
    /\ tool.pc = "off" => tool.at = 0 /\ tool.seen = 0
    /\ ~tool.erred => tool.seen = tool.at
    /\ tool.high <= Len(dltLog)
    /\ tool.pc \in {"stopping", "done"} => tool.seen >= tool.high

ReplayInv == ConsumerInv /\ ToolInv

LEMMA ReplayInitInv == ReplayInit => ReplayInv
<1> SUFFICES ASSUME ReplayInit PROVE ReplayInv
  OBVIOUS
<1>1. ConsumerInv
  BY InitInv DEF ReplayInit
<1>2. dltLog = << >> /\ Len(dltLog) = 0 /\ dltLog \in Seq(Records \cup {Unreadable})
  BY DEF ReplayInit
<1>3. ToolInv
  BY <1>1, <1>2 DEF ConsumerInv, ReplayInit, ToolInv, ReplayTypeOK
<1> QED BY <1>1, <1>3 DEF ReplayInv

-----------------------------------------------------------------------------
\* Both topics only grow

\* Every message stays at its offset.
LogGrows ==
    \A t \in Topics : /\ Len(log[t]) <= Len(log'[t])
                      /\ \A i \in 1 .. Len(log[t]) : log'[t][i] = log[t][i]

\* Every record too, and a new one names a message there is or is unreadable.
DltGrows ==
    \/ UNCHANGED dltLog
    \/ dltLog' = Append(dltLog, Unreadable)
    \/ \E t \in Topics : \E i \in 1 .. Len(log[t]) : dltLog' = Append(dltLog, <<t, i>>)

\* A record of the Dead Letter Topic, and what it names.
LEMMA RecordOK ==
    ASSUME ReplayTypeOK, NEW k \in 1 .. Len(dltLog), dltLog[k] # Unreadable
    PROVE  /\ dltLog[k][1] \in Topics
           /\ dltLog[k][2] \in 1 .. Len(log[dltLog[k][1]])
<1>1. dltLog[k] \in Topics \X Nat
  BY ElementOfSeq DEF ReplayTypeOK, Records
<1> QED BY <1>1 DEF ReplayTypeOK

\* So a record keeps its place and its envelope.
LEMMA RecordsStay ==
    ASSUME ReplayTypeOK, TypeOK', LogGrows, DltGrows
    PROVE  /\ dltLog' \in Seq(Records \cup {Unreadable})
           /\ Len(dltLog) <= Len(dltLog')
           /\ \A k \in 1 .. Len(dltLog) : dltLog'[k] = dltLog[k] /\ (Replayable(k)' <=> Replayable(k))
           /\ \A k \in 1 .. Len(dltLog') :
                 dltLog'[k] # Unreadable => dltLog'[k][2] \in 1 .. Len(log'[dltLog'[k][1]])
<1> DEFINE R == Records \cup {Unreadable}
<1>0. dltLog \in Seq(R) /\ Len(dltLog) \in Nat
  BY LenProperties DEF ReplayTypeOK
<1>L. \A t \in Topics : Len(log[t]) \in Nat /\ Len(log'[t]) \in Nat
  BY LenProperties DEF ReplayTypeOK, TypeOK, ConsumerTypeOK
<1>A. \/ UNCHANGED dltLog
      \/ \E x \in R : /\ dltLog' = Append(dltLog, x)
                      /\ x # Unreadable => x[1] \in Topics /\ x[2] \in 1 .. Len(log[x[1]])
  <2>1. ASSUME NEW t \in Topics, NEW i \in 1 .. Len(log[t]), dltLog' = Append(dltLog, <<t, i>>)
        PROVE  <1>A!2
    <3>1. <<t, i>> \in R /\ <<t, i>>[1] = t /\ <<t, i>>[2] = i
      BY <1>L DEF Records
    <3> QED BY <2>1, <3>1
  <2> QED BY <2>1 DEF DltGrows
<1>1. /\ dltLog' \in Seq(R)
      /\ Len(dltLog) <= Len(dltLog')
      /\ \A k \in 1 .. Len(dltLog) : dltLog'[k] = dltLog[k]
  <2>1. CASE UNCHANGED dltLog
    BY <1>0, <2>1
  <2>2. ASSUME NEW x \in R, dltLog' = Append(dltLog, x)
        PROVE  <1>1!:
    BY <1>0, <2>2, AppendProperties
  <2> QED BY <1>A, <2>1, <2>2
<1>2. ASSUME NEW k \in 1 .. Len(dltLog)
      PROVE  /\ Replayable(k)' <=> Replayable(k)
             /\ dltLog'[k] # Unreadable => dltLog'[k][2] \in 1 .. Len(log'[dltLog'[k][1]])
  <2>1. dltLog'[k] = dltLog[k]
    BY <1>1
  <2>2. CASE dltLog[k] = Unreadable
    BY <2>1, <2>2 DEF Replayable
  <2>3. CASE dltLog[k] # Unreadable
    <3>1. dltLog[k][1] \in Topics /\ dltLog[k][2] \in 1 .. Len(log[dltLog[k][1]])
      BY <2>3, RecordOK
    <3> QED BY <2>1, <3>1, <1>L DEF LogGrows, Replayable
  <2> QED BY <2>2, <2>3
<1>3. ASSUME NEW k \in 1 .. Len(dltLog'), k \notin 1 .. Len(dltLog), dltLog'[k] # Unreadable
      PROVE  dltLog'[k][2] \in 1 .. Len(log'[dltLog'[k][1]])
  <2>1. PICK x \in R : /\ dltLog' = Append(dltLog, x)
                       /\ x # Unreadable => x[1] \in Topics /\ x[2] \in 1 .. Len(log[x[1]])
    BY <1>3, <1>A
  <2>2. k = Len(dltLog) + 1 /\ dltLog'[k] = x
    BY <1>0, <1>3, <2>1, AppendProperties
  <2> QED BY <1>3, <2>1, <2>2, <1>L DEF LogGrows
<1> QED BY <1>1, <1>2, <1>3

\* A step of the group leaves the tool's invariant alone.
LEMMA ToolUndisturbed ==
    ASSUME ToolInv, TypeOK', LogGrows, DltGrows, UNCHANGED tool
    PROVE  ToolInv'
<1>0. Len(dltLog) \in Nat /\ Len(dltLog') \in Nat /\ tool.at \in Nat
  BY RecordsStay, LenProperties DEF ToolInv, ReplayTypeOK
<1>1. ReplayTypeOK'
  <2>1. ReplayTypeOK /\ tool'.at <= Len(dltLog')
    BY <1>0, RecordsStay DEF ToolInv, ReplayTypeOK
  <2>2. tool' \in [pc : {"off", "reading", "stopping", "done"}, high : Nat, at : Nat,
                  seen : Nat, sent : SUBSET Nat, erred : BOOLEAN]
        /\ tool'.at <= tool'.seen /\ tool'.sent \subseteq 1 .. tool'.at
    BY <2>1 DEF ReplayTypeOK
  <2> QED BY <2>1, <2>2, RecordsStay DEF ReplayTypeOK
<1>2. \A k \in 1 .. tool'.at : k \in tool'.sent \/ ~Replayable(k)'
  BY <1>0, RecordsStay DEF ToolInv, ReplayTypeOK
<1>3. tool'.high <= Len(dltLog')
  BY <1>0, RecordsStay DEF ToolInv, ReplayTypeOK
<1> QED BY <1>1, <1>2, <1>3 DEF ToolInv

-----------------------------------------------------------------------------
\* The steps

\* Sending a message, by whoever does.
LEMMA SendStep ==
    ASSUME ConsumerInv, NEW t \in Topics, NEW m \in Messages, SendTo(t, m),
           UNCHANGED <<consumerVars, handled>>, faults' \in 0 .. MaxFaults
    PROVE  ConsumerInv' /\ LogGrows
<1>1. LoopInv(Messages)
  BY DEF ConsumerInv, TypeOK, LoopInv
<1>2. LoopInv(Messages)' /\ \A u \in Topics : /\ Len(log'[u]) = Len(log[u]) + (IF u = t THEN 1 ELSE 0)
                                            /\ \A i \in 1 .. Len(log[u]) : log'[u][i] = log[u][i]
  BY <1>1, LoopSend
<1>3. \A u \in Topics : Len(log[u]) \in Nat /\ position[u] \in Nat /\ position[u] <= Len(log[u])
  BY LenProperties DEF ConsumerInv, TypeOK, ConsumerTypeOK, OffsetsOK
<1>4. LogGrows
  <2>1. ASSUME NEW u \in Topics
        PROVE  /\ Len(log[u]) <= Len(log'[u])
               /\ \A i \in 1 .. Len(log[u]) : log'[u][i] = log[u][i]
    <3>1. log[u] \in Seq(Messages) /\ log \in [Topics -> Seq(Messages)] /\ Len(log[u]) \in Nat
      BY LenProperties DEF ConsumerInv, TypeOK, ConsumerTypeOK
    <3>2. CASE u = t
      <4>1. log'[u] = Append(log[u], m)
        BY <3>1, <3>2 DEF SendTo
      <4> QED BY <3>1, <4>1, AppendProperties
    <3>3. CASE u # t
      <4>1. log'[u] = log[u]
        BY <3>1, <3>3 DEF SendTo
      <4> QED BY <3>1, <4>1
    <3> QED BY <3>2, <3>3
  <2> QED BY <2>1 DEF LogGrows
<1>5. TypeOK'
  BY <1>2 DEF LoopInv, TypeOK, ConsumerInv
<1>6. ASSUME NEW u \in Topics, NEW i \in 1 .. position'[u] PROVE Settled(u, i)'
  <2>1. i \in 1 .. position[u] /\ i \in 1 .. Len(log[u])
    BY <1>3, <1>6 DEF consumerVars
  <2>2. Settled(u, i) /\ log'[u][i] = log[u][i]
    BY <1>2, <2>1 DEF ConsumerInv, ResolvedIsSettled
  <2> QED BY <2>2 DEF consumerVars, Settled
<1> QED BY <1>4, <1>5, <1>6 DEF ConsumerInv, ResolvedIsSettled

\* A step of the group is one of EventConsumer's; it lengthens a topic, or the
\* Dead Letter Topic, or neither.
LEMMA GroupStep ==
    ASSUME ConsumerInv, ParksNothing \/ Parks
    PROVE  ConsumerInv' /\ LogGrows /\ DltGrows
<1>0. \A t \in Topics : Len(log[t]) \in Nat
  BY LenProperties DEF ConsumerInv, TypeOK, ConsumerTypeOK
<1>S. UNCHANGED log => LogGrows
  BY <1>0 DEF LogGrows
<1>1. ASSUME NEW t \in Topics, NEW m \in Messages, Publish(t, m), UNCHANGED dltLog
      PROVE  ConsumerInv' /\ LogGrows /\ DltGrows
  BY <1>1, SendStep DEF Publish, DltGrows, ConsumerInv, TypeOK
<1>2. ASSUME (\E t \in Topics : Take(t)) \/ Commit \/ SkipEmpty \/ HandlerSucceeds \/ Restart,
             UNCHANGED dltLog
      PROVE  ConsumerInv' /\ LogGrows /\ DltGrows
  <2>1. ConsumerInv'
    BY <1>2, NextInv DEF Next
  <2>2. UNCHANGED log
    BY <1>2 DEF Take, Fetch, Commit, AutoCommit, SkipEmpty, HandlerReturns, HandlerSucceeds,
                Restart, ConsumerRestart
  <2> QED BY <2>1, <2>2, <1>S, <1>2 DEF DltGrows
<1>3. ASSUME Parks PROVE ConsumerInv' /\ LogGrows /\ DltGrows
  <2>1. ConsumerInv'
    BY <1>3, NextInv DEF Parks, Next
  <2>2. UNCHANGED log /\ handling # NoTopic /\ dltLog' \in {dltLog, Record}
    BY <1>3 DEF Parks, ParkMalformed, HandlerFails, HandlerThrows, ParkingFails, Redeliver
  <2>3. handling \in Topics /\ Offset \in 1 .. Len(log[handling])
    BY <2>2, InHandIsInTurn
  <2> QED BY <2>1, <2>2, <2>3, <1>S DEF DltGrows, Record
<1> QED BY <1>1, <1>2, <1>3 DEF ParksNothing

\* A delivery to the tool that is counted: the record given is sent, or cannot be.
LEMMA CountedStep ==
    ASSUME ToolInv, TypeOK', LogGrows, UNCHANGED dltLog, Delivered,
           NEW S, tool' = Counted(S) \/ (tool' = Received /\ S = tool.sent),
           \/ S = tool.sent /\ ~Replayable(Given)
           \/ S = tool.sent \cup {Given}
    PROVE  ToolInv'
<1>0. /\ DltGrows /\ Len(dltLog) \in Nat /\ ReplayTypeOK
      /\ tool.at \in Nat /\ tool.seen \in Nat /\ tool.high \in Nat /\ tool.at < Len(dltLog)
      /\ tool.at <= tool.seen /\ tool.sent \subseteq 1 .. tool.at
  BY LenProperties DEF DltGrows, ToolInv, ReplayTypeOK, Delivered
<1>1. /\ tool'.at = tool.at + 1 /\ tool'.seen = tool.seen + 1 /\ tool'.sent = S
      /\ tool'.high = tool.high /\ tool'.erred = tool.erred
      /\ tool'.pc \in {tool.pc, IF tool.seen + 1 >= tool.high THEN "stopping" ELSE tool.pc}
  BY DEF ToolInv, ReplayTypeOK, Counted, Received, Given, Enough
<1>2. S \subseteq 1 .. tool.at + 1
  BY <1>0 DEF Given
<1>3. tool' \in [pc : {"off", "reading", "stopping", "done"}, high : Nat, at : Nat,
                seen : Nat, sent : SUBSET Nat, erred : BOOLEAN]
  <2>1. S \in SUBSET Nat /\ Given \in Nat /\ tool.seen + 1 \in Nat
    BY <1>0, <1>2 DEF Given
  <2>2. (IF Enough(tool.seen + 1) THEN "stopping" ELSE tool.pc) \in {"off", "reading", "stopping", "done"}
    BY <1>0 DEF ReplayTypeOK
  <2> HIDE DEF Given, Enough
  <2> QED BY <1>0, <2>1, <2>2 DEF ReplayTypeOK, Counted, Received
<1>4. ReplayTypeOK'
  BY <1>0, <1>1, <1>2, <1>3, RecordsStay DEF ToolInv, ReplayTypeOK
<1>5. ASSUME NEW k \in 1 .. tool'.at PROVE k \in tool'.sent \/ ~Replayable(k)'
  <2>1. k \in 1 .. Len(dltLog) /\ (k \in 1 .. tool.at \/ k = Given)
    BY <1>0, <1>1, <1>5 DEF Given
  <2>2. k \in S \/ ~Replayable(k)
    BY <2>1 DEF ToolInv
  <2> QED BY <2>1, <2>2, <1>0, <1>1, RecordsStay
<1>6. /\ tool'.pc # "off" /\ (~tool'.erred => tool'.seen = tool'.at)
      /\ tool'.high <= Len(dltLog')
      /\ tool'.pc \in {"stopping", "done"} => tool'.seen >= tool'.high
  BY <1>0, <1>1 DEF ToolInv, Delivered
<1> QED BY <1>4, <1>5, <1>6 DEF ToolInv

\* A step of the tool that sends nothing and skips nothing.
LEMMA ToolTurns ==
    ASSUME ReplayTypeOK, ToolInv, TypeOK', LogGrows, UNCHANGED dltLog,
           tool' \in [pc : {"off", "reading", "stopping", "done"}, high : Nat, at : Nat,
                     seen : Nat, sent : SUBSET Nat, erred : BOOLEAN],
           tool'.at = tool.at, tool'.sent = tool.sent, tool.at <= tool'.seen
    PROVE  ReplayTypeOK' /\ \A k \in 1 .. tool'.at : k \in tool'.sent \/ ~Replayable(k)'
<1>0. /\ Len(dltLog) \in Nat /\ tool.at \in Nat /\ tool.at <= Len(dltLog)
      /\ tool.sent \subseteq 1 .. tool.at
  BY LenProperties DEF ReplayTypeOK
<1>1. /\ dltLog' \in Seq(Records \cup {Unreadable})
      /\ \A k \in 1 .. Len(dltLog) : Replayable(k)' <=> Replayable(k)
      /\ \A k \in 1 .. Len(dltLog') :
            dltLog'[k] # Unreadable => dltLog'[k][2] \in 1 .. Len(log'[dltLog'[k][1]])
  BY RecordsStay DEF DltGrows
<1>2. tool'.at <= Len(dltLog') /\ tool'.at <= tool'.seen /\ tool'.sent \subseteq 1 .. tool'.at
  BY <1>0
<1>3. ReplayTypeOK'
  BY <1>1, <1>2 DEF ReplayTypeOK
<1>4. ASSUME NEW k \in 1 .. tool'.at PROVE k \in tool'.sent \/ ~Replayable(k)'
  <2>1. k \in 1 .. tool.at /\ k \in 1 .. Len(dltLog)
    BY <1>0, <1>4
  <2>2. k \in tool.sent \/ ~Replayable(k)
    BY <2>1 DEF ToolInv
  <2> QED BY <1>1, <2>1, <2>2
<1> QED BY <1>3, <1>4

LEMMA ReplayNextInv == ReplayInv /\ [ReplayNext]_replayVars => ReplayInv'
<1> SUFFICES ASSUME ReplayInv, [ReplayNext]_replayVars PROVE ReplayInv'
  OBVIOUS
<1> USE DEF ReplayInv
<1>L. \A t \in Topics : Len(log[t]) \in Nat
  BY LenProperties DEF ConsumerInv, TypeOK, ConsumerTypeOK
<1>S. UNCHANGED log => LogGrows
  BY <1>L DEF LogGrows
<1>F. ASSUME UNCHANGED <<log, consumerVars, handled>>, faults' \in 0 .. MaxFaults PROVE ConsumerInv'
  BY <1>F DEF ConsumerInv, TypeOK, ConsumerTypeOK, OffsetsOK, ResolvedIsSettled, Settled, consumerVars
<1>T. faults \in 0 .. MaxFaults /\ (ConsumerInv' => TypeOK')
  BY DEF ConsumerInv, TypeOK
<1>1. CASE (ParksNothing \/ Parks) /\ UNCHANGED tool
  BY <1>1, <1>T, GroupStep, ToolUndisturbed
<1>8. CASE OthersWrite /\ UNCHANGED tool
  <2>1. ConsumerInv' /\ LogGrows /\ DltGrows
    BY <1>8, <1>F, <1>S, <1>T, EventConsumerAssumption DEF OthersWrite, DltGrows
  <2> QED BY <1>8, <2>1, <1>T, ToolUndisturbed
<1>2. CASE ToolStarts
  <2>1. ConsumerInv' /\ LogGrows /\ DltGrows
    BY <1>2, <1>F, <1>S, <1>T DEF ToolStarts, groupFrame, DltGrows
  <2>2. /\ Len(dltLog) \in Nat /\ UNCHANGED dltLog /\ ToolInv /\ ReplayTypeOK
        /\ tool' = [tool EXCEPT !.pc = "reading", !.high = Len(dltLog)]
    BY <1>2, LenProperties DEF ToolStarts, groupFrame, ToolInv, ReplayTypeOK
  <2>3. /\ tool'.pc = "reading" /\ tool'.high = Len(dltLog) /\ tool'.at = tool.at
        /\ tool'.seen = tool.seen /\ tool'.sent = tool.sent /\ tool'.erred = tool.erred
        /\ tool' \in [pc : {"off", "reading", "stopping", "done"}, high : Nat, at : Nat,
                      seen : Nat, sent : SUBSET Nat, erred : BOOLEAN]
    BY <2>2 DEF ReplayTypeOK
  <2>4. tool.at <= tool'.seen
    BY <2>2, <2>3 DEF ReplayTypeOK
  <2>5. ReplayTypeOK' /\ \A k \in 1 .. tool'.at : k \in tool'.sent \/ ~Replayable(k)'
    BY <1>T, <2>1, <2>2, <2>3, <2>4, ToolTurns
  <2> QED BY <2>1, <2>2, <2>3, <2>5 DEF ToolInv
<1>3. CASE ToolSkips
  <2>1. ConsumerInv' /\ LogGrows
    BY <1>3, <1>F, <1>S, <1>T DEF ToolSkips, groupFrame
  <2> QED BY <1>3, <2>1, <1>T, CountedStep DEF ToolSkips, groupFrame
<1>9. CASE ToolDiscards
  <2>1. ConsumerInv' /\ LogGrows
    BY <1>9, <1>F, <1>S, <1>T DEF ToolDiscards, groupFrame
  <2>2. ~Replayable(Given)
    BY <1>9 DEF ToolDiscards, Original, Replayable
  <2> QED BY <1>9, <2>1, <2>2, <1>T, CountedStep DEF ToolDiscards, groupFrame
<1>4. CASE ToolSends
  <2>1. Given \in 1 .. Len(dltLog) /\ ReplayTypeOK
    BY <1>4, LenProperties DEF ToolSends, Delivered, Given, ToolInv, ReplayTypeOK
  <2>2. Original[1] \in Topics /\ Original[2] \in 1 .. Len(log[Original[1]])
    BY <1>4, <2>1, RecordOK DEF ToolSends, Original, Replayable
  <2>3. log[Original[1]][Original[2]] \in Messages
    BY <2>2, ElementOfSeq DEF ConsumerInv, TypeOK, ConsumerTypeOK
  <2>4. ConsumerInv' /\ LogGrows
    BY <1>4, <1>T, <2>2, <2>3, SendStep DEF ToolSends, groupFrame
  <2> QED BY <1>4, <2>4, <1>T, CountedStep DEF ToolSends, groupFrame
<1>5. CASE ToolSendFails
  <2>1. ConsumerInv' /\ LogGrows /\ DltGrows
    <3>1. CASE UNCHANGED log
      BY <1>5, <3>1, <1>F, <1>S, <1>T, EventConsumerAssumption DEF ToolSendFails, groupFrame, DltGrows
    <3>2. CASE SendTo(Original[1], log[Original[1]][Original[2]])
      <4>1. Given \in 1 .. Len(dltLog) /\ ReplayTypeOK
        BY <1>5, LenProperties DEF ToolSendFails, Delivered, Given, ToolInv, ReplayTypeOK
      <4>2. Original[1] \in Topics /\ Original[2] \in 1 .. Len(log[Original[1]])
        BY <1>5, <4>1, RecordOK DEF ToolSendFails, Original, Replayable
      <4>3. log[Original[1]][Original[2]] \in Messages
        BY <4>2, ElementOfSeq DEF ConsumerInv, TypeOK, ConsumerTypeOK
      <4>4. /\ faults' \in 0 .. MaxFaults
            /\ UNCHANGED <<consumerVars, handled, dltLog>>
        BY <1>5, <1>T, EventConsumerAssumption DEF ToolSendFails, groupFrame
      <4>5. ConsumerInv' /\ LogGrows
        BY <3>2, <4>2, <4>3, <4>4, SendStep
      <4> QED BY <4>4, <4>5 DEF DltGrows
    <3> QED BY <1>5, <3>1, <3>2 DEF ToolSendFails
  <2>2. /\ Len(dltLog) \in Nat /\ UNCHANGED dltLog /\ ToolInv /\ ReplayTypeOK
        /\ tool' = [tool EXCEPT !.seen = @ + 1, !.erred = TRUE] /\ tool.pc = "reading"
    BY <1>5, LenProperties DEF ToolSendFails, groupFrame, ToolInv, ReplayTypeOK
  <2>3. /\ tool'.pc = "reading" /\ tool'.high = tool.high /\ tool'.at = tool.at
        /\ tool'.seen = tool.seen + 1 /\ tool'.sent = tool.sent /\ tool'.erred = TRUE
        /\ tool' \in [pc : {"off", "reading", "stopping", "done"}, high : Nat, at : Nat,
                      seen : Nat, sent : SUBSET Nat, erred : BOOLEAN]
    <3>1. tool.seen \in Nat /\ tool.seen + 1 \in Nat
      BY <2>2 DEF ReplayTypeOK
    <3> QED BY <2>2, <3>1 DEF ReplayTypeOK
  <2>4. tool.at <= tool'.seen
    BY <2>2, <2>3 DEF ReplayTypeOK
  <2>5. ReplayTypeOK' /\ \A k \in 1 .. tool'.at : k \in tool'.sent \/ ~Replayable(k)'
    BY <1>T, <2>1, <2>2, <2>3, <2>4, ToolTurns
  <2> QED BY <2>1, <2>2, <2>3, <2>5 DEF ToolInv
<1>6. CASE ToolEnds
  <2>1. ConsumerInv' /\ LogGrows /\ DltGrows
    BY <1>6, <1>F, <1>S, <1>T DEF ToolEnds, groupFrame, DltGrows
  <2>2. /\ Len(dltLog) \in Nat /\ UNCHANGED dltLog /\ ToolInv /\ ReplayTypeOK
        /\ tool' = [tool EXCEPT !.pc = "done"] /\ tool.pc = "stopping"
    BY <1>6, LenProperties DEF ToolEnds, groupFrame, ToolInv, ReplayTypeOK
  <2>3. /\ tool'.pc = "done" /\ tool'.high = tool.high /\ tool'.at = tool.at
        /\ tool'.seen = tool.seen /\ tool'.sent = tool.sent /\ tool'.erred = tool.erred
        /\ tool' \in [pc : {"off", "reading", "stopping", "done"}, high : Nat, at : Nat,
                      seen : Nat, sent : SUBSET Nat, erred : BOOLEAN]
    BY <2>2 DEF ReplayTypeOK
  <2>4. tool.at <= tool'.seen
    BY <2>2, <2>3 DEF ReplayTypeOK
  <2>5. ReplayTypeOK' /\ \A k \in 1 .. tool'.at : k \in tool'.sent \/ ~Replayable(k)'
    BY <1>T, <2>1, <2>2, <2>3, <2>4, ToolTurns
  <2> QED BY <2>1, <2>2, <2>3, <2>5 DEF ToolInv
<1>7. CASE UNCHANGED replayVars
  <2>1. ConsumerInv' /\ LogGrows /\ DltGrows
    BY <1>7, <1>F, <1>S, <1>T DEF replayVars, vars, DltGrows
  <2> QED BY <1>7, <2>1, <1>T, ToolUndisturbed DEF replayVars
<1> QED BY <1>1, <1>2, <1>3, <1>4, <1>5, <1>6, <1>7, <1>8, <1>9 DEF ReplayNext

-----------------------------------------------------------------------------

\* Types hold, and every record names a message there is, however long both the
\* group and the tool run.
THEOREM ReplayTypeCorrect == ReplaySpec => []ReplayTypeOK
<1>1. ReplayInv => ReplayTypeOK
  BY DEF ReplayInv, ToolInv
<1> QED BY <1>1, ReplayInitInv, ReplayNextInv, PTL DEF ReplaySpec

\* The group drops no message while the tool feeds its topics.
THEOREM NothingIsDroppedInReplay == ReplaySpec => []NothingDropped
<1>1. ReplayInv => NothingDropped
  BY DEF ReplayInv, ConsumerInv, TypeOK, ConsumerTypeOK, OffsetsOK, ResolvedIsSettled,
         NothingDropped
<1> QED BY <1>1, ReplayInitInv, ReplayNextInv, PTL DEF ReplaySpec

\* When the tool stops without a send having thrown, what was on the Dead Letter
\* Topic when it started was sent again or cannot be.
THEOREM EverythingIsReplayed == ReplaySpec => []ReplayReadsAll
<1>1. ASSUME ReplayInv PROVE ReplayReadsAll
  BY <1>1 DEF ReplayInv, ToolInv, ReplayTypeOK, ReplayReadsAll
<1> QED BY <1>1, ReplayInitInv, ReplayNextInv, PTL DEF ReplaySpec

-----------------------------------------------------------------------------
\* The promise, while the tool runs: what it sends is published like anything
\* else, and its other steps are none of the promise's business.

LEMMA ReplayPromiseNext ==
    ASSUME ReplayInv, [ReplayNext]_replayVars
    PROVE  [Promise!Next]_(Promise!vars)
<1> USE DEF Promise!vars
<1>1. CASE (ParksNothing \/ Parks) /\ UNCHANGED tool
  <2>1. Next
    BY <1>1 DEF ParksNothing, Parks, Next
  <2> QED BY <2>1, PromiseNext DEF ReplayInv
<1>2. ASSUME Delivered, Replayable(Given), SendTo(Original[1], log[Original[1]][Original[2]]),
             UNCHANGED <<committed, handled, dlt>>
      PROVE  Promise!Next
  <2>1. Given \in 1 .. Len(dltLog) /\ ReplayTypeOK
    BY <1>2, LenProperties DEF Delivered, Given, ReplayInv, ToolInv, ReplayTypeOK
  <2>2. Original[1] \in Topics /\ Original[2] \in 1 .. Len(log[Original[1]])
    BY <1>2, <2>1, RecordOK DEF Original, Replayable
  <2>3. log[Original[1]][Original[2]] \in Messages
    BY <2>2, ElementOfSeq DEF ReplayInv, ConsumerInv, TypeOK, ConsumerTypeOK
  <2>4. Promise!Publish(Original[1], log[Original[1]][Original[2]])
    BY <1>2 DEF SendTo, Promise!Publish
  <2> QED BY <2>2, <2>3, <2>4 DEF Promise!Next
<1>3. CASE ToolSends \/ ToolSendFails
  <2>1. /\ Delivered /\ Replayable(Given) /\ UNCHANGED <<committed, handled, dlt>>
        /\ UNCHANGED log \/ SendTo(Original[1], log[Original[1]][Original[2]])
    BY <1>3 DEF ToolSends, ToolSendFails, groupFrame, consumerVars
  <2> QED BY <1>2, <2>1
<1>5. CASE ToolStarts \/ ToolDiscards \/ ToolSkips \/ ToolEnds \/ OthersWrite
  BY <1>5 DEF ToolStarts, ToolDiscards, ToolSkips, ToolEnds, OthersWrite, groupFrame, consumerVars
<1>4. CASE UNCHANGED replayVars
  BY <1>4 DEF replayVars, vars, consumerVars
<1> QED BY <1>1, <1>3, <1>4, <1>5 DEF ReplayNext

\* The group keeps its at-least-once promise whatever the tool sends it, and
\* however often what is replayed is parked and replayed again.
THEOREM KeepsPromiseInReplay == ReplaySpec => ImplementsAtLeastOnce
<1>1. ReplayInit => Promise!Init
  BY PromiseInit DEF ReplayInit
<1> QED BY <1>1, ReplayInitInv, ReplayNextInv, ReplayPromiseNext, PTL
    DEF ReplaySpec, ImplementsAtLeastOnce, Promise!Spec

=============================================================================
