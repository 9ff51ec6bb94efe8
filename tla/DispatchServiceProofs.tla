------------------------ MODULE DispatchServiceProofs ------------------------
(***************************************************************************)
(* Theorems about DispatchService, for every set of rides, drivers and     *)
(* replicas and every bound: its type invariant, that a driver is promised *)
(* once while its reservation lasts, that a ride is marked processed only  *)
(* once it is answered, that no request is dropped, and that a fault costs *)
(* at most one answer more than the one a request asks for.                *)
(***************************************************************************)
EXTENDS DispatchService, ConsumerLoopProofs, FiniteSetTheorems

-----------------------------------------------------------------------------
\* Type correctness

LEMMA IdleTyped == Idle \in WorkStates /\ Idle.pc = "idle" /\ Idle.won = None
BY EmptySeq DEF Idle, WorkStates

LEMMA RankingsTyped == Rankings \subseteq Seq(Drivers)
<1>1. ASSUME NEW n \in Nat, NEW s \in [1 .. n -> Drivers] PROVE s \in Seq(Drivers)
  BY <1>1, SeqDef
<1> QED BY <1>1, DispatchAssumption DEF Rankings

LEMMA AnswerTyped ==
    ASSUME TypeOK, NEW m \in Members, ~At(m, "idle"), PublishAnswer(m)
    PROVE  /\ answers' \in Seq([rideId : Rides, driverId : Drivers \cup {None}])
           /\ Len(answers') = Len(answers) + 1
           /\ \A i \in 1 .. Len(answers) : answers'[i] = answers[i]
           /\ answers'[Len(answers) + 1] = [rideId |-> work[m].ride, driverId |-> work[m].won]
<1>1. [rideId |-> work[m].ride, driverId |-> work[m].won]
        \in [rideId : Rides, driverId : Drivers \cup {None}]
  BY DEF TypeOK, WorkStates
<1> QED BY <1>1, AppendProperties DEF PublishAnswer, TypeOK

\* What every step does to the loop and to the members' work: at most one
\* member's work changes, to a well-formed state.
LEMMA StepTyped ==
    ASSUME TypeOK, LoopInv(Rides)', owner' \in Members, NEW m \in Members, NEW state \in WorkStates,
           state.pc = "idle" \/ state.ride \in Rides,
           work' = [work EXCEPT ![m] = state],
           reservations' \in [Drivers -> Rides \cup {None}],
           lapsed' \subseteq Drivers, marked' \subseteq Rides,
           mirror' \in [Drivers -> DriverStatus],
           answers' \in Seq([rideId : Rides, driverId : Drivers \cup {None}]),
           faults' \in 0 .. MaxFaults
    PROVE  TypeOK'
BY DEF TypeOK, LoopInv, At

\* How a handler ends.
LEMMA EndTyped ==
    ASSUME TypeOK, NEW m \in Members, ~At(m, "idle"), Return(m) \/ Throw(m)
    PROVE  /\ LoopInv(Rides)'
           /\ \E state \in WorkStates :
                /\ state.pc = "idle" \/ state.ride \in Rides
                /\ work' = [work EXCEPT ![m] = state]
<1> DEFINE again == [Idle EXCEPT !.pc = "check", !.ride = work[m].ride]
<1>0. LoopInv(Rides)
  BY DEF TypeOK, LoopInv
<1>1. again \in WorkStates /\ again.ride \in Rides
  BY EmptySeq DEF TypeOK, WorkStates, Idle, At
<1>2. work' = [work EXCEPT ![m] = again] \/ work' = [work EXCEPT ![m] = Idle]
  BY DEF Return, Throw
<1>3. LoopInv(Rides)'
  BY <1>0, LoopReturns, LoopThrows, LoopStutter DEF Return, Throw
<1> HIDE DEF again
<1> QED BY <1>1, <1>2, <1>3, IdleTyped

LEMMA TypeInit == Init => TypeOK
<1> SUFFICES ASSUME Init PROVE TypeOK
  OBVIOUS
<1>1. LoopInv(Rides)
  BY LoopInit DEF Init
<1> QED BY <1>1, IdleTyped, EmptySeq, DispatchAssumption
  DEF Init, TypeOK, LoopInv, At, DriverStatus

LEMMA HandlerTyped ==
    ASSUME TypeOK, NEW m \in Members, HandlerStep(m)
    PROVE  TypeOK'
<1>0. LoopInv(Rides) /\ (UNCHANGED <<log, consumerVars>> => LoopInv(Rides)')
  BY LoopStutter DEF TypeOK, LoopInv
<1>1. work[m] \in WorkStates /\ (At(m, "idle") \/ work[m].ride \in Rides)
  BY DEF TypeOK
<1>2. ASSUME NEW pc \in {"search", "publish", "mark"}, ~At(m, "idle")
      PROVE  LET state == [work[m] EXCEPT !.pc = pc]
             IN state \in WorkStates /\ state.ride \in Rides
  BY <1>1, <1>2 DEF WorkStates
<1>3. CASE CheckProcessed(m)
  <2>1. ~At(m, "idle")
    BY <1>3 DEF CheckProcessed, At
  <2>2. CASE work[m].ride \in marked
    BY <1>3, <2>1, <2>2, EndTyped, StepTyped DEF CheckProcessed, redisVars, TypeOK
  <2>3. CASE work[m].ride \notin marked
    <3> DEFINE state == [work[m] EXCEPT !.pc = "search"]
    <3>1. state \in WorkStates /\ state.ride \in Rides
      BY <1>2, <2>1
    <3>2. work' = [work EXCEPT ![m] = state]
      BY <1>3, <2>3 DEF CheckProcessed, Goto, TypeOK
    <3> HIDE DEF state
    <3> QED BY <1>0, <1>3, <2>3, <3>1, <3>2, StepTyped DEF CheckProcessed, redisVars, TypeOK
  <2> QED BY <2>2, <2>3
<1>4. CASE Search(m)
  <2>1. PICK ranking \in Rankings :
          work' = [work EXCEPT ![m].pc = "reserve", ![m].candidates = ranking]
    BY <1>4 DEF Search
  <2> DEFINE state == [work[m] EXCEPT !.pc = "reserve", !.candidates = ranking]
  <2>2. state \in WorkStates /\ state.ride \in Rides
    BY <1>1, <1>4, RankingsTyped DEF Search, At, WorkStates
  <2>3. work' = [work EXCEPT ![m] = state]
    BY <2>1 DEF TypeOK
  <2> HIDE DEF state
  <2> QED BY <1>0, <1>4, <2>2, <2>3, StepTyped DEF Search, redisVars, TypeOK
<1>5. CASE TryCandidate(m)
  <2> DEFINE d == Head(work[m].candidates)
             won == [work[m] EXCEPT !.pc = "sync", !.candidates = << >>, !.won = d]
             lost == [work[m] EXCEPT !.candidates = Tail(work[m].candidates)]
  <2>1. d \in Drivers /\ Tail(work[m].candidates) \in Seq(Drivers) /\ work[m].ride \in Rides
    BY <1>1, <1>5, HeadTailProperties DEF TryCandidate, At, WorkStates
  <2>2. /\ won \in WorkStates /\ won.ride \in Rides
        /\ lost \in WorkStates /\ lost.ride \in Rides
    BY <1>1, <2>1, EmptySeq DEF WorkStates
  <2>3. work' = [work EXCEPT ![m] = won] \/ work' = [work EXCEPT ![m] = lost]
    <3>1. CASE reservations[d] = None
      BY <1>5, <3>1 DEF TryCandidate, Unreserved
    <3>2. CASE reservations[d] # None
      BY <1>5, <3>2 DEF TryCandidate, Unreserved
    <3> QED BY <3>1, <3>2
  <2>4. reservations' \in [Drivers -> Rides \cup {None}]
    BY <1>5, <2>1 DEF TryCandidate, tryReserve, Unreserved, TypeOK
  <2> HIDE DEF won, lost
  <2> QED BY <1>0, <1>5, <2>2, <2>3, <2>4, StepTyped DEF TryCandidate, TypeOK
<1>6. ASSUME NEW pc \in {"search", "publish", "mark"}, ~At(m, "idle"), Goto(m, pc),
             UNCHANGED <<log, consumerVars, owner, redisVars, faults>>,
             mirror' \in [Drivers -> DriverStatus],
             answers' \in Seq([rideId : Rides, driverId : Drivers \cup {None}])
      PROVE  TypeOK'
  <2> DEFINE state == [work[m] EXCEPT !.pc = pc]
  <2>1. state \in WorkStates /\ state.ride \in Rides
    BY <1>2, <1>6
  <2>2. work' = [work EXCEPT ![m] = state]
    BY <1>6 DEF Goto, TypeOK
  <2> HIDE DEF state
  <2> QED BY <1>0, <1>6, <2>1, <2>2, StepTyped DEF redisVars, TypeOK
<1>7. CASE NoCandidateLeft(m)
  BY <1>6, <1>7 DEF NoCandidateLeft, At, TypeOK
<1>8. CASE SyncDriver(m)
  <2>1. mirror' \in [Drivers -> DriverStatus]
    BY <1>8 DEF SyncDriver, TypeOK, DriverStatus
  <2> QED BY <1>6, <1>8, <2>1 DEF SyncDriver, At, TypeOK
<1>9. CASE Publish(m)
  <2>1. ~At(m, "idle")
    BY <1>9 DEF Publish, At
  <2> QED BY <1>6, <1>9, <2>1, AnswerTyped DEF Publish, TypeOK
<1>10. CASE MarkProcessed(m)
  <2>1. ~At(m, "idle")
    BY <1>10 DEF MarkProcessed, At
  <2> QED BY <1>1, <1>10, <2>1, EndTyped, StepTyped DEF MarkProcessed, TypeOK
<1> QED BY <1>3, <1>4, <1>5, <1>7, <1>8, <1>9, <1>10 DEF HandlerStep

LEMMA TypeNext == TypeOK /\ [Next]_vars => TypeOK'
<1> SUFFICES ASSUME TypeOK, [Next]_vars PROVE TypeOK'
  OBVIOUS
<1>0. LoopInv(Rides) /\ (UNCHANGED <<log, consumerVars>> => LoopInv(Rides)')
  BY LoopStutter DEF TypeOK, LoopInv
<1>1. CASE Take
  <2> DEFINE r == log[RequestTopic][position[RequestTopic] + 1]
             state == [Idle EXCEPT !.pc = "check", !.ride = r]
  <2>1. LoopInv(Rides)'
    BY <1>0, <1>1, LoopFetch, DispatchAssumption DEF Take
  <2>2. r \in Rides
    BY <1>1, ElementOfSeq, LenProperties, DispatchAssumption
    DEF Take, Fetch, TypeOK, ConsumerTypeOK
  <2>3. state \in WorkStates /\ state.ride = r
    BY <2>2, EmptySeq DEF Idle, WorkStates
  <2>4. work' = [work EXCEPT ![owner] = state] /\ owner \in Members
    BY <1>1 DEF Take, TypeOK
  <2> HIDE DEF state, r
  <2> QED BY <1>1, <2>1, <2>2, <2>3, <2>4, StepTyped DEF Take, redisVars, TypeOK
<1>2. CASE Commit
  <2>1. LoopInv(Rides)'
    BY <1>0, <1>2, LoopAutoCommit DEF Commit
  <2> QED BY <1>2, <2>1 DEF Commit, redisVars, TypeOK, LoopInv, At
<1>3. ASSUME NEW m \in Members, StepFails(m) PROVE TypeOK'
  <2>1. ~At(m, "idle")
    BY <1>3 DEF StepFails, At
  <2>2. answers' \in Seq([rideId : Rides, driverId : Drivers \cup {None}])
    BY <1>3, <2>1, AnswerTyped DEF StepFails, TypeOK
  <2>3. faults' \in 0 .. MaxFaults
    BY <1>3, DispatchAssumption DEF StepFails, Fault, TypeOK
  <2> QED BY <1>3, <2>1, <2>2, <2>3, EndTyped, StepTyped DEF StepFails, redisVars, TypeOK
<1>4. ASSUME NEW m \in Members, Restart(m) PROVE TypeOK'
  <2>1. LoopInv(Rides)'
    BY <1>0, <1>4, LoopRestart DEF Restart
  <2>2. faults' \in 0 .. MaxFaults
    BY <1>4, DispatchAssumption DEF Restart, Fault, TypeOK
  <2> QED BY <1>4, <2>1, <2>2, IdleTyped, StepTyped DEF Restart, redisVars, TypeOK
<1>5. ASSUME NEW m \in Members, Reassign(m) PROVE TypeOK'
  <2>1. LoopInv(Rides)'
    BY <1>0, <1>5, LoopRestart DEF Reassign
  <2> QED BY <1>5, <2>1, DispatchAssumption DEF Reassign, Fault, redisVars, TypeOK, LoopInv, At
<1>6. ASSUME NEW d \in Drivers, ReservationExpires(d) PROVE TypeOK'
  BY <1>0, <1>6 DEF ReservationExpires, TypeOK, LoopInv, At
<1>7. ASSUME NEW r \in Rides, RequestRide(r) \/ Duplicate(r) PROVE TypeOK'
  <2>1. LoopInv(Rides)'
    BY <1>0, <1>7, LoopSend, DispatchAssumption DEF RequestRide, Duplicate
  <2> QED BY <1>7, <2>1, DispatchAssumption
      DEF RequestRide, Duplicate, Fault, redisVars, TypeOK, LoopInv, At
<1>8. CASE UNCHANGED vars
  BY <1>0, <1>8 DEF vars, redisVars, TypeOK, LoopInv, At
<1>9. ASSUME NEW d \in Drivers, NEW status \in DriverStatus, OthersPatch(d, status) PROVE TypeOK'
  BY <1>0, <1>9 DEF OthersPatch, redisVars, TypeOK, LoopInv, At
<1> QED BY <1>1, <1>2, <1>3, <1>4, <1>5, <1>6, <1>7, <1>8, <1>9, HandlerTyped DEF Next

\* Types, and that a working member has a ride, in every reachable state.
THEOREM TypeCorrect == Spec => []TypeOK
BY TypeInit, TypeNext, PTL DEF Spec

-----------------------------------------------------------------------------
\* A driver is promised once.  A reservation that has not run out is a token:
\* it is free and nobody speaks of the driver, or one member has won it and
\* will answer, or one answer names the driver.

WonLate ==
    \A m \in Members : work[m].pc \notin {"sync", "publish", "mark"} => work[m].won = None

FreeIsUnspoken ==
    \A d \in Drivers \ lapsed : reservations[d] = None =>
        /\ \A i \in DOMAIN answers : answers[i].driverId # d
        /\ \A m \in Members : work[m].won # d

WinnerHasNotAnswered ==
    \A d \in Drivers \ lapsed : \A m \in Members :
        work[m].won = d /\ work[m].pc \in {"sync", "publish"} =>
            \A i \in DOMAIN answers : answers[i].driverId # d

OneWinner ==
    \A d \in Drivers \ lapsed : \A m, n \in Members :
        work[m].won = d /\ work[n].won = d => m = n

PromiseInv ==
    /\ TypeOK /\ WonLate /\ FreeIsUnspoken /\ WinnerHasNotAnswered /\ OneWinner /\ PromisedOnce

\* A step that publishes nothing, reserves nothing and makes member m forget
\* its driver or take it further.
LEMMA QuietStep ==
    ASSUME PromiseInv, TypeOK', UNCHANGED <<reservations, answers>>, lapsed \subseteq lapsed',
           NEW m \in Members, NEW state, work' = [work EXCEPT ![m] = state],
           \/ state.won = None
           \/ /\ state.won = work[m].won
              /\ state.pc \in {"sync", "publish", "mark"}
              /\ state.pc \in {"sync", "publish"} => work[m].pc \in {"sync", "publish"}
    PROVE  PromiseInv'
<1>1. \A n \in Members : work'[n] = IF n = m THEN state ELSE work[n]
  BY DEF PromiseInv, TypeOK
<1>2. None \notin Drivers
  BY DispatchAssumption
<1>3. WonLate'
  BY <1>1 DEF PromiseInv, WonLate
<1>4. FreeIsUnspoken'
  BY <1>1, <1>2 DEF PromiseInv, FreeIsUnspoken
<1>5. WinnerHasNotAnswered'
  BY <1>1, <1>2 DEF PromiseInv, WinnerHasNotAnswered
<1>6. OneWinner'
  BY <1>1, <1>2 DEF PromiseInv, OneWinner
<1>7. PromisedOnce'
  BY DEF PromiseInv, PromisedOnce
<1> QED BY <1>3, <1>4, <1>5, <1>6, <1>7 DEF PromiseInv

\* A step that publishes the answer of member m, which then moves on.
LEMMA PublishStep ==
    ASSUME PromiseInv, TypeOK', UNCHANGED <<reservations, lapsed>>,
           NEW m \in Members, At(m, "publish"), PublishAnswer(m),
           NEW state, work' = [work EXCEPT ![m] = state],
           \/ state.won = None
           \/ state.won = work[m].won /\ state.pc = "mark"
    PROVE  PromiseInv'
<1>1. \A n \in Members : work'[n] = IF n = m THEN state ELSE work[n]
  BY DEF PromiseInv, TypeOK
<1>2. None \notin Drivers
  BY DispatchAssumption
<1>3. /\ Len(answers) \in Nat
      /\ DOMAIN answers = 1 .. Len(answers) /\ DOMAIN answers' = 1 .. Len(answers) + 1
      /\ \A i \in 1 .. Len(answers) : answers'[i] = answers[i]
      /\ answers'[Len(answers) + 1].driverId = work[m].won
  <2>1. ~At(m, "idle") /\ TypeOK
    BY DEF At, PromiseInv
  <2>2. answers \in Seq([rideId : Rides, driverId : Drivers \cup {None}])
    BY <2>1 DEF TypeOK
  <2>3. DOMAIN answers = 1 .. Len(answers) /\ Len(answers) \in Nat
    BY <2>2, LenProperties
  <2>4. /\ answers' \in Seq([rideId : Rides, driverId : Drivers \cup {None}])
        /\ Len(answers') = Len(answers) + 1
        /\ \A i \in 1 .. Len(answers) : answers'[i] = answers[i]
        /\ answers'[Len(answers) + 1] = [rideId |-> work[m].ride, driverId |-> work[m].won]
    BY <2>1, AnswerTyped
  <2>5. DOMAIN answers' = 1 .. Len(answers) + 1
    BY <2>4, LenProperties
  <2> QED BY <2>3, <2>4, <2>5
<1>4. WonLate'
  BY <1>1 DEF PromiseInv, WonLate
<1>5. FreeIsUnspoken'
  BY <1>1, <1>2, <1>3 DEF PromiseInv, FreeIsUnspoken
<1>6. WinnerHasNotAnswered'
  BY <1>1, <1>2, <1>3 DEF PromiseInv, WinnerHasNotAnswered, OneWinner
<1>7. OneWinner'
  BY <1>1, <1>2 DEF PromiseInv, OneWinner
<1>8. PromisedOnce'
  <2>1. work[m].won \in Drivers \cup {None}
    BY DEF PromiseInv, TypeOK, WorkStates
  <2>2. work[m].won \in Drivers \ lapsed =>
          \A i \in 1 .. Len(answers) : answers[i].driverId # work[m].won
    BY <1>3 DEF PromiseInv, WinnerHasNotAnswered, At
  <2> QED BY <1>3, <2>1, <2>2 DEF PromiseInv, PromisedOnce
<1> QED BY <1>4, <1>5, <1>6, <1>7, <1>8 DEF PromiseInv

\* How a handler ends, as far as the driver it won is concerned.
LEMMA EndForgets ==
    ASSUME TypeOK, NEW m \in Members, Return(m) \/ Throw(m)
    PROVE  \E state : state.won = None /\ work' = [work EXCEPT ![m] = state]
<1> DEFINE again == [Idle EXCEPT !.pc = "check", !.ride = work[m].ride]
<1>1. again.won = None /\ Idle.won = None
  BY DEF Idle
<1>2. work' = [work EXCEPT ![m] = again] \/ work' = [work EXCEPT ![m] = Idle]
  BY DEF Return, Throw
<1> HIDE DEF again
<1> QED BY <1>1, <1>2

LEMMA PromiseInit == Init => PromiseInv
BY TypeInit, DispatchAssumption
DEF Init, PromiseInv, WonLate, FreeIsUnspoken, WinnerHasNotAnswered, OneWinner, PromisedOnce, Idle

LEMMA PromiseNext == PromiseInv /\ [Next]_vars => PromiseInv'
<1> SUFFICES ASSUME PromiseInv, [Next]_vars PROVE PromiseInv'
  OBVIOUS
<1>T. TypeOK /\ TypeOK'
  BY TypeNext DEF PromiseInv
<1>1. ASSUME UNCHANGED <<reservations, answers, work>>, lapsed \subseteq lapsed' PROVE PromiseInv'
  BY <1>1, <1>T
  DEF PromiseInv, WonLate, FreeIsUnspoken, WinnerHasNotAnswered, OneWinner, PromisedOnce
<1>2. ASSUME NEW m \in Members, NEW pc \in {"search", "reserve", "publish", "mark"}, Goto(m, pc),
             UNCHANGED <<reservations, answers, lapsed>>,
             \/ work[m].won = None
             \/ /\ pc \in {"publish", "mark"}
                /\ pc = "publish" => work[m].pc \in {"sync", "publish"}
      PROVE  PromiseInv'
  <2> DEFINE state == [work[m] EXCEPT !.pc = pc]
  <2>1. state.pc = pc /\ state.won = work[m].won
    BY <1>T DEF TypeOK, WorkStates
  <2>2. work' = [work EXCEPT ![m] = state]
    BY <1>2, <1>T DEF Goto, TypeOK
  <2> HIDE DEF state
  <2> QED BY <1>2, <1>T, <2>1, <2>2, QuietStep
<1>3. ASSUME NEW m \in Members, Return(m) \/ Throw(m), UNCHANGED <<reservations, answers, lapsed>>
      PROVE  PromiseInv'
  BY <1>3, <1>T, EndForgets, QuietStep
<1>4. CASE Take
  <2> DEFINE state == [Idle EXCEPT !.pc = "check",
                                   !.ride = log[RequestTopic][position[RequestTopic] + 1]]
  <2>1. state.won = None
    BY DEF Idle
  <2>2. work' = [work EXCEPT ![owner] = state] /\ owner \in Members
    BY <1>4, <1>T DEF Take, TypeOK
  <2> HIDE DEF state
  <2> QED BY <1>4, <1>T, <2>1, <2>2, QuietStep DEF Take, redisVars
<1>5. ASSUME NEW m \in Members, HandlerStep(m) PROVE PromiseInv'
  <2>0. work[m] \in WorkStates /\ (At(m, "idle") \/ work[m].ride \in Rides)
    BY <1>T DEF TypeOK
  <2>1. CASE CheckProcessed(m)
    <3>1. work[m].won = None
      BY <2>1 DEF CheckProcessed, At, PromiseInv, WonLate
    <3> QED BY <1>2, <1>3, <2>1, <3>1 DEF CheckProcessed, redisVars
  <2>2. CASE Search(m)
    <3>1. PICK ranking \in Rankings :
            work' = [work EXCEPT ![m].pc = "reserve", ![m].candidates = ranking]
      BY <2>2 DEF Search
    <3> DEFINE state == [work[m] EXCEPT !.pc = "reserve", !.candidates = ranking]
    <3>2. state.won = None /\ work' = [work EXCEPT ![m] = state]
      BY <1>T, <2>0, <2>2, <3>1 DEF Search, At, PromiseInv, WonLate, TypeOK, WorkStates
    <3> HIDE DEF state
    <3> QED BY <1>T, <2>2, <3>2, QuietStep DEF Search, redisVars
  <2>3. CASE TryCandidate(m)
    <3> DEFINE d == Head(work[m].candidates)
               won == [work[m] EXCEPT !.pc = "sync", !.candidates = << >>, !.won = d]
               lost == [work[m] EXCEPT !.candidates = Tail(work[m].candidates)]
    <3>1. d \in Drivers /\ work[m].won = None
      BY <2>0, <2>3, HeadTailProperties DEF TryCandidate, At, PromiseInv, WonLate, WorkStates
    <3>2. /\ won.won = d /\ won.pc = "sync"
          /\ lost.won = None /\ lost.pc = "reserve"
      BY <2>0, <2>3, <3>1 DEF TryCandidate, At, WorkStates
    <3>3. CASE reservations[d] # None
      <4>1. work' = [work EXCEPT ![m] = lost] /\ UNCHANGED <<reservations, lapsed, answers>>
        BY <2>3, <3>3 DEF TryCandidate, tryReserve, Unreserved
      <4> HIDE DEF lost
      <4> QED BY <1>T, <3>2, <4>1, QuietStep
    <3>4. CASE reservations[d] = None
      <4>1. /\ work' = [work EXCEPT ![m] = won]
            /\ reservations' = [reservations EXCEPT ![d] = work[m].ride]
            /\ UNCHANGED <<lapsed, answers>>
        BY <2>3, <3>4 DEF TryCandidate, tryReserve, Unreserved
      <4>2. work[m].ride # None /\ None \notin Drivers
        BY <2>0, <2>3, DispatchAssumption DEF TryCandidate, At
      <4> HIDE DEF won, d
      <4>3. /\ \A n \in Members : work'[n] = IF n = m THEN won ELSE work[n]
            /\ \A e \in Drivers : reservations'[e] = IF e = d THEN work[m].ride ELSE reservations[e]
        BY <1>T, <4>1 DEF TypeOK
      <4>4. d \notin lapsed => /\ \A i \in DOMAIN answers : answers[i].driverId # d
                               /\ \A n \in Members : work[n].won # d
        BY <3>1, <3>4 DEF PromiseInv, FreeIsUnspoken
      <4>5. WonLate'
        BY <3>2, <4>3 DEF PromiseInv, WonLate
      <4>6. FreeIsUnspoken'
        BY <3>2, <4>1, <4>2, <4>3 DEF PromiseInv, FreeIsUnspoken
      <4>7. WinnerHasNotAnswered'
        BY <3>2, <4>1, <4>3, <4>4 DEF PromiseInv, WinnerHasNotAnswered
      <4>8. OneWinner'
        BY <3>2, <4>1, <4>3, <4>4 DEF PromiseInv, OneWinner
      <4>9. PromisedOnce'
        BY <4>1 DEF PromiseInv, PromisedOnce
      <4> QED BY <1>T, <4>5, <4>6, <4>7, <4>8, <4>9 DEF PromiseInv
    <3> QED BY <3>3, <3>4
  <2>4. CASE NoCandidateLeft(m)
    <3>1. work[m].won = None
      BY <2>4 DEF NoCandidateLeft, At, PromiseInv, WonLate
    <3> QED BY <1>2, <2>4, <3>1 DEF NoCandidateLeft, redisVars
  <2>5. CASE SyncDriver(m)
    BY <1>2, <2>5 DEF SyncDriver, At, redisVars
  <2>6. CASE Publish(m)
    <3> DEFINE state == [work[m] EXCEPT !.pc = "mark"]
    <3>1. state.pc = "mark" /\ state.won = work[m].won
      BY <2>0 DEF WorkStates
    <3>2. work' = [work EXCEPT ![m] = state]
      BY <1>T, <2>6 DEF Publish, Goto, TypeOK
    <3> HIDE DEF state
    <3> QED BY <1>T, <2>6, <3>1, <3>2, PublishStep DEF Publish, redisVars
  <2>7. CASE MarkProcessed(m)
    BY <1>3, <2>7 DEF MarkProcessed
  <2> QED BY <1>5, <2>1, <2>2, <2>3, <2>4, <2>5, <2>6, <2>7 DEF HandlerStep
<1>6. ASSUME NEW m \in Members, StepFails(m) PROVE PromiseInv'
  <2>1. CASE UNCHANGED answers
    BY <1>3, <1>6, <2>1 DEF StepFails, redisVars
  <2>2. CASE At(m, "publish") /\ PublishAnswer(m)
    BY <1>6, <1>T, <2>2, EndForgets, PublishStep DEF StepFails, redisVars
  <2> QED BY <1>6, <2>1, <2>2 DEF StepFails
<1>7. ASSUME NEW m \in Members, Restart(m) PROVE PromiseInv'
  BY <1>7, <1>T, IdleTyped, QuietStep DEF Restart, redisVars
<1>8. ASSUME NEW m \in Members, Reassign(m) PROVE PromiseInv'
  BY <1>1, <1>8 DEF Reassign, redisVars
<1>9. ASSUME NEW d \in Drivers, ReservationExpires(d) PROVE PromiseInv'
  <2>1. /\ lapsed' = lapsed \cup {d} /\ UNCHANGED <<work, answers>>
        /\ \A e \in Drivers : e # d => reservations'[e] = reservations[e]
    BY <1>9, <1>T DEF ReservationExpires, TypeOK
  <2> QED BY <1>T, <2>1
      DEF PromiseInv, WonLate, FreeIsUnspoken, WinnerHasNotAnswered, OneWinner, PromisedOnce
<1>10. ASSUME NEW r \in Rides, RequestRide(r) \/ Duplicate(r) PROVE PromiseInv'
  BY <1>1, <1>10 DEF RequestRide, Duplicate, redisVars
<1>11. CASE Commit \/ UNCHANGED vars
  BY <1>1, <1>11 DEF Commit, vars, redisVars
<1>12. ASSUME NEW d \in Drivers, NEW status \in DriverStatus, OthersPatch(d, status) PROVE PromiseInv'
  BY <1>1, <1>12 DEF OthersPatch, redisVars
<1> QED BY <1>4, <1>5, <1>6, <1>7, <1>8, <1>9, <1>10, <1>11, <1>12 DEF Next

\* While a driver's reservation has not run out, one answer at most names the
\* driver, whatever replicas, rides and redeliveries compete for it.
THEOREM DriverIsPromisedOnce == Spec => []PromisedOnce
<1>1. PromiseInv => PromisedOnce
  BY DEF PromiseInv
<1> QED BY <1>1, PromiseInit, PromiseNext, PTL DEF Spec

-----------------------------------------------------------------------------
\* Nothing is dropped.  A message is resolved by a member that found its ride
\* marked or has just answered it, or by parking; the member in question works
\* on the message in hand, not on one it took before it lost the partition.

InHand == handling # NoTopic => ~At(owner, "idle") /\ work[owner].ride = Envelope

AnsweredBeforeMark == \A m \in Members : At(m, "mark") => Answered(work[m].ride)

ResolvedIsAnswered ==
    \A i \in 1 .. position[RequestTopic] :
        Answered(log[RequestTopic][i]) \/ <<RequestTopic, i>> \in dlt

AnswerInv == TypeOK /\ InHand /\ AnsweredBeforeMark /\ MarkedIsAnswered /\ ResolvedIsAnswered

AnswersOnlyGrow == \A r \in Rides : Answered(r) => Answered(r)'

LEMMA PublishingGrows ==
    ASSUME TypeOK, NEW m \in Members, ~At(m, "idle"), PublishAnswer(m)
    PROVE  AnswersOnlyGrow /\ \E i \in DOMAIN answers' : answers'[i].rideId = work[m].ride
<1>1. /\ answers \in Seq([rideId : Rides, driverId : Drivers \cup {None}])
      /\ answers' \in Seq([rideId : Rides, driverId : Drivers \cup {None}])
      /\ Len(answers') = Len(answers) + 1
      /\ \A i \in 1 .. Len(answers) : answers'[i] = answers[i]
      /\ answers'[Len(answers) + 1] = [rideId |-> work[m].ride, driverId |-> work[m].won]
  BY AnswerTyped DEF TypeOK
<1>2. /\ Len(answers) \in Nat
      /\ DOMAIN answers = 1 .. Len(answers) /\ DOMAIN answers' = 1 .. Len(answers) + 1
  BY <1>1, LenProperties
<1> QED BY <1>1, <1>2 DEF AnswersOnlyGrow, Answered

LEMMA KeepingGrows == UNCHANGED answers => AnswersOnlyGrow
BY DEF AnswersOnlyGrow, Answered

\* The message in hand is the next one of the one topic.
LEMMA MessageInHand ==
    ASSUME TypeOK, handling # NoTopic
    PROVE  /\ handling = RequestTopic /\ Offset = position[RequestTopic] + 1
           /\ Offset \in 1 .. Len(log[RequestTopic])
           /\ Envelope = log[RequestTopic][Offset] /\ Envelope \in Rides
<1>1. handling = RequestTopic /\ log[RequestTopic] \in Seq(Rides)
      /\ position[RequestTopic] \in Nat /\ position[RequestTopic] < Len(log[RequestTopic])
  BY DispatchAssumption DEF TypeOK, ConsumerTypeOK, OffsetsOK
<1>2. Offset = position[RequestTopic] + 1 /\ Offset \in 1 .. Len(log[RequestTopic])
  BY <1>1, LenProperties DEF Offset
<1> QED BY <1>1, <1>2, ElementOfSeq DEF Envelope

\* What was resolved stays answered or parked.
LEMMA ResolvedKept ==
    ASSUME AnswerInv, AnswersOnlyGrow, UNCHANGED log, dlt \subseteq dlt',
           \/ position'[RequestTopic] <= position[RequestTopic]
           \/ /\ position'[RequestTopic] = position[RequestTopic] + 1
              /\ handling # NoTopic
              /\ Answered(work[owner].ride) \/ <<RequestTopic, Offset>> \in dlt',
           position'[RequestTopic] \in Nat
    PROVE  ResolvedIsAnswered'
<1> SUFFICES ASSUME NEW i \in 1 .. position'[RequestTopic]
             PROVE  Answered(log[RequestTopic][i])' \/ <<RequestTopic, i>> \in dlt'
  BY DEF ResolvedIsAnswered
<1>1. /\ position[RequestTopic] \in Nat /\ position[RequestTopic] <= Len(log[RequestTopic])
      /\ log[RequestTopic] \in Seq(Rides) /\ TypeOK
  BY DispatchAssumption DEF AnswerInv, TypeOK, ConsumerTypeOK, OffsetsOK
<1>2. ASSUME i <= position[RequestTopic]
      PROVE  Answered(log[RequestTopic][i])' \/ <<RequestTopic, i>> \in dlt'
  <2>1. log[RequestTopic][i] \in Rides
    BY <1>1, <1>2, ElementOfSeq, LenProperties
  <2>2. Answered(log[RequestTopic][i]) \/ <<RequestTopic, i>> \in dlt
    BY <1>1, <1>2 DEF AnswerInv, ResolvedIsAnswered
  <2> QED BY <2>1, <2>2 DEF AnswersOnlyGrow, Answered
<1>3. ASSUME i > position[RequestTopic]
      PROVE  Answered(log[RequestTopic][i])' \/ <<RequestTopic, i>> \in dlt'
  <2>1. i = position[RequestTopic] + 1 /\ handling # NoTopic
    BY <1>1, <1>3
  <2>2. i = Offset /\ log[RequestTopic][i] = work[owner].ride /\ work[owner].ride \in Rides
    BY <1>1, <2>1, MessageInHand DEF AnswerInv, InHand
  <2> QED BY <1>1, <1>3, <2>2 DEF AnswersOnlyGrow, Answered
<1> QED BY <1>1, <1>2, <1>3

\* A step of member m within its handler: the loop does not move.
LEMMA WorkStep ==
    ASSUME AnswerInv, TypeOK', AnswersOnlyGrow,
           UNCHANGED <<log, consumerVars, owner, marked>>,
           NEW m \in Members, ~At(m, "idle"), NEW state, work' = [work EXCEPT ![m] = state],
           state.pc # "idle", state.ride = work[m].ride,
           state.pc = "mark" => \E i \in DOMAIN answers' : answers'[i].rideId = state.ride
    PROVE  AnswerInv'
<1>1. \A n \in Members : work'[n] = IF n = m THEN state ELSE work[n]
  BY DEF AnswerInv, TypeOK
<1>2. TypeOK /\ Envelope' = Envelope /\ handling' = handling /\ owner \in Members
  BY DEF AnswerInv, TypeOK, consumerVars, Envelope, Offset
<1>3. InHand'
  BY <1>1, <1>2 DEF AnswerInv, InHand, At
<1>4. AnsweredBeforeMark'
  BY <1>1, <1>2 DEF AnswerInv, AnsweredBeforeMark, AnswersOnlyGrow, Answered, At, TypeOK
<1>5. MarkedIsAnswered'
  BY <1>2 DEF AnswerInv, MarkedIsAnswered, AnswersOnlyGrow, TypeOK
<1>6. position[RequestTopic] \in Nat /\ position' = position /\ dlt' = dlt
  BY <1>2, DispatchAssumption DEF TypeOK, ConsumerTypeOK, consumerVars
<1>7. ResolvedIsAnswered'
  BY <1>6, ResolvedKept
<1> QED BY <1>3, <1>4, <1>5, <1>7 DEF AnswerInv

\* The handler of member m ends: it returns with its ride answered, or throws.
LEMMA EndStep ==
    ASSUME AnswerInv, TypeOK', AnswersOnlyGrow, UNCHANGED owner,
           \A r \in marked' : r \in marked \/ Answered(r),
           NEW m \in Members, ~At(m, "idle"),
           \/ Return(m) /\ Answered(work[m].ride)
           \/ Throw(m)
    PROVE  AnswerInv'
<1> DEFINE again == [Idle EXCEPT !.pc = "check", !.ride = work[m].ride]
<1>0. TypeOK /\ owner \in Members /\ position[RequestTopic] \in Nat
      /\ position \in [Topics -> Nat] /\ attempt \in 0 .. MaxAttempts
  BY DispatchAssumption DEF AnswerInv, TypeOK, ConsumerTypeOK
<1>1. /\ again.pc = "check" /\ again.ride = work[m].ride
      /\ Idle.pc = "idle"
  BY DEF Idle
<1>2. work' = [work EXCEPT ![m] = again] \/ work' = [work EXCEPT ![m] = Idle]
  BY DEF Return, Throw
<1>3. AnsweredBeforeMark'
  <2>1. \A n \in Members : n # m => work'[n] = work[n]
    BY <1>0, <1>2 DEF TypeOK
  <2>2. work'[m].pc # "mark"
    BY <1>0, <1>1, <1>2 DEF TypeOK
  <2>3. ASSUME NEW n \in Members, At(n, "mark")' PROVE Answered(work[n].ride)'
    <3>1. n # m /\ work'[n] = work[n] /\ At(n, "mark")
      BY <2>1, <2>2, <2>3 DEF At
    <3>2. Answered(work[n].ride) /\ work[n].ride \in Rides
      BY <1>0, <3>1 DEF AnswerInv, AnsweredBeforeMark, At, TypeOK
    <3> QED BY <3>1, <3>2 DEF AnswersOnlyGrow, Answered
  <2> QED BY <2>3 DEF AnsweredBeforeMark
<1>4. MarkedIsAnswered'
  BY DEF AnswerInv, MarkedIsAnswered, AnswersOnlyGrow, TypeOK
<1>5. CASE ~Current(m)
  <2>1. UNCHANGED <<log, consumerVars>>
    BY <1>5 DEF Return, Throw
  <2>2. ResolvedIsAnswered'
    BY <1>0, <2>1, ResolvedKept DEF consumerVars
  <2>3. InHand'
    <3>1. handling' = handling /\ Envelope' = Envelope
      BY <2>1 DEF consumerVars, Envelope, Offset
    <3>2. handling # NoTopic => m # owner
      BY <1>5 DEF Current
    <3>3. handling # NoTopic => work'[owner] = work[owner]
      BY <1>0, <1>2, <3>2 DEF TypeOK
    <3> QED BY <3>1, <3>3 DEF AnswerInv, InHand, At
  <2> QED BY <1>3, <1>4, <2>2, <2>3 DEF AnswerInv
<1>6. CASE Current(m) /\ Return(m) /\ Answered(work[m].ride)
  <2>1. handling # NoTopic /\ m = owner /\ HandlerReturns /\ handling = RequestTopic
    BY <1>0, <1>6, MessageInHand DEF Current, Return
  <2>2. /\ position'[RequestTopic] = position[RequestTopic] + 1
        /\ handling' = NoTopic /\ UNCHANGED <<log, dlt>>
    BY <1>0, <2>1, DispatchAssumption DEF HandlerReturns, Resolve
  <2>3. ResolvedIsAnswered'
    BY <1>0, <1>6, <2>1, <2>2, ResolvedKept
  <2> QED BY <1>3, <1>4, <2>2, <2>3 DEF AnswerInv, InHand
<1>7. CASE Current(m) /\ Throw(m)
  <2>1. handling # NoTopic /\ m = owner /\ HandlerThrows /\ handling = RequestTopic
    BY <1>0, <1>7, MessageInHand DEF Current, Throw
  <2>2. CASE attempt < MaxAttempts
    <3>1. /\ UNCHANGED <<log, position, handling, dlt>>
          /\ work' = [work EXCEPT ![m] = again]
      BY <1>0, <1>7, <2>1, <2>2, ConsumerAssumption DEF HandlerThrows, Throw
    <3>2. Envelope' = Envelope
      BY <3>1 DEF Envelope, Offset
    <3>3. work'[owner] = again
      BY <1>0, <2>1, <3>1 DEF TypeOK
    <3> HIDE DEF again
    <3>4. InHand'
      BY <1>1, <2>1, <3>1, <3>2, <3>3 DEF AnswerInv, InHand, At
    <3>5. ResolvedIsAnswered'
      BY <1>0, <3>1, ResolvedKept
    <3> QED BY <1>3, <1>4, <3>4, <3>5 DEF AnswerInv
  <2>3. CASE attempt = MaxAttempts
    <3>1. /\ UNCHANGED log /\ handling' = NoTopic
          /\ dlt' = dlt \cup {<<handling, Offset>>}
          /\ position' = [position EXCEPT ![handling] = @ + 1]
      BY <1>0, <2>1, <2>3, ConsumerAssumption DEF HandlerThrows, Resolve
    <3>2. position'[RequestTopic] = position[RequestTopic] + 1
      BY <1>0, <2>1, <3>1, DispatchAssumption
    <3>3. ResolvedIsAnswered'
      BY <1>0, <2>1, <3>1, <3>2, ResolvedKept
    <3> QED BY <1>3, <1>4, <3>1, <3>3 DEF AnswerInv, InHand
  <2> QED BY <1>0, <2>2, <2>3, ConsumerAssumption
<1> QED BY <1>5, <1>6, <1>7

LEMMA AnswerInit == Init => AnswerInv
BY TypeInit, DispatchAssumption
DEF Init, ConsumerInit, AnswerInv, InHand, AnsweredBeforeMark, MarkedIsAnswered,
    ResolvedIsAnswered, At, Idle

LEMMA AnswerNext == AnswerInv /\ [Next]_vars => AnswerInv'
<1> SUFFICES ASSUME AnswerInv, [Next]_vars PROVE AnswerInv'
  OBVIOUS
<1>T. TypeOK /\ TypeOK' /\ owner \in Members /\ position[RequestTopic] \in Nat
      /\ position'[RequestTopic] \in Nat
  <2>1. TypeOK /\ TypeOK'
    BY TypeNext DEF AnswerInv
  <2> QED BY <2>1, DispatchAssumption DEF TypeOK, ConsumerTypeOK
\* A step that ends the handling of the message in hand, if any, unresolved.
<1>1. ASSUME UNCHANGED <<log, answers, marked, dlt>>, handling' = NoTopic,
             position'[RequestTopic] <= position[RequestTopic],
             \A m \in Members : work'[m] = work[m] \/ work'[m] = Idle
      PROVE  AnswerInv'
  <2>1. AnswersOnlyGrow /\ ResolvedIsAnswered'
    BY <1>1, <1>T, KeepingGrows, ResolvedKept
  <2>2. AnsweredBeforeMark'
    BY <1>1, IdleTyped DEF AnswerInv, AnsweredBeforeMark, Answered, At
  <2>3. MarkedIsAnswered'
    BY <1>1 DEF AnswerInv, MarkedIsAnswered, Answered
  <2> QED BY <1>1, <1>T, <2>1, <2>2, <2>3 DEF AnswerInv, InHand
\* A step that leaves the loop and its handlers alone.
<1>2. ASSUME UNCHANGED <<log, position, handling, dlt, owner, work, answers, marked>> PROVE AnswerInv'
  <2>1. AnswersOnlyGrow /\ ResolvedIsAnswered'
    BY <1>2, <1>T, KeepingGrows, ResolvedKept
  <2>2. Envelope' = Envelope
    BY <1>2 DEF Envelope, Offset
  <2> QED BY <1>2, <1>T, <2>1, <2>2
      DEF AnswerInv, InHand, AnsweredBeforeMark, MarkedIsAnswered, Answered, At
<1>3. CASE Take
  <2>1. /\ handling = NoTopic /\ handling' = RequestTopic /\ At(owner, "idle")
        /\ UNCHANGED <<log, position, dlt, owner, answers, marked>>
    BY <1>3 DEF Take, Fetch, redisVars
  <2>2. Envelope' = log[RequestTopic][position[RequestTopic] + 1]
    BY <2>1 DEF Envelope, Offset
  <2>3. /\ \A m \in Members : m # owner => work'[m] = work[m]
        /\ work'[owner].pc = "check" /\ work'[owner].ride = Envelope'
    BY <1>3, <1>T, <2>2 DEF Take, TypeOK, Idle
  <2>4. AnswersOnlyGrow /\ ResolvedIsAnswered'
    BY <1>T, <2>1, KeepingGrows, ResolvedKept
  <2>5. InHand'
    BY <2>1, <2>3 DEF InHand, At
  <2>6. AnsweredBeforeMark'
    <3>1. ASSUME NEW m \in Members, At(m, "mark")' PROVE Answered(work[m].ride)'
      <4>1. m # owner
        BY <2>3, <3>1 DEF At
      <4>2. At(m, "mark") /\ work'[m] = work[m]
        BY <2>3, <3>1, <4>1 DEF At
      <4> QED BY <2>1, <4>2 DEF AnswerInv, AnsweredBeforeMark, Answered
    <3> QED BY <3>1 DEF AnsweredBeforeMark
  <2>7. MarkedIsAnswered'
    BY <2>1 DEF AnswerInv, MarkedIsAnswered, Answered
  <2> QED BY <1>T, <2>4, <2>5, <2>6, <2>7 DEF AnswerInv
<1>4. CASE Commit
  BY <1>2, <1>4 DEF Commit, AutoCommit, redisVars
<1>5. ASSUME NEW m \in Members, HandlerStep(m) PROVE AnswerInv'
  <2>0. work[m] \in WorkStates
    BY <1>T DEF TypeOK
  <2>1. ASSUME NEW pc \in {"search", "publish"}, Goto(m, pc), ~At(m, "idle"),
               UNCHANGED <<log, consumerVars, owner, marked, answers>>
        PROVE  AnswerInv'
    <3> DEFINE state == [work[m] EXCEPT !.pc = pc]
    <3>1. state.pc = pc /\ state.ride = work[m].ride
      BY <2>0 DEF WorkStates
    <3>2. work' = [work EXCEPT ![m] = state]
      BY <1>T, <2>1 DEF Goto, TypeOK
    <3> HIDE DEF state
    <3> QED BY <1>T, <2>1, <3>1, <3>2, KeepingGrows, WorkStep
  <2>2. CASE CheckProcessed(m)
    <3>1. ~At(m, "idle") /\ UNCHANGED <<owner, marked, answers>>
      BY <2>2 DEF CheckProcessed, At, redisVars
    <3>2. CASE work[m].ride \in marked
      <4>1. Return(m) /\ Answered(work[m].ride)
        BY <2>2, <3>2 DEF CheckProcessed, AnswerInv, MarkedIsAnswered
      <4> QED BY <1>T, <3>1, <4>1, KeepingGrows, EndStep
    <3>3. CASE work[m].ride \notin marked
      BY <2>1, <2>2, <3>1, <3>3 DEF CheckProcessed
    <3> QED BY <3>2, <3>3
  <2>3. CASE Search(m)
    <3>1. PICK ranking \in Rankings :
            work' = [work EXCEPT ![m].pc = "reserve", ![m].candidates = ranking]
      BY <2>3 DEF Search
    <3> DEFINE state == [work[m] EXCEPT !.pc = "reserve", !.candidates = ranking]
    <3>2. /\ state.pc = "reserve" /\ state.ride = work[m].ride
          /\ work' = [work EXCEPT ![m] = state]
      BY <1>T, <2>0, <3>1 DEF TypeOK, WorkStates
    <3> HIDE DEF state
    <3> QED BY <1>T, <2>3, <3>2, KeepingGrows, WorkStep DEF Search, At, redisVars
  <2>4. CASE TryCandidate(m)
    <3> DEFINE d == Head(work[m].candidates)
               won == [work[m] EXCEPT !.pc = "sync", !.candidates = << >>, !.won = d]
               lost == [work[m] EXCEPT !.candidates = Tail(work[m].candidates)]
    <3>1. /\ won.pc = "sync" /\ won.ride = work[m].ride
          /\ lost.pc = "reserve" /\ lost.ride = work[m].ride
      BY <2>0, <2>4 DEF TryCandidate, At, WorkStates
    <3>2. work' = [work EXCEPT ![m] = won] \/ work' = [work EXCEPT ![m] = lost]
      <4>1. CASE reservations[d] = None
        BY <2>4, <4>1 DEF TryCandidate, Unreserved
      <4>2. CASE reservations[d] # None
        BY <2>4, <4>2 DEF TryCandidate, Unreserved
      <4> QED BY <4>1, <4>2
    <3> HIDE DEF won, lost
    <3> QED BY <1>T, <2>4, <3>1, <3>2, KeepingGrows, WorkStep DEF TryCandidate, At
  <2>5. CASE NoCandidateLeft(m)
    BY <2>1, <2>5 DEF NoCandidateLeft, At, redisVars
  <2>6. CASE SyncDriver(m)
    BY <2>1, <2>6 DEF SyncDriver, At, redisVars
  <2>7. CASE Publish(m)
    <3> DEFINE state == [work[m] EXCEPT !.pc = "mark"]
    <3>1. state.pc = "mark" /\ state.ride = work[m].ride
      BY <2>0 DEF WorkStates
    <3>2. work' = [work EXCEPT ![m] = state]
      BY <1>T, <2>7 DEF Publish, Goto, TypeOK
    <3>3. ~At(m, "idle") /\ PublishAnswer(m)
      BY <2>7 DEF Publish, At
    <3> HIDE DEF state
    <3>4. AnswersOnlyGrow /\ \E i \in DOMAIN answers' : answers'[i].rideId = state.ride
      BY <1>T, <3>1, <3>3, PublishingGrows
    <3> QED BY <1>T, <2>7, <3>1, <3>2, <3>3, <3>4, WorkStep DEF Publish, redisVars
  <2>8. CASE MarkProcessed(m)
    <3>1. ~At(m, "idle") /\ Answered(work[m].ride)
      BY <2>8 DEF MarkProcessed, At, AnswerInv, AnsweredBeforeMark
    <3>2. Return(m) /\ UNCHANGED <<owner, answers>> /\ \A r \in marked' : r \in marked \/ Answered(r)
      BY <2>8, <3>1 DEF MarkProcessed
    <3> QED BY <1>T, <3>1, <3>2, KeepingGrows, EndStep
  <2> QED BY <1>5, <2>2, <2>3, <2>4, <2>5, <2>6, <2>7, <2>8 DEF HandlerStep
<1>6. ASSUME NEW m \in Members, StepFails(m) PROVE AnswerInv'
  <2>1. ~At(m, "idle") /\ Throw(m) /\ UNCHANGED <<owner, marked>>
    BY <1>6 DEF StepFails, At, redisVars
  <2>2. AnswersOnlyGrow
    BY <1>6, <1>T, <2>1, KeepingGrows, PublishingGrows DEF StepFails
  <2> QED BY <1>T, <2>1, <2>2, EndStep
<1>7. ASSUME NEW m \in Members, Restart(m) PROVE AnswerInv'
  <2>1. /\ UNCHANGED <<log, answers, marked, dlt, owner>>
        /\ \A n \in Members : work'[n] = IF n = m THEN Idle ELSE work[n]
    BY <1>7, <1>T DEF Restart, ConsumerRestart, redisVars, consumerVars, TypeOK
  <2>2. CASE m = owner
    <3>1. handling' = NoTopic /\ position'[RequestTopic] <= position[RequestTopic]
      BY <1>7, <1>T, <2>2, DispatchAssumption
      DEF Restart, ConsumerRestart, TypeOK, OffsetsOK
    <3> QED BY <1>1, <2>1, <3>1
  <2>3. CASE m # owner
    <3>1. UNCHANGED <<log, consumerVars>>
      BY <1>7, <2>3 DEF Restart
    <3>2. Envelope' = Envelope /\ handling' = handling /\ work'[owner] = work[owner]
      BY <1>T, <2>1, <2>3, <3>1 DEF consumerVars, Envelope, Offset
    <3>3. InHand'
      BY <2>1, <3>2 DEF AnswerInv, InHand, At
    <3>4. AnswersOnlyGrow /\ ResolvedIsAnswered'
      BY <1>T, <2>1, <3>1, KeepingGrows, ResolvedKept DEF consumerVars
    <3>5. AnsweredBeforeMark' /\ MarkedIsAnswered'
      BY <2>1, IdleTyped DEF AnswerInv, AnsweredBeforeMark, MarkedIsAnswered, Answered, At
    <3> QED BY <1>T, <3>3, <3>4, <3>5 DEF AnswerInv
  <2> QED BY <2>2, <2>3
<1>8. ASSUME NEW m \in Members, Reassign(m) PROVE AnswerInv'
  <2>1. /\ UNCHANGED <<log, answers, marked, dlt, work>> /\ handling' = NoTopic
        /\ position'[RequestTopic] <= position[RequestTopic]
    BY <1>8, <1>T, DispatchAssumption
    DEF Reassign, ConsumerRestart, redisVars, TypeOK, OffsetsOK
  <2> QED BY <1>1, <2>1
<1>9. ASSUME NEW d \in Drivers, ReservationExpires(d) PROVE AnswerInv'
  BY <1>2, <1>9 DEF ReservationExpires, consumerVars
<1>10. ASSUME NEW r \in Rides, RequestRide(r) \/ Duplicate(r) PROVE AnswerInv'
  <2>1. /\ UNCHANGED <<consumerVars, owner, work, answers, marked>>
        /\ SendTo(RequestTopic, r) /\ LoopInv(Rides) /\ RequestTopic \in Topics
    BY <1>10, <1>T, DispatchAssumption DEF RequestRide, Duplicate, redisVars, TypeOK, LoopInv
  <2>2. \A i \in 1 .. Len(log[RequestTopic]) : log'[RequestTopic][i] = log[RequestTopic][i]
    BY <2>1, LoopSend
  <2>3. /\ position[RequestTopic] <= Len(log[RequestTopic]) /\ Len(log[RequestTopic]) \in Nat
    BY <1>T, <2>1, LenProperties DEF TypeOK, ConsumerTypeOK, OffsetsOK
  <2>4. ResolvedIsAnswered'
    BY <1>T, <2>1, <2>2, <2>3 DEF consumerVars, AnswerInv, ResolvedIsAnswered, Answered
  <2>5. InHand'
    <3>1. CASE handling = NoTopic
      BY <2>1, <3>1 DEF consumerVars, InHand
    <3>2. CASE handling # NoTopic
      <4>1. Envelope' = Envelope
        BY <1>T, <2>1, <2>2, <3>2, MessageInHand DEF consumerVars, Envelope, Offset
      <4> QED BY <2>1, <4>1 DEF consumerVars, AnswerInv, InHand, At
    <3> QED BY <3>1, <3>2
  <2>6. AnsweredBeforeMark' /\ MarkedIsAnswered'
    BY <2>1 DEF AnswerInv, AnsweredBeforeMark, MarkedIsAnswered, Answered, At
  <2> QED BY <1>T, <2>4, <2>5, <2>6 DEF AnswerInv
<1>11. CASE UNCHANGED vars
  BY <1>2, <1>11 DEF vars, consumerVars, redisVars
<1>12. ASSUME NEW d \in Drivers, NEW status \in DriverStatus, OthersPatch(d, status) PROVE AnswerInv'
  BY <1>2, <1>12 DEF OthersPatch, consumerVars, redisVars
<1> QED BY <1>3, <1>4, <1>5, <1>6, <1>7, <1>8, <1>9, <1>10, <1>11, <1>12 DEF Next

\* A ride is marked processed only once Kafka has an answer for it.
THEOREM MarkedOnceAnswered == Spec => []MarkedIsAnswered
<1>1. AnswerInv => MarkedIsAnswered
  BY DEF AnswerInv
<1> QED BY <1>1, AnswerInit, AnswerNext, PTL DEF Spec

\* A committed ride.requested was answered or is parked, through failures,
\* restarts and reassignments of the partition.
THEOREM NothingIsDropped == Spec => []NothingDropped
<1>1. AnswerInv => NothingDropped
  BY DispatchAssumption
  DEF AnswerInv, TypeOK, ConsumerTypeOK, OffsetsOK, ResolvedIsAnswered, NothingDropped
<1> QED BY <1>1, AnswerInit, AnswerNext, PTL DEF Spec

-----------------------------------------------------------------------------
\* Answers are paid for.  Every answer a ride has, every member on its way to
\* one, and every copy of its request that may still be taken is covered: one
\* by the request, and one by each fault.

\* The members on their way to an answer for ride r.
Busy(r) ==
    { m \in Members :
        /\ work[m].ride = r
        /\ \/ work[m].pc \in {"search", "reserve", "sync", "publish"}
           \/ work[m].pc = "check" /\ r \notin marked }

\* The copies of the request that would make one, if they were taken (again).
Open(r) ==
    { i \in DOMAIN log[RequestTopic] :
        /\ log[RequestTopic][i] = r
        /\ r \notin marked
        /\ ~(handling # NoTopic /\ i = Offset) }

Cost(r) == Cardinality(AnswersFor(r)) + Cardinality(Busy(r)) + Cardinality(Open(r))

Covered == \A r \in Rides : Cost(r) <= 1 + faults

\* Nobody answers, or works on, a ride that was not requested.
OnlyRequested ==
    /\ \A i \in DOMAIN answers : answers[i].rideId \in Requested
    /\ \A m \in Members : ~At(m, "idle") => work[m].ride \in Requested

CostInv == AnswerInv /\ OnlyRequested /\ Covered

\* T has at most k elements more than S.
AtMost(S, T, k) ==
    \/ k = 0 /\ T \subseteq S
    \/ k = 1 /\ \E x : T \subseteq S \cup {x}
    \/ k = 0 - 1 /\ \E x \in S : T \subseteq S \ {x}

LEMMA CountAtMost ==
    ASSUME NEW S, IsFiniteSet(S), NEW T, NEW k \in Int, AtMost(S, T, k)
    PROVE  IsFiniteSet(T) /\ Cardinality(T) <= Cardinality(S) + k
           /\ Cardinality(T) \in Nat /\ Cardinality(S) \in Nat
<1>0. Cardinality(S) \in Nat
  BY FS_CardinalityType
<1>1. ASSUME NEW U, IsFiniteSet(U), T \subseteq U
      PROVE  IsFiniteSet(T) /\ Cardinality(T) <= Cardinality(U) /\ Cardinality(T) \in Nat
  BY <1>1, FS_Subset, FS_CardinalityType
<1>2. CASE k = 0 /\ T \subseteq S
  BY <1>0, <1>1, <1>2
<1>3. ASSUME NEW x, k = 1, T \subseteq S \cup {x}
      PROVE  IsFiniteSet(T) /\ Cardinality(T) <= Cardinality(S) + k /\ Cardinality(T) \in Nat
  <2>1. IsFiniteSet(S \cup {x}) /\ Cardinality(S \cup {x}) <= Cardinality(S) + 1
    BY <1>0, FS_AddElement
  <2>2. Cardinality(S \cup {x}) \in Nat
    BY <2>1, FS_CardinalityType
  <2> QED BY <1>0, <1>1, <1>3, <2>1, <2>2
<1>4. ASSUME NEW x \in S, k = 0 - 1, T \subseteq S \ {x}
      PROVE  IsFiniteSet(T) /\ Cardinality(T) <= Cardinality(S) + k /\ Cardinality(T) \in Nat
  <2>1. IsFiniteSet(S \ {x}) /\ Cardinality(S \ {x}) = Cardinality(S) - 1
    BY <1>0, FS_RemoveElement
  <2> QED BY <1>0, <1>1, <1>4, <2>1
<1> QED BY <1>0, <1>2, <1>3, <1>4 DEF AtMost

LEMMA CostIsFinite ==
    ASSUME TypeOK, NEW r
    PROVE  IsFiniteSet(AnswersFor(r)) /\ IsFiniteSet(Busy(r)) /\ IsFiniteSet(Open(r))
<1>1. IsFiniteSet(DOMAIN answers) /\ IsFiniteSet(DOMAIN log[RequestTopic])
  <2>1. log[RequestTopic] \in Seq(Rides)
        /\ answers \in Seq([rideId : Rides, driverId : Drivers \cup {None}])
    BY DispatchAssumption DEF TypeOK, ConsumerTypeOK
  <2>2. /\ Len(answers) \in Nat /\ DOMAIN answers = 1 .. Len(answers)
        /\ Len(log[RequestTopic]) \in Nat
        /\ DOMAIN log[RequestTopic] = 1 .. Len(log[RequestTopic])
    BY <2>1, LenProperties
  <2> QED BY <2>2, FS_Interval
<1>2. /\ AnswersFor(r) \subseteq DOMAIN answers
      /\ Busy(r) \subseteq Members
      /\ Open(r) \subseteq DOMAIN log[RequestTopic]
  BY DEF AnswersFor, Busy, Open
<1> QED BY <1>1, <1>2, FS_Subset, DispatchAssumption

LEMMA CostStep ==
    ASSUME TypeOK, NEW r, NEW a \in Int, NEW b \in Int, NEW o \in Int,
           AtMost(AnswersFor(r), AnswersFor(r)', a),
           AtMost(Busy(r), Busy(r)', b),
           AtMost(Open(r), Open(r)', o)
    PROVE  Cost(r)' <= Cost(r) + a + b + o /\ Cost(r) \in Nat /\ Cost(r)' \in Nat
<1>0. IsFiniteSet(AnswersFor(r)) /\ IsFiniteSet(Busy(r)) /\ IsFiniteSet(Open(r))
  BY CostIsFinite
<1>1. /\ Cardinality(AnswersFor(r)') <= Cardinality(AnswersFor(r)) + a
      /\ Cardinality(AnswersFor(r)') \in Nat /\ Cardinality(AnswersFor(r)) \in Nat
  BY <1>0, CountAtMost
<1>2. /\ Cardinality(Busy(r)') <= Cardinality(Busy(r)) + b
      /\ Cardinality(Busy(r)') \in Nat /\ Cardinality(Busy(r)) \in Nat
  BY <1>0, CountAtMost
<1>3. /\ Cardinality(Open(r)') <= Cardinality(Open(r)) + o
      /\ Cardinality(Open(r)') \in Nat /\ Cardinality(Open(r)) \in Nat
  BY <1>0, CountAtMost
<1> QED BY <1>1, <1>2, <1>3 DEF Cost

\* What a step does to the cost of one ride rho is paid by the faults it is;
\* to no other ride does it add anything.
LEMMA StepIsPaid ==
    ASSUME TypeOK, Covered, NEW rho, NEW a \in Int, NEW b \in Int, NEW o \in Int,
           AtMost(AnswersFor(rho), AnswersFor(rho)', a),
           AtMost(Busy(rho), Busy(rho)', b),
           AtMost(Open(rho), Open(rho)', o),
           faults \in Nat, faults' \in Nat,
           faults + a + b + o <= faults', faults <= faults',
           \A r \in Rides : r # rho =>
             /\ AnswersFor(r)' \subseteq AnswersFor(r)
             /\ Busy(r)' \subseteq Busy(r)
             /\ Open(r)' \subseteq Open(r)
    PROVE  Covered'
<1>1. rho \in Rides => Cost(rho)' <= 1 + faults'
  <2>1. Cost(rho)' <= Cost(rho) + a + b + o /\ Cost(rho) \in Nat /\ Cost(rho)' \in Nat
    BY CostStep
  <2>2. rho \in Rides => Cost(rho) <= 1 + faults
    BY DEF Covered
  <2> QED BY <2>1, <2>2
<1>2. ASSUME NEW r \in Rides, r # rho PROVE Cost(r)' <= 1 + faults'
  <2>1. /\ AtMost(AnswersFor(r), AnswersFor(r)', 0)
        /\ AtMost(Busy(r), Busy(r)', 0) /\ AtMost(Open(r), Open(r)', 0)
    BY <1>2 DEF AtMost
  <2>2. 0 \in Int
    OBVIOUS
  <2>3. Cost(r)' <= Cost(r) + 0 + 0 + 0 /\ Cost(r) \in Nat /\ Cost(r)' \in Nat
    BY <2>1, <2>2, CostStep
  <2> QED BY <2>3 DEF Covered
<1>3. \A r : r = rho => Cost(r)' = Cost(rho)'
  BY DEF Cost, AnswersFor, Busy, Open
<1> QED BY <1>1, <1>2, <1>3 DEF Covered

\* Member m moves on, or ends.
LEMMA BusyMoves ==
    ASSUME TypeOK, NEW m \in Members, NEW state, work' = [work EXCEPT ![m] = state],
           marked \subseteq marked', state.pc = "idle" \/ state.ride = work[m].ride
    PROVE  \A r : /\ Busy(r)' \subseteq Busy(r) \cup {m}
                  /\ r # work[m].ride => Busy(r)' \subseteq Busy(r)
                  /\ state.pc \in {"idle", "mark"} => Busy(r)' \subseteq Busy(r) \ {m}
<1>1. \A n \in Members : work'[n] = IF n = m THEN state ELSE work[n]
  BY DEF TypeOK
<1> QED BY <1>1 DEF Busy

LEMMA BusyKept == UNCHANGED work /\ marked \subseteq marked' => \A r : Busy(r)' \subseteq Busy(r)
BY DEF Busy

LEMMA AnswersKept == UNCHANGED answers => \A r : AnswersFor(r)' \subseteq AnswersFor(r)
BY DEF AnswersFor

LEMMA AnswerAdded ==
    ASSUME TypeOK, NEW m \in Members, ~At(m, "idle"), PublishAnswer(m)
    PROVE  /\ \A r : \E x : AnswersFor(r)' \subseteq AnswersFor(r) \cup {x}
           /\ \A r : r # work[m].ride => AnswersFor(r)' \subseteq AnswersFor(r)
           /\ \A i \in DOMAIN answers' :
                \/ i \in DOMAIN answers /\ answers'[i] = answers[i]
                \/ answers'[i].rideId = work[m].ride
<1>1. /\ answers \in Seq([rideId : Rides, driverId : Drivers \cup {None}])
      /\ answers' \in Seq([rideId : Rides, driverId : Drivers \cup {None}])
      /\ Len(answers') = Len(answers) + 1
      /\ \A i \in 1 .. Len(answers) : answers'[i] = answers[i]
      /\ answers'[Len(answers) + 1] = [rideId |-> work[m].ride, driverId |-> work[m].won]
  BY AnswerTyped DEF TypeOK
<1>2. /\ Len(answers) \in Nat
      /\ DOMAIN answers = 1 .. Len(answers) /\ DOMAIN answers' = 1 .. Len(answers) + 1
  BY <1>1, LenProperties
<1>3. \A i \in DOMAIN answers' :
        \/ i \in DOMAIN answers /\ answers'[i] = answers[i]
        \/ i = Len(answers) + 1 /\ answers'[i].rideId = work[m].ride
  BY <1>1, <1>2
<1>4. \A r : AnswersFor(r)' \subseteq AnswersFor(r) \cup {Len(answers) + 1}
  BY <1>3 DEF AnswersFor
<1>5. \A r : r # work[m].ride => AnswersFor(r)' \subseteq AnswersFor(r)
  BY <1>3 DEF AnswersFor
<1> QED BY <1>3, <1>4, <1>5

LEMMA OpenKept ==
    ASSUME UNCHANGED <<log, position, handling>>, marked \subseteq marked'
    PROVE  \A r : Open(r)' \subseteq Open(r)
BY DEF Open, Offset

\* The message in hand is let go, resolved or not.
LEMMA OpenReleased ==
    ASSUME TypeOK, UNCHANGED log, handling' = NoTopic, marked \subseteq marked'
    PROVE  /\ \A r : Open(r)' \subseteq Open(r) \cup {Offset}
           /\ \A r : handling = NoTopic \/ r # Envelope => Open(r)' \subseteq Open(r)
<1>1. handling # NoTopic => Envelope = log[RequestTopic][Offset]
  BY MessageInHand
<1> QED BY <1>1 DEF Open

LEMMA OpenNoMore == \A r : r \in marked' => Open(r)' = {}
BY DEF Open

LEMMA EndsAs ==
    ASSUME TypeOK, NEW m \in Members, ~At(m, "idle"), Return(m) \/ Throw(m)
    PROVE  /\ UNCHANGED log
           /\ \/ UNCHANGED <<position, handling>>
              \/ handling' = NoTopic /\ handling # NoTopic /\ m = owner
                 /\ work' = [work EXCEPT ![m] = Idle]
           /\ \/ work' = [work EXCEPT ![m] = Idle]
              \/ \E state : /\ state.pc = "check" /\ state.ride = work[m].ride
                            /\ work' = [work EXCEPT ![m] = state]
           /\ Return(m) => work' = [work EXCEPT ![m] = Idle]
<1>0. attempt \in 0 .. MaxAttempts
  BY DEF TypeOK, ConsumerTypeOK
<1> DEFINE again == [Idle EXCEPT !.pc = "check", !.ride = work[m].ride]
<1>1. again.pc = "check" /\ again.ride = work[m].ride
  BY DEF Idle
<1>2. CASE Return(m)
  BY <1>2 DEF Return, Current, HandlerReturns, Resolve, consumerVars
<1>3. CASE Throw(m) /\ ~Current(m)
  <2>1. UNCHANGED <<log, position, handling>>
    BY <1>3 DEF Throw, consumerVars
  <2>2. work' = [work EXCEPT ![m] = again] \/ work' = [work EXCEPT ![m] = Idle]
    BY <1>3 DEF Throw
  <2>3. ~Return(m) \/ work' = [work EXCEPT ![m] = Idle]
    BY DEF Return
  <2> HIDE DEF again
  <2> QED BY <1>1, <2>1, <2>2, <2>3
<1>4. CASE Throw(m) /\ Current(m)
  <2>1. HandlerThrows /\ m = owner /\ handling # NoTopic
    BY <1>4 DEF Throw, Current
  <2>2. ~Return(m) \/ work' = [work EXCEPT ![m] = Idle]
    BY DEF Return
  <2>3. CASE attempt < MaxAttempts
    <3>1. UNCHANGED <<log, position, handling>>
      BY <1>0, <2>1, <2>3, ConsumerAssumption DEF HandlerThrows
    <3>2. work' = [work EXCEPT ![m] = again]
      BY <1>4, <2>3 DEF Throw
    <3> HIDE DEF again
    <3> QED BY <1>1, <2>2, <3>1, <3>2
  <2>4. CASE attempt = MaxAttempts
    <3>1. UNCHANGED log /\ handling' = NoTopic
      BY <1>0, <2>1, <2>4, ConsumerAssumption DEF HandlerThrows, Resolve
    <3>2. work' = [work EXCEPT ![m] = Idle]
      BY <1>4, <2>4, ConsumerAssumption DEF Throw
    <3> QED BY <2>1, <2>2, <3>1, <3>2
  <2> QED BY <1>0, <2>3, <2>4, ConsumerAssumption
<1> QED BY <1>2, <1>3, <1>4

\* A handler that throws may have to be run again: that costs at most one
\* answer more, and nothing if none had been given.
LEMMA ThrowCosts ==
    ASSUME AnswerInv, NEW m \in Members, ~At(m, "idle"), Throw(m), UNCHANGED marked,
           NEW rho, rho = work[m].ride
    PROVE  /\ \E b, o \in {0 - 1, 0, 1} :
                /\ AtMost(Busy(rho), Busy(rho)', b) /\ AtMost(Open(rho), Open(rho)', o)
                /\ b + o <= 1
                /\ m \in Busy(rho) => b + o <= 0
           /\ \A r : r # rho => Busy(r)' \subseteq Busy(r) /\ Open(r)' \subseteq Open(r)
<1>0. TypeOK
  BY DEF AnswerInv
<1>1. CASE work' = [work EXCEPT ![m] = Idle]
  <2>1. /\ Busy(rho)' \subseteq Busy(rho) \ {m}
        /\ \A r : r # rho => Busy(r)' \subseteq Busy(r)
    <3>1. PICK state : state.pc = "idle" /\ work' = [work EXCEPT ![m] = state]
      BY <1>1, IdleTyped
    <3>2. /\ state.pc = "idle" \/ state.ride = work[m].ride
          /\ state.pc \in {"idle", "mark"} /\ marked \subseteq marked'
      BY <3>1
    <3>3. \A r : /\ r # work[m].ride => Busy(r)' \subseteq Busy(r)
                 /\ state.pc \in {"idle", "mark"} => Busy(r)' \subseteq Busy(r) \ {m}
      BY <1>0, <3>1, <3>2, BusyMoves
    <3> QED BY <3>2, <3>3
  <2>2. \/ \A r : Open(r)' \subseteq Open(r)
        \/ /\ Open(rho)' \subseteq Open(rho) \cup {Offset}
           /\ \A r : r # rho => Open(r)' \subseteq Open(r)
    <3>1. CASE UNCHANGED <<log, position, handling>>
      BY <3>1, OpenKept
    <3>2. CASE UNCHANGED log /\ handling' = NoTopic /\ handling # NoTopic /\ m = owner
      <4>1. Envelope = rho
        BY <3>2 DEF AnswerInv, InHand
      <4> QED BY <1>0, <3>2, <4>1, OpenReleased
    <3> QED BY <1>0, <3>1, <3>2, EndsAs
  <2>3. \E b \in {0 - 1, 0} : AtMost(Busy(rho), Busy(rho)', b) /\ (m \in Busy(rho) => b = 0 - 1)
    BY <2>1 DEF AtMost
  <2>4. \E o \in {0, 1} : AtMost(Open(rho), Open(rho)', o)
    BY <2>2 DEF AtMost
  <2>5. PICK b \in {0 - 1, 0} :
          AtMost(Busy(rho), Busy(rho)', b) /\ (m \in Busy(rho) => b = 0 - 1)
    BY <2>3
  <2>6. PICK o \in {0, 1} : AtMost(Open(rho), Open(rho)', o)
    BY <2>4
  <2>7. b + o <= 1 /\ (m \in Busy(rho) => b + o <= 0)
    BY <2>5, <2>6
  <2> QED BY <2>1, <2>2, <2>5, <2>6, <2>7
<1>2. CASE work' # [work EXCEPT ![m] = Idle]
  <2>1. PICK state : /\ state.pc = "check" /\ state.ride = work[m].ride
                     /\ work' = [work EXCEPT ![m] = state]
    BY <1>0, <1>2, EndsAs
  <2>2. /\ Busy(rho)' \subseteq Busy(rho) \cup {m}
        /\ \A r : r # rho => Busy(r)' \subseteq Busy(r)
    BY <1>0, <2>1, BusyMoves
  <2>3. \A r : Open(r)' \subseteq Open(r)
    BY <1>0, <1>2, EndsAs, OpenKept
  <2>4. AtMost(Open(rho), Open(rho)', 0)
    BY <2>3 DEF AtMost
  <2>5. CASE m \in Busy(rho)
    <3>1. AtMost(Busy(rho), Busy(rho)', 0)
      BY <2>2, <2>5 DEF AtMost
    <3>2. 0 + 0 <= 1 /\ 0 + 0 <= 0
      OBVIOUS
    <3> QED BY <2>2, <2>3, <2>4, <3>1, <3>2
  <2>6. CASE m \notin Busy(rho)
    <3>1. AtMost(Busy(rho), Busy(rho)', 1)
      BY <2>2 DEF AtMost
    <3>2. 1 + 0 <= 1
      OBVIOUS
    <3> QED BY <2>2, <2>3, <2>4, <2>6, <3>1, <3>2
  <2> QED BY <2>5, <2>6
<1> QED BY <1>1, <1>2

\* Requests are never taken back, and whoever works or answers had one.
LEMMA OnlyRequestedKept ==
    ASSUME OnlyRequested, Requested \subseteq Requested',
           \A i \in DOMAIN answers' :
             \/ i \in DOMAIN answers /\ answers'[i] = answers[i]
             \/ \E m \in Members : ~At(m, "idle") /\ answers'[i].rideId = work[m].ride,
           \A m \in Members : work'[m].pc # "idle" =>
             \/ work[m].pc # "idle" /\ work'[m].ride = work[m].ride
             \/ work'[m].ride \in Requested
    PROVE  OnlyRequested'
BY DEF OnlyRequested, At

LEMMA RequestsAreKept ==
    ASSUME TypeOK
    PROVE  /\ UNCHANGED log => Requested' = Requested
           /\ \A r \in Rides : SendTo(RequestTopic, r) =>
                /\ Requested \subseteq Requested' /\ r \in Requested'
                /\ \A x : x # r /\ UNCHANGED <<marked, position, handling>> =>
                     Open(x)' \subseteq Open(x)
                /\ \E k : \A x : UNCHANGED <<marked, position, handling>> =>
                     Open(x)' \subseteq Open(x) \cup {k}
<1>1. UNCHANGED log => Requested' = Requested
  BY DEF Requested
<1>2. ASSUME NEW r \in Rides, SendTo(RequestTopic, r)
      PROVE  /\ Requested \subseteq Requested' /\ r \in Requested'
             /\ \A x : x # r /\ UNCHANGED <<marked, position, handling>> =>
                  Open(x)' \subseteq Open(x)
             /\ \E k : \A x : UNCHANGED <<marked, position, handling>> =>
                  Open(x)' \subseteq Open(x) \cup {k}
  <2>1. /\ log[RequestTopic] \in Seq(Rides)
        /\ log'[RequestTopic] = Append(log[RequestTopic], r)
    BY <1>2, DispatchAssumption DEF TypeOK, ConsumerTypeOK, SendTo
  <2>2. /\ Len(log[RequestTopic]) \in Nat
        /\ DOMAIN log[RequestTopic] = 1 .. Len(log[RequestTopic])
        /\ DOMAIN log'[RequestTopic] = 1 .. Len(log[RequestTopic]) + 1
        /\ \A i \in 1 .. Len(log[RequestTopic]) : log'[RequestTopic][i] = log[RequestTopic][i]
        /\ log'[RequestTopic][Len(log[RequestTopic]) + 1] = r
    BY <2>1, AppendProperties, LenProperties
  <2>3. Requested \subseteq Requested' /\ r \in Requested'
    BY <2>2 DEF Requested
  <2>4. \A i \in DOMAIN log'[RequestTopic] :
          \/ i \in DOMAIN log[RequestTopic] /\ log'[RequestTopic][i] = log[RequestTopic][i]
          \/ i = Len(log[RequestTopic]) + 1 /\ log'[RequestTopic][i] = r
    BY <2>2
  <2>5. \A x : UNCHANGED <<marked, position, handling>> =>
          /\ Open(x)' \subseteq Open(x) \cup {Len(log[RequestTopic]) + 1}
          /\ x # r => Open(x)' \subseteq Open(x)
    BY <2>4 DEF Open, Offset
  <2> QED BY <2>3, <2>5
<1> QED BY <1>1, <1>2

\* A step that adds to nobody's cost.
LEMMA FreeStep ==
    ASSUME TypeOK, Covered, faults \in Nat, faults' \in Nat, faults <= faults',
           \A r : /\ AnswersFor(r)' \subseteq AnswersFor(r)
                  /\ Busy(r)' \subseteq Busy(r)
                  /\ Open(r)' \subseteq Open(r)
    PROVE  Covered'
<1>1. /\ AtMost(AnswersFor(None), AnswersFor(None)', 0)
      /\ AtMost(Busy(None), Busy(None)', 0)
      /\ AtMost(Open(None), Open(None)', 0)
  BY DEF AtMost
<1>2. 0 \in Int /\ faults + 0 + 0 + 0 <= faults'
  OBVIOUS
<1> QED BY <1>1, <1>2, StepIsPaid

\* A step of member m within its handler that publishes nothing.
LEMMA QuietCost ==
    ASSUME TypeOK, Covered, UNCHANGED <<log, consumerVars, marked, answers, faults>>,
           NEW m \in Members, ~At(m, "idle"),
           work[m].pc \in {"search", "reserve", "sync"} \/ work[m].ride \notin marked,
           work[m].pc \in {"check", "search", "reserve", "sync"},
           NEW state, work' = [work EXCEPT ![m] = state],
           state.pc # "idle", state.ride = work[m].ride
    PROVE  Covered'
<1>1. faults \in Nat /\ faults' \in Nat /\ faults <= faults'
  BY DispatchAssumption DEF TypeOK
<1>2. \A r : AnswersFor(r)' \subseteq AnswersFor(r) /\ Open(r)' \subseteq Open(r)
  BY AnswersKept, OpenKept DEF consumerVars
<1>3. m \in Busy(work[m].ride)
  BY DEF Busy
<1>4. \A r : Busy(r)' \subseteq Busy(r)
  <2>1. \A r : /\ Busy(r)' \subseteq Busy(r) \cup {m}
               /\ r # work[m].ride => Busy(r)' \subseteq Busy(r)
    BY BusyMoves
  <2> QED BY <1>3, <2>1
<1> QED BY <1>1, <1>2, <1>4, FreeStep

LEMMA CostNext ==
    ASSUME AnswerInv, AnswerInv', OnlyRequested, Covered, [Next]_vars
    PROVE  OnlyRequested' /\ Covered'
<1>T. /\ TypeOK /\ TypeOK' /\ owner \in Members
      /\ faults \in Nat /\ faults' \in Nat
  BY DispatchAssumption DEF AnswerInv, TypeOK
<1>S. ASSUME UNCHANGED <<log, answers>>,
             \A m \in Members : work'[m].pc # "idle" =>
               work[m].pc # "idle" /\ work'[m].ride = work[m].ride
      PROVE  OnlyRequested'
  BY <1>S, <1>T, RequestsAreKept, OnlyRequestedKept
<1>W. ASSUME NEW m \in Members, ~At(m, "idle"), UNCHANGED log,
             UNCHANGED answers \/ PublishAnswer(m),
             \E state : /\ state.pc = "idle" \/ state.ride = work[m].ride
                        /\ work' = [work EXCEPT ![m] = state]
      PROVE  OnlyRequested'
  <2>1. PICK state : /\ state.pc = "idle" \/ state.ride = work[m].ride
                     /\ work' = [work EXCEPT ![m] = state]
    BY <1>W
  <2>2. \A n \in Members : work'[n] = IF n = m THEN state ELSE work[n]
    BY <1>T, <2>1 DEF TypeOK
  <2>3. \A n \in Members : work'[n].pc # "idle" =>
          work[n].pc # "idle" /\ work'[n].ride = work[n].ride
    BY <1>W, <2>1, <2>2 DEF At
  <2>4. \A i \in DOMAIN answers' :
             \/ i \in DOMAIN answers /\ answers'[i] = answers[i]
             \/ answers'[i].rideId = work[m].ride
    BY <1>T, <1>W, AnswerAdded
  <2> QED BY <1>T, <1>W, <2>3, <2>4, RequestsAreKept, OnlyRequestedKept
<1>1. CASE Take
  <2> DEFINE k == position[RequestTopic] + 1
  <2>1. /\ handling = NoTopic /\ handling' = RequestTopic /\ At(owner, "idle")
        /\ UNCHANGED <<log, position, answers, marked, faults>>
    BY <1>1 DEF Take, Fetch, redisVars
  <2>2. k \in DOMAIN log[RequestTopic] /\ RequestTopic # NoTopic /\ Offset' = k
    <3>1. /\ log[RequestTopic] \in Seq(Rides) /\ position[RequestTopic] \in Nat
          /\ position[RequestTopic] < Len(log[RequestTopic])
      BY <1>1, <1>T, DispatchAssumption DEF Take, Fetch, TypeOK, ConsumerTypeOK
    <3> QED BY <2>1, <3>1, LenProperties, ConsumerAssumption, DispatchAssumption DEF Offset
  <2>3. /\ \A m \in Members : m # owner => work'[m] = work[m]
        /\ work'[owner].pc = "check" /\ work'[owner].ride = log[RequestTopic][k]
    BY <1>1, <1>T DEF Take, TypeOK, Idle
  <2> HIDE DEF k
  <2>4. PICK rho : rho = log[RequestTopic][k]
    OBVIOUS
  <2>5. rho \in Requested
    BY <2>2, <2>4 DEF Requested
  <2>6. OnlyRequested'
    BY <1>T, <2>1, <2>3, <2>4, <2>5, RequestsAreKept, OnlyRequestedKept
  <2>7. /\ \A r : AnswersFor(r)' \subseteq AnswersFor(r)
        /\ \A r : r # rho => Busy(r)' \subseteq Busy(r)
        /\ Busy(rho)' \subseteq Busy(rho) \cup {owner}
        /\ rho \in marked => Busy(rho)' \subseteq Busy(rho)
    BY <2>1, <2>3, <2>4, AnswersKept DEF Busy
  <2>8. /\ \A r : Open(r)' \subseteq Open(r)
        /\ rho \notin marked => k \in Open(rho) /\ Open(rho)' \subseteq Open(rho) \ {k}
    BY <2>1, <2>2, <2>4 DEF Open
  <2>9. CASE rho \in marked
    BY <1>T, <2>1, <2>6, <2>7, <2>8, <2>9, FreeStep
  <2>10. CASE rho \notin marked
    <3>1. /\ AtMost(AnswersFor(rho), AnswersFor(rho)', 0)
          /\ AtMost(Busy(rho), Busy(rho)', 1) /\ AtMost(Open(rho), Open(rho)', 0 - 1)
      BY <2>7, <2>8, <2>10 DEF AtMost
    <3>2. 0 \in Int /\ 1 \in Int /\ 0 - 1 \in Int /\ faults + 0 + 1 + (0 - 1) <= faults'
          /\ faults <= faults'
      BY <1>T, <2>1
    <3>3. Covered'
      BY <1>T, <2>7, <2>8, <3>1, <3>2, StepIsPaid
    <3> QED BY <2>6, <3>3
  <2> QED BY <2>9, <2>10
\* The handler of member m returns, and its ride is marked.
<1>R. ASSUME NEW m \in Members, ~At(m, "idle"), Return(m), marked \subseteq marked',
             work[m].ride \in marked', UNCHANGED <<answers, faults>>
      PROVE  OnlyRequested' /\ Covered'
  <2>1. PICK state : state.pc = "idle" /\ work' = [work EXCEPT ![m] = state]
    BY <1>R, IdleTyped DEF Return
  <2>2. OnlyRequested' /\ UNCHANGED log
    <3>1. UNCHANGED log
      BY <1>R, <1>T, EndsAs
    <3>2. state.pc = "idle" \/ state.ride = work[m].ride
      BY <2>1
    <3> QED BY <1>R, <1>W, <2>1, <3>1, <3>2
  <2>3. \A r : Busy(r)' \subseteq Busy(r)
    <3>1. \A n \in Members : work'[n] = IF n = m THEN state ELSE work[n]
      BY <1>T, <2>1 DEF TypeOK
    <3> QED BY <1>R, <2>1, <3>1 DEF Busy
  <2>4. \A r : Open(r)' \subseteq Open(r)
    <3>1. CASE UNCHANGED <<position, handling>>
      BY <1>R, <2>2, <3>1, OpenKept
    <3>2. CASE handling' = NoTopic /\ handling # NoTopic /\ m = owner
      <4>1. Envelope = work[m].ride
        BY <3>2 DEF AnswerInv, InHand
      <4>2. \A r : r # Envelope => Open(r)' \subseteq Open(r)
        BY <1>R, <1>T, <2>2, <3>2, OpenReleased
      <4> QED BY <1>R, <4>1, <4>2, OpenNoMore
    <3> QED BY <1>R, <1>T, <3>1, <3>2, EndsAs
  <2>5. faults <= faults' /\ \A r : AnswersFor(r)' \subseteq AnswersFor(r)
    BY <1>R, <1>T, AnswersKept
  <2>6. Covered'
    BY <1>T, <2>3, <2>4, <2>5, FreeStep
  <2> QED BY <2>2, <2>6
\* A step of member m within its handler that publishes nothing.
<1>Q. ASSUME NEW m \in Members, UNCHANGED <<log, consumerVars, marked, answers, faults>>,
             work[m].pc \in {"search", "reserve", "sync"}
               \/ (work[m].pc = "check" /\ work[m].ride \notin marked),
             NEW state, work' = [work EXCEPT ![m] = state],
             state.pc # "idle", state.ride = work[m].ride
      PROVE  OnlyRequested' /\ Covered'
  <2>1. ~At(m, "idle")
    BY <1>Q DEF At
  <2>2. OnlyRequested'
    BY <1>Q, <1>W, <2>1
  <2>3. Covered'
    BY <1>Q, <1>T, <2>1, QuietCost
  <2> QED BY <2>2, <2>3
<1>G. ASSUME NEW m \in Members, UNCHANGED <<log, consumerVars, marked, answers, faults>>,
             work[m].pc \in {"search", "reserve", "sync"}
               \/ (work[m].pc = "check" /\ work[m].ride \notin marked),
             NEW pc \in {"search", "publish"}, Goto(m, pc)
      PROVE  OnlyRequested' /\ Covered'
  <2>1. PICK state : state.pc = pc /\ state.ride = work[m].ride
                     /\ work' = [work EXCEPT ![m] = state]
    BY <1>G, <1>T DEF Goto, TypeOK, WorkStates
  <2>2. state.pc # "idle"
    BY <2>1
  <2> QED BY <1>G, <1>Q, <2>1, <2>2
<1>2. ASSUME NEW m \in Members, HandlerStep(m) PROVE OnlyRequested' /\ Covered'
  <2>0. work[m] \in WorkStates
    BY <1>T DEF TypeOK
  <2>1. CASE CheckProcessed(m)
    <3>1. At(m, "check") /\ ~At(m, "idle") /\ UNCHANGED <<marked, answers, faults>>
      BY <2>1 DEF CheckProcessed, At, redisVars
    <3>2. CASE work[m].ride \in marked
      BY <1>R, <2>1, <3>1, <3>2 DEF CheckProcessed
    <3>3. CASE work[m].ride \notin marked
      BY <1>G, <2>1, <3>1, <3>3 DEF CheckProcessed, At
    <3> QED BY <3>2, <3>3
  <2>2. CASE Search(m)
    <3>1. PICK ranking \in Rankings :
            work' = [work EXCEPT ![m].pc = "reserve", ![m].candidates = ranking]
      BY <2>2 DEF Search
    <3> DEFINE state == [work[m] EXCEPT !.pc = "reserve", !.candidates = ranking]
    <3>2. /\ state.pc = "reserve" /\ state.ride = work[m].ride
          /\ work' = [work EXCEPT ![m] = state]
      BY <1>T, <2>0, <3>1 DEF TypeOK, WorkStates
    <3> HIDE DEF state
    <3>3. state.pc # "idle"
      BY <3>2
    <3>4. /\ work[m].pc \in {"search", "reserve", "sync"}
          /\ UNCHANGED <<log, consumerVars, marked, answers, faults>>
      BY <2>2 DEF Search, At, redisVars
    <3> QED BY <1>Q, <3>2, <3>3, <3>4
  <2>3. CASE TryCandidate(m)
    <3> DEFINE d == Head(work[m].candidates)
               won == [work[m] EXCEPT !.pc = "sync", !.candidates = << >>, !.won = d]
               lost == [work[m] EXCEPT !.candidates = Tail(work[m].candidates)]
    <3>1. /\ won.pc # "idle" /\ won.ride = work[m].ride
          /\ lost.pc # "idle" /\ lost.ride = work[m].ride
      BY <2>0, <2>3 DEF TryCandidate, At, WorkStates
    <3>2. work' = [work EXCEPT ![m] = won] \/ work' = [work EXCEPT ![m] = lost]
      <4>1. CASE reservations[d] = None
        BY <2>3, <4>1 DEF TryCandidate, Unreserved
      <4>2. CASE reservations[d] # None
        BY <2>3, <4>2 DEF TryCandidate, Unreserved
      <4> QED BY <4>1, <4>2
    <3> HIDE DEF won, lost
    <3>3. work[m].pc = "reserve" /\ UNCHANGED <<log, consumerVars, marked, answers, faults>>
      BY <2>3 DEF TryCandidate, At
    <3>4. work[m].pc \in {"search", "reserve", "sync"}
      BY <3>3
    <3>5. CASE work' = [work EXCEPT ![m] = won]
      BY <1>Q, <3>1, <3>3, <3>4, <3>5
    <3>6. CASE work' = [work EXCEPT ![m] = lost]
      BY <1>Q, <3>1, <3>3, <3>4, <3>6
    <3> QED BY <3>2, <3>5, <3>6
  <2>4. CASE NoCandidateLeft(m) \/ SyncDriver(m)
    <3>1. work[m].pc \in {"reserve", "sync"} /\ Goto(m, "publish")
      BY <2>4 DEF NoCandidateLeft, SyncDriver, At
    <3>2. UNCHANGED <<log, consumerVars, marked, answers, faults>>
      BY <2>4 DEF NoCandidateLeft, SyncDriver, redisVars
    <3> QED BY <1>G, <3>1, <3>2
  <2>5. CASE Publish(m)
    <3>1. PICK state : state.pc = "mark" /\ state.ride = work[m].ride
                       /\ work' = [work EXCEPT ![m] = state]
      BY <1>T, <2>0, <2>5 DEF Publish, Goto, TypeOK, WorkStates
    <3>2. /\ At(m, "publish") /\ ~At(m, "idle") /\ PublishAnswer(m)
          /\ UNCHANGED <<log, position, handling, marked, faults>>
      BY <2>5 DEF Publish, At, redisVars, consumerVars
    <3>3. OnlyRequested'
      BY <1>W, <3>1, <3>2
    <3>4. PICK rho : rho = work[m].ride
      OBVIOUS
    <3>5. /\ m \in Busy(rho) /\ Busy(rho)' \subseteq Busy(rho) \ {m}
          /\ \A r : r # rho => Busy(r)' \subseteq Busy(r)
      <4>1. /\ \A r : r # work[m].ride => Busy(r)' \subseteq Busy(r)
            /\ \A r : Busy(r)' \subseteq Busy(r) \ {m}
        <5>1. state.pc = "idle" \/ state.ride = work[m].ride
          BY <3>1
        <5>2. state.pc \in {"idle", "mark"} /\ marked \subseteq marked'
          BY <3>1, <3>2
        <5>3. \A r : /\ r # work[m].ride => Busy(r)' \subseteq Busy(r)
                     /\ state.pc \in {"idle", "mark"} => Busy(r)' \subseteq Busy(r) \ {m}
          BY <1>T, <3>1, <5>1, <5>2, BusyMoves
        <5> QED BY <5>2, <5>3
      <4> QED BY <3>2, <3>4, <4>1 DEF Busy, At
    <3>6. \A r : Open(r)' \subseteq Open(r)
      BY <3>2, OpenKept
    <3>7. /\ \A r : \E x : AnswersFor(r)' \subseteq AnswersFor(r) \cup {x}
          /\ \A r : r # rho => AnswersFor(r)' \subseteq AnswersFor(r)
      BY <1>T, <3>2, <3>4, AnswerAdded
    <3>8. /\ AtMost(AnswersFor(rho), AnswersFor(rho)', 1)
          /\ AtMost(Busy(rho), Busy(rho)', 0 - 1)
          /\ AtMost(Open(rho), Open(rho)', 0)
      BY <3>5, <3>6, <3>7 DEF AtMost
    <3>9. /\ 0 \in Int /\ 1 \in Int /\ 0 - 1 \in Int
          /\ faults + 1 + (0 - 1) + 0 <= faults' /\ faults <= faults'
      BY <1>T, <3>2
    <3>10. Covered'
      BY <1>T, <3>5, <3>6, <3>7, <3>8, <3>9, StepIsPaid
    <3> QED BY <3>3, <3>10
  <2>6. CASE MarkProcessed(m)
    BY <1>R, <2>6 DEF MarkProcessed, At
  <2> QED BY <1>2, <2>1, <2>2, <2>3, <2>4, <2>5, <2>6 DEF HandlerStep
<1>3. ASSUME NEW m \in Members, StepFails(m) PROVE OnlyRequested' /\ Covered'
  <2>1. /\ ~At(m, "idle") /\ Throw(m) /\ UNCHANGED marked /\ faults' = faults + 1
        /\ UNCHANGED answers \/ (At(m, "publish") /\ PublishAnswer(m))
    BY <1>3 DEF StepFails, At, redisVars, Fault
  <2>2. OnlyRequested'
    <3>1. \E state : /\ state.pc = "idle" \/ state.ride = work[m].ride
                     /\ work' = [work EXCEPT ![m] = state]
      BY <1>T, <2>1, EndsAs, IdleTyped
    <3> QED BY <1>T, <1>W, <2>1, <3>1, EndsAs
  <2>3. PICK rho : rho = work[m].ride
    OBVIOUS
  <2>4. /\ \E b, o \in {0 - 1, 0, 1} :
             /\ AtMost(Busy(rho), Busy(rho)', b) /\ AtMost(Open(rho), Open(rho)', o)
             /\ b + o <= 1
             /\ m \in Busy(rho) => b + o <= 0
        /\ \A r : r # rho => Busy(r)' \subseteq Busy(r) /\ Open(r)' \subseteq Open(r)
    BY <2>1, <2>3, ThrowCosts
  <2>5. PICK b \in {0 - 1, 0, 1}, o \in {0 - 1, 0, 1} :
          /\ AtMost(Busy(rho), Busy(rho)', b) /\ AtMost(Open(rho), Open(rho)', o)
          /\ b + o <= 1
          /\ m \in Busy(rho) => b + o <= 0
    BY <2>4
  <2>6. /\ \A r : r # rho => AnswersFor(r)' \subseteq AnswersFor(r)
        /\ \E a \in {0, 1} : /\ AtMost(AnswersFor(rho), AnswersFor(rho)', a)
                             /\ a = 1 => m \in Busy(rho)
    <3>1. CASE UNCHANGED answers
      BY <3>1, AnswersKept DEF AtMost
    <3>2. CASE At(m, "publish") /\ PublishAnswer(m)
      <4>1. /\ \A r : \E x : AnswersFor(r)' \subseteq AnswersFor(r) \cup {x}
            /\ \A r : r # work[m].ride => AnswersFor(r)' \subseteq AnswersFor(r)
        BY <1>T, <2>1, <3>2, AnswerAdded
      <4>2. AtMost(AnswersFor(rho), AnswersFor(rho)', 1)
        BY <4>1 DEF AtMost
      <4>3. m \in Busy(rho)
        BY <2>3, <3>2 DEF Busy, At
      <4> QED BY <2>3, <4>1, <4>2, <4>3
    <3> QED BY <2>1, <3>1, <3>2
  <2>7. PICK a \in {0, 1} : /\ AtMost(AnswersFor(rho), AnswersFor(rho)', a)
                            /\ a = 1 => m \in Busy(rho)
    BY <2>6
  <2>8. /\ a \in Int /\ b \in Int /\ o \in Int /\ faults <= faults'
        /\ faults + a + b + o <= faults'
    BY <1>T, <2>1, <2>5, <2>7
  <2>9. Covered'
    BY <1>T, <2>4, <2>5, <2>6, <2>7, <2>8, StepIsPaid
  <2> QED BY <2>2, <2>9
\* A fault that lets go of the message in hand, if any.
<1>F. ASSUME UNCHANGED <<log, marked, answers>>, handling' = NoTopic, faults' = faults + 1,
             \A r : Busy(r)' \subseteq Busy(r)
      PROVE  Covered'
  <2>1. PICK rho : rho = Envelope
    OBVIOUS
  <2>2. /\ \A r : Open(r)' \subseteq Open(r) \cup {Offset}
        /\ \A r : handling = NoTopic \/ r # rho => Open(r)' \subseteq Open(r)
    BY <1>F, <1>T, <2>1, OpenReleased
  <2>3. /\ AtMost(AnswersFor(rho), AnswersFor(rho)', 0)
        /\ AtMost(Busy(rho), Busy(rho)', 0)
        /\ AtMost(Open(rho), Open(rho)', 1)
        /\ \A r : AnswersFor(r)' \subseteq AnswersFor(r)
    BY <1>F, <2>2, AnswersKept DEF AtMost
  <2>4. 0 \in Int /\ 1 \in Int /\ faults + 0 + 0 + 1 <= faults' /\ faults <= faults'
    BY <1>F, <1>T
  <2> QED BY <1>F, <1>T, <2>2, <2>3, <2>4, StepIsPaid
<1>4. ASSUME NEW m \in Members, Restart(m) PROVE OnlyRequested' /\ Covered'
  <2>1. /\ UNCHANGED <<log, marked, answers>> /\ faults' = faults + 1
        /\ \A n \in Members : work'[n] = IF n = m THEN Idle ELSE work[n]
    BY <1>4, <1>T DEF Restart, ConsumerRestart, consumerVars, redisVars, Fault, TypeOK
  <2>2. \A r : Busy(r)' \subseteq Busy(r)
    BY <2>1, IdleTyped DEF Busy
  <2>3. OnlyRequested'
    BY <1>S, <2>1, IdleTyped
  <2>4. CASE m = owner
    <3>1. handling' = NoTopic
      BY <1>4, <2>4 DEF Restart, ConsumerRestart
    <3> QED BY <1>F, <2>1, <2>2, <2>3, <3>1
  <2>5. CASE m # owner
    <3>1. UNCHANGED <<position, handling>> /\ faults <= faults'
      BY <1>4, <1>T, <2>1, <2>5 DEF Restart, consumerVars
    <3>2. \A r : AnswersFor(r)' \subseteq AnswersFor(r) /\ Open(r)' \subseteq Open(r)
      BY <2>1, <3>1, AnswersKept, OpenKept
    <3>3. Covered'
      BY <1>T, <2>2, <3>1, <3>2, FreeStep
    <3> QED BY <2>3, <3>3
  <2> QED BY <2>4, <2>5
<1>5. ASSUME NEW m \in Members, Reassign(m) PROVE OnlyRequested' /\ Covered'
  <2>1. /\ UNCHANGED <<log, work, marked, answers>> /\ faults' = faults + 1
        /\ handling' = NoTopic
    BY <1>5 DEF Reassign, ConsumerRestart, redisVars, Fault
  <2>2. \A r : Busy(r)' \subseteq Busy(r)
    BY <2>1, BusyKept
  <2> QED BY <1>F, <1>S, <2>1, <2>2
<1>6. ASSUME UNCHANGED <<log, position, handling, work, marked, answers, faults>>
      PROVE  OnlyRequested' /\ Covered'
  <2>1. \A r : /\ AnswersFor(r)' \subseteq AnswersFor(r)
               /\ Busy(r)' \subseteq Busy(r) /\ Open(r)' \subseteq Open(r)
    BY <1>6, AnswersKept, BusyKept, OpenKept
  <2>2. Covered'
    BY <1>6, <1>T, <2>1, FreeStep
  <2> QED BY <1>6, <1>S, <2>2
<1>7. CASE Commit \/ UNCHANGED vars
  BY <1>6, <1>7 DEF Commit, AutoCommit, redisVars, vars, consumerVars
<1>8. ASSUME NEW d \in Drivers, ReservationExpires(d) PROVE OnlyRequested' /\ Covered'
  BY <1>6, <1>8 DEF ReservationExpires, consumerVars
<1>9. ASSUME NEW d \in Drivers, NEW status \in DriverStatus, OthersPatch(d, status)
      PROVE  OnlyRequested' /\ Covered'
  BY <1>6, <1>9 DEF OthersPatch, redisVars, consumerVars
<1>10. ASSUME NEW r \in Rides, RequestRide(r) \/ Duplicate(r) PROVE OnlyRequested' /\ Covered'
  <2>1. /\ SendTo(RequestTopic, r)
        /\ UNCHANGED <<position, handling, work, marked, answers>>
        /\ (r \notin Requested /\ faults' = faults) \/ faults' = faults + 1
    BY <1>10 DEF RequestRide, Duplicate, Fault, redisVars, consumerVars
  <2>2. /\ Requested \subseteq Requested'
        /\ \A x : x # r => Open(x)' \subseteq Open(x)
        /\ \E k : \A x : Open(x)' \subseteq Open(x) \cup {k}
    BY <1>T, <2>1, RequestsAreKept
  <2>3. OnlyRequested'
    BY <2>1, <2>2, OnlyRequestedKept
  <2>4. /\ \A x : AnswersFor(x)' \subseteq AnswersFor(x) /\ Busy(x)' \subseteq Busy(x)
        /\ AtMost(AnswersFor(r), AnswersFor(r)', 0)
        /\ AtMost(Busy(r), Busy(r)', 0)
        /\ AtMost(Open(r), Open(r)', 1)
    BY <2>1, <2>2, AnswersKept, BusyKept DEF AtMost
  <2>5. CASE faults' = faults + 1
    <3>1. 0 \in Int /\ 1 \in Int /\ faults + 0 + 0 + 1 <= faults' /\ faults <= faults'
      BY <1>T, <2>5
    <3>2. Covered'
      BY <1>T, <2>2, <2>4, <3>1, StepIsPaid
    <3> QED BY <2>3, <3>2
  <2>6. CASE r \notin Requested /\ faults' = faults
    <3>1. AnswersFor(r) = {} /\ Busy(r) = {} /\ Open(r) = {}
      BY <2>6 DEF OnlyRequested, AnswersFor, Busy, Open, Requested, At
    <3>2. Cost(r) = 0
      BY <3>1, FS_EmptySet DEF Cost
    <3>3. Cost(r)' <= 1 + faults'
      <4>1. 0 \in Int /\ 1 \in Int
        OBVIOUS
      <4>2. Cost(r)' <= Cost(r) + 0 + 0 + 1 /\ Cost(r)' \in Nat
        BY <1>T, <2>4, <4>1, CostStep
      <4> QED BY <1>T, <2>6, <3>2, <4>2
    <3>4. ASSUME NEW x \in Rides, x # r PROVE Cost(x)' <= 1 + faults'
      <4>1. /\ AtMost(AnswersFor(x), AnswersFor(x)', 0)
            /\ AtMost(Busy(x), Busy(x)', 0) /\ AtMost(Open(x), Open(x)', 0)
        BY <2>2, <2>4, <3>4 DEF AtMost
      <4>2. 0 \in Int
        OBVIOUS
      <4>3. Cost(x)' <= Cost(x) + 0 + 0 + 0 /\ Cost(x)' \in Nat /\ Cost(x) \in Nat
        BY <1>T, <4>1, <4>2, CostStep
      <4> QED BY <1>T, <2>6, <4>3 DEF Covered
    <3>5. Covered'
      BY <3>3, <3>4 DEF Covered
    <3> QED BY <2>3, <3>5
  <2> QED BY <2>1, <2>5, <2>6
<1> QED BY <1>1, <1>2, <1>3, <1>4, <1>5, <1>7, <1>8, <1>9, <1>10 DEF Next

LEMMA CostInit == Init => OnlyRequested /\ Covered
<1> SUFFICES ASSUME Init PROVE OnlyRequested /\ Covered
  OBVIOUS
<1>1. /\ answers = << >> /\ faults = 0 /\ log[RequestTopic] = << >>
      /\ \A m \in Members : work[m].pc = "idle"
  BY DispatchAssumption, IdleTyped DEF Init, ConsumerInit
<1>2. OnlyRequested
  BY <1>1 DEF OnlyRequested, At
<1>3. \A r : AnswersFor(r) = {} /\ Busy(r) = {} /\ Open(r) = {}
  BY <1>1 DEF AnswersFor, Busy, Open
<1>4. \A r : Cost(r) = 0
  BY <1>3, FS_EmptySet DEF Cost
<1> QED BY <1>1, <1>2, <1>4 DEF Covered

\* One answer for the request and one more for each fault, whatever replicas,
\* retries, restarts and copies work on the ride.
THEOREM AnswersAreBounded == Spec => []AnswersBounded
<1>1. CostInv => AnswersBounded
  <2> SUFFICES ASSUME CostInv, NEW r \in Rides
               PROVE  Cardinality(AnswersFor(r)) <= 1 + faults
    BY DEF AnswersBounded
  <2>1. TypeOK /\ faults \in Nat /\ Cost(r) <= 1 + faults
    BY DispatchAssumption DEF CostInv, AnswerInv, TypeOK, Covered
  <2>2. IsFiniteSet(AnswersFor(r)) /\ IsFiniteSet(Busy(r)) /\ IsFiniteSet(Open(r))
    BY <2>1, CostIsFinite
  <2>3. /\ Cardinality(AnswersFor(r)) \in Nat /\ Cardinality(Busy(r)) \in Nat
        /\ Cardinality(Open(r)) \in Nat
    BY <2>2, FS_CardinalityType
  <2> QED BY <2>1, <2>3 DEF Cost
<1>2. Init => CostInv
  BY AnswerInit, CostInit DEF CostInv
<1>3. CostInv /\ [Next]_vars => CostInv'
  BY AnswerNext, CostNext DEF CostInv
<1> QED BY <1>1, <1>2, <1>3, PTL DEF Spec

=============================================================================
