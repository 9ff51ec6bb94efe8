---------------------------- MODULE RydTripProofs ---------------------------
(***************************************************************************)
(* Theorems about TripService and about RydTrip, its composition with      *)
(* Dispatch Service, for every set of rides, drivers, pickup codes,        *)
(* replicas and concurrent requests and for every bound.                   *)
(*                                                                         *)
(* Of Trip Service (Spec): its type invariant, that no leg of a trip is    *)
(* skipped although its read-check-writes are not isolated, that a ride    *)
(* keeps its driver and has one exactly when it was matched, that an event *)
(* acts once, that none is dropped, and that a driver is shown ON_TRIP     *)
(* only for a trip that started.                                           *)
(*                                                                         *)
(* Of the composition (SystemSpec): each of the two services, in the       *)
(* company of the other, is the service its own module describes, so that  *)
(* what is proved about either alone holds in the system, and no driver is *)
(* on two rides while its reservation lasts.                               *)
(***************************************************************************)
EXTENDS RydTrip, ConsumerLoopProofs

-----------------------------------------------------------------------------
\* Type correctness

LEMMA StatusesAreTyped ==
    /\ \A op \in Operations : Target(op) \in RideStatus
    /\ None \notin RideStatus
BY TripAssumption DEF Operations, Target, RideStatus

LEMMA PatchTyped ==
    ASSUME NEW d, NEW status \in DriverStatus, PatchDriver(d, status),
           mirror \in [Drivers -> DriverStatus], faults \in Nat
    PROVE  mirror' \in [Drivers -> DriverStatus] /\ faults' \in Nat
BY TripAssumption DEF PatchDriver

LEMMA WriteTyped ==
    ASSUME NEW r, NEW row \in Rows, row.status \in RideStatus, NEW by \in Nat,
           Write(r, row, by),
           ride \in [Rides -> Rows], trail \in [Rides -> Seq(AuditRows)]
    PROVE  ride' \in [Rides -> Rows] /\ trail' \in [Rides -> Seq(AuditRows)]
<1>1. [to |-> row.status, by |-> by] \in AuditRows
  BY DEF AuditRows
<1>2. \A s \in Seq(AuditRows) : Append(s, [to |-> row.status, by |-> by]) \in Seq(AuditRows)
  BY <1>1, AppendProperties
<1> QED BY <1>2 DEF Write

\* A request's state, after any step of it.
RunningCalls == \A c \in Calls : \/ call[c].pc = "idle"
                                 \/ call[c].op \in Operations /\ call[c].ride \in Rides

LEMMA HttpFrameTyped ==
    ASSUME TypeOK, httpFrame, ride' \in [Rides -> Rows], trail' \in [Rides -> Seq(AuditRows)],
           mirror' \in [Drivers -> DriverStatus], faults' \in Nat,
           NEW c \in Calls, NEW state \in CallStates,
           state.pc = "idle" \/ (state.op \in Operations /\ state.ride \in Rides),
           call' = [call EXCEPT ![c] = state]
    PROVE  TypeOK'
<1>1. LoopInv(EnvelopeSet)'
  BY LoopStutter DEF httpFrame, TypeOK, LoopInv
<1>2. call' \in [Calls -> CallStates] /\ RunningCalls'
  BY DEF TypeOK, RunningCalls
<1> QED BY <1>1, <1>2 DEF httpFrame, consumerVars, TypeOK, LoopInv, RunningCalls

\* An update of a running request, whatever row it writes.
LEMMA UpdateTyped ==
    ASSUME TypeOK, NEW c \in Calls, NEW row \in Rows, row.status \in RideStatus,
           call[c].pc # "idle", Update(c, row)
    PROVE  TypeOK'
<1> DEFINE state == IF call[c].op \in {"accept", "arrived"} \/ row.driver = None
                    THEN IdleCall
                    ELSE [call[c] EXCEPT !.pc = "sync", !.driver = row.driver]
<1>1. ride' \in [Rides -> Rows] /\ trail' \in [Rides -> Seq(AuditRows)]
  BY WriteTyped DEF Update, TypeOK
<1>2. call[c] \in CallStates /\ row.driver \in Drivers \cup {None}
  BY DEF TypeOK, Rows
<1>3. state \in CallStates /\ (state.pc = "idle" \/ (state.op \in Operations /\ state.ride \in Rides))
  <2>1. IdleCall \in CallStates /\ IdleCall.pc = "idle"
    BY DEF CallStates, IdleCall
  <2>2. call[c].op \in Operations /\ call[c].ride \in Rides
    BY DEF TypeOK
  <2>3. ASSUME row.driver # None
        PROVE  LET s == [call[c] EXCEPT !.pc = "sync", !.driver = row.driver]
               IN s \in CallStates /\ s.op = call[c].op /\ s.ride = call[c].ride
    BY <1>2, <2>3 DEF CallStates
  <2> QED BY <2>1, <2>2, <2>3
<1>4. call' = [call EXCEPT ![c] = state]
  BY DEF Update, TypeOK
<1>5. httpFrame /\ mirror' = mirror /\ faults' = faults
  BY DEF Update
<1> HIDE DEF state
<1> QED BY <1>1, <1>3, <1>4, <1>5, HttpFrameTyped DEF TypeOK

LEMMA HttpTyped ==
    ASSUME TypeOK, HttpNext
    PROVE  TypeOK'
<1> PICK c \in Calls :
        \/ \E op \in Operations, r \in Rides : Begin(c, op, r)
        \/ \E r \in Rides, by \in Drivers \cup {None}, otp \in Otps : BeginStart(c, r, by, otp)
        \/ CheckOtp(c)
        \/ \E otp \in Otps : Accept(c, otp)
        \/ MarkDriverArrived(c)
        \/ Start(c)
        \/ Complete(c)
        \/ Cancel(c)
        \/ SyncDriver(c)
  BY DEF HttpNext
<1>0. call[c] \in CallStates /\ IdleCall \in CallStates /\ IdleCall.pc = "idle"
  BY DEF TypeOK, CallStates, IdleCall
<1>1. ASSUME NEW op \in Operations, NEW r \in Rides, Begin(c, op, r) PROVE TypeOK'
  <2> DEFINE state == [IdleCall EXCEPT !.pc = "write", !.op = op, !.ride = r]
  <2>1. state \in CallStates /\ state.op \in Operations /\ state.ride \in Rides
    BY DEF CallStates, IdleCall
  <2>2. call' = [call EXCEPT ![c] = state] /\ httpFrame /\ UNCHANGED <<ride, trail, mirror, faults>>
    BY <1>1 DEF Begin
  <2> HIDE DEF state
  <2> QED BY <2>1, <2>2, HttpFrameTyped DEF TypeOK
<1>2. ASSUME NEW r \in Rides, NEW by \in Drivers \cup {None}, NEW otp \in Otps,
             BeginStart(c, r, by, otp)
      PROVE  TypeOK'
  <2> DEFINE state == [IdleCall EXCEPT !.pc = "otp", !.op = "start", !.ride = r, !.otp = otp]
  <2>1. state \in CallStates /\ state.op \in Operations /\ state.ride \in Rides
    BY DEF CallStates, IdleCall, Operations
  <2>2. call' = [call EXCEPT ![c] = state] /\ httpFrame /\ UNCHANGED <<ride, trail, mirror, faults>>
    BY <1>2 DEF BeginStart
  <2> HIDE DEF state
  <2> QED BY <2>1, <2>2, HttpFrameTyped DEF TypeOK
<1>3. CASE CheckOtp(c)
  <2> DEFINE passed == [call[c] EXCEPT !.pc = "write", !.otp = None]
  <2>1. /\ passed \in CallStates
        /\ call[c].op \in Operations /\ call[c].ride \in Rides
        /\ passed.op = call[c].op /\ passed.ride = call[c].ride
    BY <1>0, <1>3 DEF CallStates, CheckOtp, TypeOK
  <2>2. /\ \/ call' = [call EXCEPT ![c] = passed]
           \/ call' = [call EXCEPT ![c] = IdleCall]
        /\ httpFrame /\ UNCHANGED <<ride, trail, mirror, faults>>
    BY <1>3 DEF CheckOtp, TypeOK
  <2> HIDE DEF passed
  <2>3. /\ ride' \in [Rides -> Rows] /\ trail' \in [Rides -> Seq(AuditRows)]
        /\ mirror' \in [Drivers -> DriverStatus] /\ faults' \in Nat
    BY <2>2 DEF TypeOK
  <2>4. CASE call' = [call EXCEPT ![c] = passed]
    BY <2>1, <2>2, <2>3, <2>4, HttpFrameTyped
  <2>5. CASE call' = [call EXCEPT ![c] = IdleCall]
    BY <1>0, <2>2, <2>3, <2>5, HttpFrameTyped
  <2> QED BY <2>2, <2>4, <2>5
<1>4. ASSUME Writing(c, call[c].op), NEW status \in RideStatus, NEW otp \in Otps \cup {None},
             Update(c, [Row(c) EXCEPT !.status = status, !.otp = otp])
      PROVE  TypeOK'
  <2> DEFINE row == [Row(c) EXCEPT !.status = status, !.otp = otp]
  <2>1. Row(c) \in Rows
    BY <1>4 DEF Writing, Row, TypeOK
  <2>2. row \in Rows /\ row.status \in RideStatus
    BY <2>1 DEF Rows
  <2> HIDE DEF row
  <2>3. Update(c, row)
    BY <1>4 DEF row
  <2> QED BY <1>4, <2>2, <2>3, UpdateTyped DEF Writing
<1>5. ASSUME Writing(c, call[c].op), NEW status \in RideStatus,
             Update(c, [Row(c) EXCEPT !.status = status])
      PROVE  TypeOK'
  <2> DEFINE row == [Row(c) EXCEPT !.status = status]
  <2>1. Row(c) \in Rows
    BY <1>5 DEF Writing, Row, TypeOK
  <2>2. row \in Rows /\ row.status \in RideStatus
    BY <2>1 DEF Rows
  <2> HIDE DEF row
  <2>3. Update(c, row)
    BY <1>5 DEF row
  <2> QED BY <1>5, <2>2, <2>3, UpdateTyped DEF Writing
<1>6. ASSUME NEW otp \in Otps, Accept(c, otp) PROVE TypeOK'
  BY <1>4, <1>6 DEF Accept, Writing, RideStatus
<1>7. CASE MarkDriverArrived(c)
  BY <1>5, <1>7 DEF MarkDriverArrived, Writing, RideStatus
<1>8. CASE Start(c)
  BY <1>4, <1>8 DEF Start, Writing, RideStatus
<1>9. CASE Complete(c)
  BY <1>5, <1>9 DEF Complete, Writing, RideStatus
<1>10. CASE Cancel(c)
  BY <1>5, <1>10 DEF Cancel, Writing, RideStatus
<1>11. CASE SyncDriver(c)
  <2>1. mirror' \in [Drivers -> DriverStatus] /\ faults' \in Nat
    BY <1>11, PatchTyped DEF SyncDriver, TypeOK, DriverStatus
  <2>2. /\ call' = [call EXCEPT ![c] = IdleCall] /\ httpFrame
        /\ ride' \in [Rides -> Rows] /\ trail' \in [Rides -> Seq(AuditRows)]
    BY <1>11 DEF SyncDriver, TypeOK
  <2> QED BY <1>0, <2>1, <2>2, HttpFrameTyped
<1> QED BY <1>1, <1>2, <1>3, <1>6, <1>7, <1>8, <1>9, <1>10, <1>11

\* A step of the consumer, of a publisher or of a fault: the loop's part of
\* TypeOK by the lemmas of ConsumerLoopProofs, the tables' part as given.
LEMMA ConsumerFrameTyped ==
    ASSUME TypeOK, LoopInv(EnvelopeSet)', UNCHANGED <<call, events>>,
           ride' \in [Rides -> Rows], trail' \in [Rides -> Seq(AuditRows)],
           processed' \subseteq Nat, mirror' \in [Drivers -> DriverStatus], faults' \in Nat,
           \/ stage' = "idle"
           \/ stage' \in {"guarded", "updated", "synced"} /\ handling' # NoTopic
    PROVE  TypeOK'
BY DEF TypeOK, LoopInv

\* The message in hand is an envelope.
LEMMA EnvelopeTyped ==
    ASSUME TypeOK, handling # NoTopic
    PROVE  /\ handling \in Topics /\ Offset \in 1 .. Len(log[handling])
           /\ Envelope \in EnvelopeSet
           /\ Envelope.eventId \in Nat \ {0} /\ Envelope.rideId \in Rides
           /\ Envelope.driverId \in Drivers \cup {None}
<1>1. handling \in Topics /\ log[handling] \in Seq(EnvelopeSet)
  BY DEF TypeOK, ConsumerTypeOK
<1>2. Offset \in 1 .. Len(log[handling])
  BY <1>1, LenProperties DEF TypeOK, ConsumerTypeOK, OffsetsOK, Offset
<1>3. Envelope \in EnvelopeSet
  BY <1>1, <1>2, ElementOfSeq DEF Envelope
<1> QED BY <1>1, <1>2, <1>3 DEF EnvelopeSet

LEMMA HandlerTyped ==
    ASSUME TypeOK, HandlerNext
    PROVE  TypeOK'
<1>0. LoopInv(EnvelopeSet)
  BY DEF TypeOK, LoopInv
<1>1. ASSUME ReturnUnchanged, consumerFrame PROVE TypeOK'
  BY <1>0, <1>1, LoopReturns, ConsumerFrameTyped DEF ReturnUnchanged, consumerFrame, dbVars, TypeOK
<1>2. ASSUME Throw, consumerFrame PROVE TypeOK'
  BY <1>0, <1>2, LoopThrows, ConsumerFrameTyped DEF Throw, consumerFrame, dbVars, TypeOK
<1>3. ASSUME handling # NoTopic, stage' \in {"guarded", "updated", "synced"},
             UNCHANGED <<log, consumerVars, dbVars, call, events>>,
             mirror' \in [Drivers -> DriverStatus], faults' \in Nat
      PROVE  TypeOK'
  <2>1. LoopInv(EnvelopeSet)' /\ handling' # NoTopic
    BY <1>0, <1>3, LoopStutter DEF consumerVars
  <2> QED BY <1>3, <2>1, ConsumerFrameTyped DEF dbVars, TypeOK
<1>4. ASSUME CommitEvent, consumerFrame, UNCHANGED mirror,
             ride' \in [Rides -> Rows], trail' \in [Rides -> Seq(AuditRows)]
      PROVE  TypeOK'
  <2>1. LoopInv(EnvelopeSet)' /\ handling # NoTopic
    BY <1>0, <1>4, LoopReturns DEF CommitEvent, HandlerReturns
  <2>2. processed' \subseteq Nat
    BY <1>4, <2>1, EnvelopeTyped DEF CommitEvent, TypeOK
  <2> QED BY <1>4, <2>1, <2>2, ConsumerFrameTyped DEF CommitEvent, consumerFrame, TypeOK
<1>5. ASSUME NEW row \in Rows, row.status \in RideStatus, handling # NoTopic,
             Write(Envelope.rideId, row, Envelope.eventId)
      PROVE  ride' \in [Rides -> Rows] /\ trail' \in [Rides -> Seq(AuditRows)]
  BY <1>5, EnvelopeTyped, WriteTyped DEF TypeOK
<1>6. CASE HandleRideRequested
  <2>1. handling # NoTopic /\ consumerFrame
    BY <1>6, ConsumerAssumption, TripAssumption DEF HandleRideRequested, Handling
  <2>2. CASE Envelope.eventId \in processed \/ Exists(Envelope.rideId)
    BY <1>1, <1>6, <2>1, <2>2 DEF HandleRideRequested
  <2>3. CASE ~(Envelope.eventId \in processed \/ Exists(Envelope.rideId))
    <3> DEFINE entry(s) == [to |-> s, by |-> Envelope.eventId]
               two == <<entry("REQUESTED"), entry("MATCHING")>>
    <3>1. CommitEvent /\ UNCHANGED mirror
      BY <1>6, <2>3 DEF HandleRideRequested
    <3>2. ride' = [ride EXCEPT ![Envelope.rideId].status = "MATCHING"]
      BY <1>6, <2>3 DEF HandleRideRequested
    <3>3. trail' = [trail EXCEPT ![Envelope.rideId] = @ \o two]
      BY <1>6, <2>3 DEF HandleRideRequested
    <3>4. ride' \in [Rides -> Rows]
      BY <3>2 DEF TypeOK, Rows, RideStatus
    <3>5. two \in Seq(AuditRows)
      BY <2>1, EnvelopeTyped DEF AuditRows, RideStatus
    <3> HIDE DEF two
    <3>6. trail' \in [Rides -> Seq(AuditRows)]
      BY <3>3, <3>5, ConcatProperties DEF TypeOK
    <3> QED BY <1>4, <2>1, <3>1, <3>4, <3>6
  <2> QED BY <2>2, <2>3
<1>7. CASE BeginCancelEvent
  BY <1>1, <1>2, <1>3, <1>7, ConsumerAssumption, TripAssumption
  DEF BeginCancelEvent, Handling, consumerFrame, TypeOK
<1>8. CASE LockRow
  BY <1>3, <1>8, ConsumerAssumption, TripAssumption DEF LockRow, Handling, consumerFrame, TypeOK
<1>9. CASE SyncBeforeCommit
  <2>1. handling # NoTopic
    BY <1>9 DEF SyncBeforeCommit, TypeOK
  <2>2. mirror' \in [Drivers -> DriverStatus] /\ faults' \in Nat
    BY <1>9, PatchTyped DEF SyncBeforeCommit, TypeOK, DriverStatus
  <2> QED BY <1>3, <1>9, <2>1, <2>2 DEF SyncBeforeCommit
<1>10. CASE CommitCancelEvent
  <2> DEFINE row == [ride[Envelope.rideId] EXCEPT !.status = "CANCELLED"]
  <2>1. handling # NoTopic /\ CommitEvent /\ UNCHANGED mirror /\ consumerFrame
    BY <1>10 DEF CommitCancelEvent, CommitEvent, HandlerReturns
  <2>2. row \in Rows /\ row.status \in RideStatus
    BY <2>1, EnvelopeTyped DEF TypeOK, Rows, RideStatus
  <2>3. Write(Envelope.rideId, row, Envelope.eventId)
    BY <1>10 DEF CommitCancelEvent
  <2> HIDE DEF row
  <2> QED BY <1>4, <1>5, <2>1, <2>2, <2>3
<1>11. CASE BeginDriverReserved
  BY <1>2, <1>3, <1>11, ConsumerAssumption, TripAssumption
  DEF BeginDriverReserved, Handling, consumerFrame, TypeOK
<1>12. CASE CommitDriverReserved
  <2> DEFINE row == [ride[Envelope.rideId] EXCEPT !.status = "MATCHED", !.driver = Envelope.driverId]
  <2>1. handling # NoTopic /\ consumerFrame
    BY <1>12, ConsumerAssumption, TripAssumption DEF CommitDriverReserved, Handling
  <2>2. row \in Rows /\ row.status \in RideStatus
    BY <2>1, EnvelopeTyped DEF TypeOK, Rows, RideStatus
  <2>3. \/ ReturnUnchanged
        \/ Write(Envelope.rideId, row, Envelope.eventId) /\ CommitEvent /\ UNCHANGED mirror
    BY <1>12 DEF CommitDriverReserved
  <2> HIDE DEF row
  <2> QED BY <1>1, <1>4, <1>5, <2>1, <2>2, <2>3
<1> QED BY <1>6, <1>7, <1>8, <1>9, <1>10, <1>11, <1>12 DEF HandlerNext

LEMMA FaultTyped ==
    ASSUME TypeOK, FaultNext
    PROVE  TypeOK'
<1>0. LoopInv(EnvelopeSet)
  BY DEF TypeOK, LoopInv
<1>1. CASE HandlerFault
  BY <1>0, <1>1, LoopThrows, ConsumerFrameTyped DEF HandlerFault, Throw, dbVars, TypeOK
<1>2. CASE ParkFault
  BY <1>0, <1>2, LoopRedeliver, ConsumerFrameTyped DEF ParkFault, dbVars, TypeOK
<1>3. CASE Restart
  <2>1. LoopInv(EnvelopeSet)'
    BY <1>0, <1>3, LoopRestart DEF Restart
  <2>2. call' \in [Calls -> CallStates] /\ \A c \in Calls : call'[c].pc = "idle"
    BY <1>3 DEF Restart, CallStates, IdleCall
  <2> QED BY <1>3, <2>1, <2>2 DEF Restart, dbVars, TypeOK, LoopInv
<1>4. ASSUME NEW t \in Topics, NEW i \in 1 .. Len(log[t]), Duplicate(t, i) PROVE TypeOK'
  <2>1. log[t][i] \in EnvelopeSet
    BY ElementOfSeq DEF TypeOK, ConsumerTypeOK
  <2>2. LoopInv(EnvelopeSet)' /\ handling' = handling
    BY <1>0, <1>4, <2>1, LoopSend DEF Duplicate, consumerVars
  <2> QED BY <1>4, <2>2 DEF Duplicate, dbVars, TypeOK, LoopInv
<1> QED BY <1>1, <1>2, <1>3, <1>4 DEF FaultNext

LEMMA PublishTyped ==
    ASSUME TypeOK, PublishNext
    PROVE  TypeOK'
<1>0. LoopInv(EnvelopeSet)
  BY DEF TypeOK, LoopInv
<1>1. ASSUME NEW t \in Topics, NEW r \in Rides, NEW d \in Drivers \cup {None},
             PublishNew(t, r, d), publishFrame,
             mirror' \in [Drivers -> DriverStatus], faults' \in Nat
      PROVE  TypeOK'
  <2>1. Payload(r, d) \in EnvelopeSet
    BY DEF Payload, EnvelopeSet, TypeOK
  <2>2. LoopInv(EnvelopeSet)' /\ handling' = handling
    BY <1>0, <1>1, <2>1, LoopSend DEF PublishNew, publishFrame, consumerVars
  <2> QED BY <1>1, <2>2 DEF PublishNew, publishFrame, dbVars, TypeOK, LoopInv
<1>2. ASSUME NEW r \in Rides, RequestRide(r) \/ RequestCancel(r) \/ DispatchRejects(r)
      PROVE  TypeOK'
  BY <1>1, <1>2, TripAssumption DEF RequestRide, RequestCancel, DispatchRejects, TypeOK
<1>3. ASSUME NEW r \in Rides, NEW d \in Drivers, DispatchReserves(r, d) PROVE TypeOK'
  BY <1>1, <1>3, TripAssumption DEF DispatchReserves, TypeOK
<1>4. ASSUME NEW d \in Drivers, DispatchMarksReserved(d) PROVE TypeOK'
  <2>1. LoopInv(EnvelopeSet)' /\ handling' = handling
    BY <1>0, <1>4, LoopStutter DEF DispatchMarksReserved, publishFrame, consumerVars
  <2> QED BY <1>4, <2>1 DEF DispatchMarksReserved, publishFrame, dbVars, DriverStatus, TypeOK, LoopInv
<1> QED BY <1>2, <1>3, <1>4 DEF PublishNext

LEMMA TypeInit == Init => TypeOK
<1> SUFFICES ASSUME Init PROVE TypeOK
  OBVIOUS
<1>1. LoopInv(EnvelopeSet)
  BY LoopInit DEF Init
<1> QED BY <1>1 DEF Init, TypeOK, LoopInv, NoRow, Rows, IdleCall, CallStates, DriverStatus

LEMMA TypeNext == TypeOK /\ [Next]_vars => TypeOK'
<1> SUFFICES ASSUME TypeOK, [Next]_vars PROVE TypeOK'
  OBVIOUS
<1>0. LoopInv(EnvelopeSet)
  BY DEF TypeOK, LoopInv
<1>1. ASSUME NEW t \in Topics, Take(t) PROVE TypeOK'
  <2>1. LoopInv(EnvelopeSet)' /\ stage = "idle"
    BY <1>0, <1>1, LoopFetch DEF Take, Fetch, TypeOK
  <2> QED BY <1>1, <2>1 DEF Take, consumerFrame, dbVars, TypeOK, LoopInv
<1>2. CASE Commit
  <2>1. LoopInv(EnvelopeSet)' /\ handling' = handling
    BY <1>0, <1>2, LoopAutoCommit DEF Commit, AutoCommit
  <2> QED BY <1>2, <2>1 DEF Commit, consumerFrame, dbVars, TypeOK, LoopInv
<1>3. CASE UNCHANGED vars
  BY <1>0, <1>3, LoopStutter DEF vars, consumerVars, TypeOK, LoopInv
<1> QED BY <1>1, <1>2, <1>3, HttpTyped, HandlerTyped, FaultTyped, PublishTyped DEF Next

\* Types, and what they say of requests and handlers, in every reachable state.
THEOREM TypeCorrect == Spec => []TypeOK
BY TypeInit, TypeNext, PTL DEF Spec

-----------------------------------------------------------------------------
\* No leg is skipped.  A check and the update it allows are separated by
\* other updates, so the invariant speaks of the audit trail, which only
\* grows: what a request or handler checked is still there when it writes.

\* Some status that ride r has had allows it to move to s.
CanReach(r, s) == \E j \in DOMAIN trail[r] : canTransitionRideStatus(trail[r][j].to, s)

StatusIsInTrail == \A r \in Rides : Exists(r) => Reached(r, ride[r].status)

RequestsChecked ==
    \A c \in Calls : call[c].pc \in {"otp", "write"} => CanReach(call[c].ride, Target(call[c].op))

HandlerChecked ==
    stage # "idle" =>
        \/ /\ handling \in {"ride.cancelled", "driver.rejected"}
           /\ CanReach(Envelope.rideId, "CANCELLED")
        \/ /\ handling = "driver.reserved"
           /\ stage = "guarded"
           /\ CanReach(Envelope.rideId, "MATCHED")

LegInv == TypeOK /\ StatusIsInTrail /\ RequestsChecked /\ HandlerChecked /\ NoLegSkipped

\* What the guards read is in the trail.
LEMMA GuardReaches ==
    ASSUME LegInv, NEW r \in Rides, NEW s, Exists(r), canTransitionRideStatus(ride[r].status, s)
    PROVE  CanReach(r, s)
BY DEF LegInv, StatusIsInTrail, Reached, CanReach

\* A step without an update.
LEMMA TrailKept ==
    ASSUME LegInv, UNCHANGED <<ride, trail>>
    PROVE  /\ StatusIsInTrail' /\ NoLegSkipped'
           /\ \A r \in Rides, s \in RideStatus : CanReach(r, s) => CanReach(r, s)'
BY DEF LegInv, StatusIsInTrail, Exists, Reached, NoLegSkipped, CanReach

\* An update to a status the trail allows.
LEMMA TrailGrows ==
    ASSUME LegInv, NEW r \in Rides, NEW row, NEW by, CanReach(r, row.status),
           row.status \in RideStatus, by \in Nat, Write(r, row, by)
    PROVE  /\ StatusIsInTrail' /\ NoLegSkipped'
           /\ \A u \in Rides, s \in RideStatus : CanReach(u, s) => CanReach(u, s)'
<1> DEFINE entry == [to |-> row.status, by |-> by]
<1>1. /\ ride \in [Rides -> Rows] /\ trail \in [Rides -> Seq(AuditRows)]
      /\ entry \in AuditRows
  BY DEF LegInv, TypeOK, AuditRows
<1>2. /\ trail'[r] = Append(trail[r], entry) /\ ride'[r] = row
      /\ \A u \in Rides : u # r => trail'[u] = trail[u] /\ ride'[u] = ride[u]
  BY <1>1 DEF Write
<1>3. /\ DOMAIN trail[r] = 1 .. Len(trail[r])
      /\ DOMAIN trail'[r] = 1 .. Len(trail[r]) + 1
      /\ \A k \in 1 .. Len(trail[r]) : trail'[r][k] = trail[r][k]
      /\ trail'[r][Len(trail[r]) + 1].to = row.status
      /\ Len(trail[r]) \in Nat
  BY <1>1, <1>2, AppendProperties, LenProperties
<1>4. StatusIsInTrail'
  BY <1>2, <1>3 DEF LegInv, StatusIsInTrail, Exists, Reached
<1>5. NoLegSkipped'
  <2> SUFFICES ASSUME NEW u \in Rides, NEW k \in DOMAIN trail'[u]
               PROVE  \/ trail'[u][k].to = "REQUESTED"
                      \/ \E j \in 1 .. k - 1 :
                           canTransitionRideStatus(trail'[u][j].to, trail'[u][k].to)
    BY DEF NoLegSkipped, canTransitionRideStatus
  <2>1. CASE u # r
    BY <1>2, <2>1 DEF LegInv, NoLegSkipped
  <2>2. CASE u = r /\ k \in 1 .. Len(trail[r])
    <3>1. CASE trail[r][k].to = "REQUESTED"
      BY <1>3, <2>2, <3>1
    <3>2. CASE \E j \in 1 .. k - 1 : canTransitionRideStatus(trail[r][j].to, trail[r][k].to)
      <4>1. \A j \in 1 .. k - 1 : j \in 1 .. Len(trail[r])
        BY <1>3, <2>2
      <4> QED BY <1>3, <2>2, <3>2, <4>1
    <3> QED BY <1>3, <2>2, <3>1, <3>2 DEF LegInv, NoLegSkipped
  <2>3. CASE u = r /\ k = Len(trail[r]) + 1
    BY <1>3, <2>3 DEF CanReach
  <2> QED BY <1>3, <2>1, <2>2, <2>3
<1>6. ASSUME NEW u \in Rides, NEW s \in RideStatus, CanReach(u, s) PROVE CanReach(u, s)'
  BY <1>2, <1>3, <1>6 DEF CanReach
<1> QED BY <1>4, <1>5, <1>6

\* The message in hand stays the same while nothing is resolved.
LEMMA EnvelopeKept ==
    ASSUME TypeOK, handling # NoTopic, UNCHANGED consumerVars,
           \/ UNCHANGED log
           \/ \E t \in Topics, e \in EnvelopeSet : SendTo(t, e)
    PROVE  Envelope' = Envelope
<1>1. /\ handling' = handling /\ Offset' = Offset
      /\ handling \in Topics /\ Offset \in 1 .. Len(log[handling])
  BY EnvelopeTyped DEF consumerVars, Offset
<1>2. CASE UNCHANGED log
  BY <1>1, <1>2 DEF Envelope
<1>3. ASSUME NEW t \in Topics, NEW e \in EnvelopeSet, SendTo(t, e) PROVE Envelope' = Envelope
  BY <1>1, <1>3, LoopSend DEF Envelope, TypeOK, LoopInv
<1> QED BY <1>2, <1>3

\* What was checked stays checked as long as trails only grow.
LEMMA CheckedKept ==
    ASSUME LegInv, \A r \in Rides, s \in RideStatus : CanReach(r, s) => CanReach(r, s)'
    PROVE  /\ UNCHANGED call => RequestsChecked'
           /\ stage' = "idle" => HandlerChecked'
           /\ handling' = handling /\ stage' = stage /\ Envelope' = Envelope => HandlerChecked'
<1>1. UNCHANGED call => RequestsChecked'
  BY StatusesAreTyped DEF LegInv, RequestsChecked, TypeOK, Target
<1>2. stage' = "idle" => HandlerChecked'
  BY DEF HandlerChecked
<1>3. ASSUME handling' = handling, stage' = stage, Envelope' = Envelope PROVE HandlerChecked'
  <2>1. stage # "idle" => Envelope.rideId \in Rides
    BY EnvelopeTyped DEF LegInv, TypeOK
  <2> QED BY <1>3, <2>1 DEF LegInv, HandlerChecked, RideStatus
<1> QED BY <1>1, <1>2, <1>3

LEMMA HttpLegs ==
    ASSUME LegInv, HttpNext
    PROVE  StatusIsInTrail' /\ RequestsChecked' /\ HandlerChecked' /\ NoLegSkipped'
<1> PICK c \in Calls :
        \/ \E op \in Operations, r \in Rides : Begin(c, op, r)
        \/ \E r \in Rides, by \in Drivers \cup {None}, otp \in Otps : BeginStart(c, r, by, otp)
        \/ CheckOtp(c)
        \/ \E otp \in Otps : Accept(c, otp)
        \/ MarkDriverArrived(c)
        \/ Start(c)
        \/ Complete(c)
        \/ Cancel(c)
        \/ SyncDriver(c)
  BY DEF HttpNext
<1> DEFINE Kept == \A r \in Rides, s \in RideStatus : CanReach(r, s) => CanReach(r, s)'
           CallOK(state) == state.pc \in {"otp", "write"} =>
                              /\ state.op \in Operations /\ state.ride \in Rides
                              /\ CanReach(state.ride, Target(state.op))
<1>1. ASSUME httpFrame, Kept, NEW state, CallOK(state), call' = [call EXCEPT ![c] = state]
      PROVE  RequestsChecked' /\ HandlerChecked'
  <2>1. HandlerChecked'
    <3>1. CASE handling = NoTopic
      BY <1>1, <3>1 DEF httpFrame, LegInv, TypeOK, HandlerChecked
    <3>2. CASE handling # NoTopic
      BY <1>1, <3>2, EnvelopeKept, CheckedKept DEF httpFrame, consumerVars, LegInv
    <3> QED BY <3>1, <3>2
  <2>2. ASSUME NEW d \in Calls
        PROVE  (call[d].pc \in {"otp", "write"} => CanReach(call[d].ride, Target(call[d].op)))'
    <3>1. call'[d] = IF d = c THEN state ELSE call[d]
      BY <1>1 DEF LegInv, TypeOK
    <3>2. \/ call'[d].pc \notin {"otp", "write"}
          \/ /\ CanReach(call'[d].ride, Target(call'[d].op))
             /\ call'[d].ride \in Rides /\ Target(call'[d].op) \in RideStatus
      BY <1>1, <3>1, StatusesAreTyped DEF LegInv, TypeOK, RequestsChecked
    <3> QED BY <1>1, <3>2 DEF CanReach, Target
  <2> QED BY <2>1, <2>2 DEF RequestsChecked
<1>2. ASSUME httpFrame, UNCHANGED <<ride, trail>>, NEW state, CallOK(state),
             call' = [call EXCEPT ![c] = state]
      PROVE  StatusIsInTrail' /\ RequestsChecked' /\ HandlerChecked' /\ NoLegSkipped'
  BY <1>1, <1>2, TrailKept
<1>3. ASSUME NEW row, NEW op \in Operations, Writing(c, op), row.status = Target(op),
             Update(c, row)
      PROVE  StatusIsInTrail' /\ RequestsChecked' /\ HandlerChecked' /\ NoLegSkipped'
  <2> DEFINE state == IF call[c].op \in {"accept", "arrived"} \/ row.driver = None
                      THEN IdleCall
                      ELSE [call[c] EXCEPT !.pc = "sync", !.driver = row.driver]
             r == call[c].ride
  <2>1. r \in Rides /\ CanReach(r, row.status) /\ row.status \in RideStatus
    BY <1>3, StatusesAreTyped DEF Writing, LegInv, RequestsChecked, TypeOK
  <2>2. Write(r, row, 0) /\ httpFrame /\ call' = [call EXCEPT ![c] = state]
    BY <1>3 DEF Update, LegInv, TypeOK
  <2>3. state.pc \in {"idle", "sync"}
    BY DEF IdleCall, LegInv, TypeOK, CallStates
  <2> HIDE DEF state, r
  <2>4. StatusIsInTrail' /\ NoLegSkipped' /\ Kept
    BY <2>1, <2>2, TrailGrows
  <2> QED BY <1>1, <2>2, <2>3, <2>4
<1>4. ASSUME NEW op \in Operations, NEW r \in Rides, Begin(c, op, r)
      PROVE  StatusIsInTrail' /\ RequestsChecked' /\ HandlerChecked' /\ NoLegSkipped'
  <2> DEFINE state == [IdleCall EXCEPT !.pc = "write", !.op = op, !.ride = r]
  <2>1. CallOK(state)
    BY <1>4, GuardReaches DEF Begin, IdleCall
  <2> HIDE DEF state
  <2> QED BY <1>2, <1>4, <2>1 DEF Begin, state
<1>5. ASSUME NEW r \in Rides, NEW by \in Drivers \cup {None}, NEW otp \in Otps,
             BeginStart(c, r, by, otp)
      PROVE  StatusIsInTrail' /\ RequestsChecked' /\ HandlerChecked' /\ NoLegSkipped'
  <2> DEFINE state == [IdleCall EXCEPT !.pc = "otp", !.op = "start", !.ride = r, !.otp = otp]
  <2>1. CallOK(state)
    BY <1>5, GuardReaches DEF BeginStart, IdleCall, Operations
  <2> HIDE DEF state
  <2> QED BY <1>2, <1>5, <2>1 DEF BeginStart, state
<1>6. CASE CheckOtp(c)
  <2> DEFINE passed == [call[c] EXCEPT !.pc = "write", !.otp = None]
  <2>1. CallOK(passed) /\ CallOK(IdleCall)
    BY <1>6 DEF CheckOtp, IdleCall, LegInv, TypeOK, CallStates, RequestsChecked
  <2>2. \/ call' = [call EXCEPT ![c] = passed]
        \/ call' = [call EXCEPT ![c] = IdleCall]
    BY <1>6 DEF CheckOtp, LegInv, TypeOK
  <2>3. httpFrame /\ UNCHANGED <<ride, trail>>
    BY <1>6 DEF CheckOtp
  <2> HIDE DEF passed, CallOK
  <2> QED BY <1>2, <2>1, <2>2, <2>3
<1>7. call[c].ride \in Rides => Row(c) \in Rows
  BY DEF Row, LegInv, TypeOK
<1>8. \A op \in Operations : Writing(c, op) =>
        \A s : [Row(c) EXCEPT !.status = s].status = s
  BY <1>7 DEF Writing, Rows, LegInv, TypeOK
<1>9. ASSUME NEW otp \in Otps, Accept(c, otp)
      PROVE  StatusIsInTrail' /\ RequestsChecked' /\ HandlerChecked' /\ NoLegSkipped'
  BY <1>3, <1>7, <1>9 DEF Accept, Writing, Rows, Operations, Target, LegInv, TypeOK
<1>10. CASE MarkDriverArrived(c)
  BY <1>3, <1>8, <1>10 DEF MarkDriverArrived, Operations, Target
<1>11. CASE Start(c)
  BY <1>3, <1>7, <1>11 DEF Start, Writing, Rows, Operations, Target, LegInv, TypeOK
<1>12. CASE Complete(c)
  BY <1>3, <1>8, <1>12 DEF Complete, Operations, Target
<1>13. CASE Cancel(c)
  BY <1>3, <1>8, <1>13 DEF Cancel, Operations, Target
<1>14. CASE SyncDriver(c)
  <2>1. CallOK(IdleCall)
    BY DEF IdleCall
  <2> QED BY <1>2, <1>14, <2>1 DEF SyncDriver
<1> QED BY <1>4, <1>5, <1>6, <1>9, <1>10, <1>11, <1>12, <1>13, <1>14

LEMMA HandlerLegs ==
    ASSUME LegInv, HandlerNext
    PROVE  StatusIsInTrail' /\ RequestsChecked' /\ HandlerChecked' /\ NoLegSkipped'
<1>0. TypeOK /\ (handling # NoTopic => Envelope.rideId \in Rides /\ Envelope.eventId \in Nat)
  BY EnvelopeTyped DEF LegInv
<1>1. ASSUME UNCHANGED <<ride, trail, call>>, stage' = "idle"
      PROVE  StatusIsInTrail' /\ RequestsChecked' /\ HandlerChecked' /\ NoLegSkipped'
  BY <1>1, TrailKept, CheckedKept
<1>2. ASSUME NEW row, row.status \in RideStatus, handling # NoTopic,
             CanReach(Envelope.rideId, row.status),
             Write(Envelope.rideId, row, Envelope.eventId), UNCHANGED call, stage' = "idle"
      PROVE  StatusIsInTrail' /\ RequestsChecked' /\ HandlerChecked' /\ NoLegSkipped'
  BY <1>0, <1>2, TrailGrows, CheckedKept
<1>3. ASSUME UNCHANGED <<ride, trail, call>>, handling # NoTopic, UNCHANGED <<log, consumerVars>>,
             \/ /\ handling \in {"ride.cancelled", "driver.rejected"}
                /\ CanReach(Envelope.rideId, "CANCELLED")
             \/ /\ handling = "driver.reserved"
                /\ stage' = "guarded"
                /\ CanReach(Envelope.rideId, "MATCHED")
      PROVE  StatusIsInTrail' /\ RequestsChecked' /\ HandlerChecked' /\ NoLegSkipped'
  <2>1. Envelope' = Envelope /\ handling' = handling
    BY <1>0, <1>3, EnvelopeKept DEF consumerVars
  <2>2. "CANCELLED" \in RideStatus /\ "MATCHED" \in RideStatus
    BY DEF RideStatus
  <2> QED BY <1>0, <1>3, <2>1, <2>2, TrailKept, CheckedKept DEF HandlerChecked
<1>4. CASE HandleRideRequested
  <2>1. CASE Envelope.eventId \in processed \/ Exists(Envelope.rideId)
    BY <1>1, <1>4, <2>1
    DEF HandleRideRequested, ReturnUnchanged, dbVars, consumerFrame
  <2>2. CASE ~(Envelope.eventId \in processed \/ Exists(Envelope.rideId))
    <3> PICK r \in Rides : r = Envelope.rideId
      BY <1>0, <1>4, ConsumerAssumption, TripAssumption DEF HandleRideRequested, Handling
    <3> DEFINE two == << [to |-> "REQUESTED", by |-> Envelope.eventId],
                         [to |-> "MATCHING", by |-> Envelope.eventId] >>
    <3>1. /\ ride' = [ride EXCEPT ![r].status = "MATCHING"]
          /\ trail' = [trail EXCEPT ![r] = @ \o two]
          /\ stage' = "idle" /\ UNCHANGED call
      BY <1>4, <2>2 DEF HandleRideRequested, CommitEvent, consumerFrame
    <3>2. r \in Rides /\ two \in Seq(AuditRows) /\ trail[r] \in Seq(AuditRows)
      BY <1>0, <1>4, ConsumerAssumption, TripAssumption
      DEF HandleRideRequested, Handling, AuditRows, RideStatus, TypeOK
    <3>3. Len(two) = 2 /\ two[1].to = "REQUESTED" /\ two[2].to = "MATCHING"
      OBVIOUS
    <3> HIDE DEF two
    <3>4. /\ trail'[r] = trail[r] \o two
          /\ \A u \in Rides : u # r => trail'[u] = trail[u] /\ ride'[u] = ride[u]
          /\ ride'[r].status = "MATCHING"
      BY <1>0, <3>1, <3>2 DEF TypeOK, Rows
    <3>5. /\ DOMAIN trail[r] = 1 .. Len(trail[r]) /\ Len(trail[r]) \in Nat
          /\ DOMAIN trail'[r] = 1 .. Len(trail[r]) + 2
          /\ \A k \in 1 .. Len(trail[r]) : trail'[r][k] = trail[r][k]
          /\ trail'[r][Len(trail[r]) + 1].to = "REQUESTED"
          /\ trail'[r][Len(trail[r]) + 2].to = "MATCHING"
      <4>1. /\ trail[r] \o two \in Seq(AuditRows)
            /\ Len(trail[r] \o two) = Len(trail[r]) + Len(two)
            /\ \A k \in 1 .. Len(trail[r]) + Len(two) :
                 (trail[r] \o two)[k] = IF k <= Len(trail[r]) THEN trail[r][k]
                                                             ELSE two[k - Len(trail[r])]
        BY <3>2, ConcatProperties
      <4>2. /\ DOMAIN trail[r] = 1 .. Len(trail[r]) /\ Len(trail[r]) \in Nat
            /\ DOMAIN trail'[r] = 1 .. Len(trail[r]) + 2
        BY <3>2, <3>3, <3>4, <4>1, LenProperties
      <4>3. \A k \in 1 .. Len(trail[r]) : trail'[r][k] = trail[r][k]
        BY <3>3, <3>4, <4>1, <4>2
      <4>4. /\ trail'[r][Len(trail[r]) + 1] = two[1]
            /\ trail'[r][Len(trail[r]) + 2] = two[2]
        BY <3>3, <3>4, <4>1, <4>2
      <4> QED BY <3>3, <4>2, <4>3, <4>4
    <3>6. StatusIsInTrail'
      <4>1. ASSUME NEW u \in Rides, u # r, Exists(u)' PROVE Reached(u, ride[u].status)'
        BY <3>4, <4>1 DEF LegInv, StatusIsInTrail, Exists, Reached
      <4>2. Reached(r, ride[r].status)'
        <5>1. Len(trail[r]) + 2 \in DOMAIN trail'[r]
          BY <3>5
        <5> QED BY <3>4, <3>5, <5>1 DEF Reached
      <4> QED BY <4>1, <4>2 DEF StatusIsInTrail
    <3>7. ASSUME NEW u \in Rides, NEW s \in RideStatus, CanReach(u, s) PROVE CanReach(u, s)'
      <4>1. CASE u # r
        BY <3>4, <3>7, <4>1 DEF CanReach
      <4>2. CASE u = r
        <5>1. PICK j \in DOMAIN trail[r] : canTransitionRideStatus(trail[r][j].to, s)
          BY <3>7, <4>2 DEF CanReach
        <5>2. j \in DOMAIN trail'[r] /\ trail'[r][j] = trail[r][j]
          BY <3>5, <5>1
        <5> QED BY <4>2, <5>1, <5>2 DEF CanReach
      <4> QED BY <4>1, <4>2
    <3>8. NoLegSkipped'
      <4> SUFFICES ASSUME NEW u \in Rides, NEW k \in DOMAIN trail'[u]
                   PROVE  \/ trail'[u][k].to = "REQUESTED"
                          \/ \E j \in 1 .. k - 1 :
                               canTransitionRideStatus(trail'[u][j].to, trail'[u][k].to)
        BY DEF NoLegSkipped, canTransitionRideStatus
      <4>1. CASE u # r
        BY <3>4, <4>1 DEF LegInv, NoLegSkipped
      <4>2. CASE u = r /\ k \in 1 .. Len(trail[r])
        <5>1. \A j \in 1 .. k - 1 : j \in 1 .. Len(trail[r])
          BY <3>5, <4>2
        <5> QED BY <3>2, <3>5, <4>2, <5>1 DEF LegInv, NoLegSkipped
      <4>3. CASE u = r /\ k = Len(trail[r]) + 1
        BY <3>5, <4>3
      <4>4. CASE u = r /\ k = Len(trail[r]) + 2
        <5>1. Len(trail[r]) + 1 \in 1 .. k - 1
          BY <3>5, <4>4
        <5>2. canTransitionRideStatus(trail'[r][Len(trail[r]) + 1].to, trail'[r][k].to)
          BY <3>5, <4>4 DEF canTransitionRideStatus, RideTransitions
        <5> QED BY <4>4, <5>1, <5>2
      <4>5. \A n \in Nat : 1 .. n + 2 = (1 .. n) \cup {n + 1, n + 2}
        OBVIOUS
      <4>6. u = r => k \in (1 .. Len(trail[r])) \cup {Len(trail[r]) + 1, Len(trail[r]) + 2}
        BY <3>5, <4>5
      <4> QED BY <4>1, <4>2, <4>3, <4>4, <4>6
    <3> QED BY <3>1, <3>6, <3>7, <3>8, CheckedKept
  <2> QED BY <2>1, <2>2
<1>5. CASE BeginCancelEvent
  <2>1. handling \in {"ride.cancelled", "driver.rejected"} /\ handling # NoTopic
    BY <1>5, ConsumerAssumption, TripAssumption DEF BeginCancelEvent, Handling
  <2>2. CASE stage' = "idle"
    BY <1>1, <1>5, <2>2
    DEF BeginCancelEvent, ReturnUnchanged, Throw, dbVars, consumerFrame
  <2>3. CASE stage' # "idle"
    BY <1>0, <1>3, <1>5, <2>1, <2>3, GuardReaches
    DEF BeginCancelEvent, ReturnUnchanged, Throw, dbVars, consumerFrame
  <2> QED BY <2>2, <2>3
<1>6. CASE LockRow
  <2>1. handling \in {"ride.cancelled", "driver.rejected"} /\ handling # NoTopic
    BY <1>6, ConsumerAssumption, TripAssumption DEF LockRow, Handling
  <2> QED BY <1>3, <1>6, <2>1 DEF LockRow, LegInv, HandlerChecked, dbVars, consumerFrame
<1>7. CASE SyncBeforeCommit
  <2>1. /\ handling \in {"ride.cancelled", "driver.rejected"} /\ handling # NoTopic
        /\ CanReach(Envelope.rideId, "CANCELLED")
    BY <1>7, ConsumerAssumption, TripAssumption DEF SyncBeforeCommit, LegInv, HandlerChecked
  <2> QED BY <1>3, <1>7, <2>1 DEF SyncBeforeCommit, dbVars
<1>8. CASE CommitCancelEvent
  <2> DEFINE row == [ride[Envelope.rideId] EXCEPT !.status = "CANCELLED"]
  <2>1. handling # NoTopic /\ CanReach(Envelope.rideId, "CANCELLED")
    BY <1>8, ConsumerAssumption, TripAssumption DEF CommitCancelEvent, LegInv, HandlerChecked
  <2>2. row.status = "CANCELLED" /\ row.status \in RideStatus
    BY <1>0, <2>1 DEF TypeOK, Rows, RideStatus
  <2>3. Write(Envelope.rideId, row, Envelope.eventId) /\ UNCHANGED call /\ stage' = "idle"
    BY <1>8 DEF CommitCancelEvent, CommitEvent, consumerFrame
  <2> HIDE DEF row
  <2> QED BY <1>2, <2>1, <2>2, <2>3
<1>9. CASE BeginDriverReserved
  <2>1. handling = "driver.reserved" /\ handling # NoTopic
    BY <1>9, ConsumerAssumption, TripAssumption DEF BeginDriverReserved, Handling
  <2>2. CASE stage' = "idle"
    BY <1>1, <1>9, <2>2 DEF BeginDriverReserved, Throw, dbVars, consumerFrame
  <2>3. CASE stage' # "idle"
    BY <1>0, <1>3, <1>9, <2>1, <2>3, GuardReaches
    DEF BeginDriverReserved, Throw, dbVars, consumerFrame
  <2> QED BY <2>2, <2>3
<1>10. CASE CommitDriverReserved
  <2> DEFINE row == [ride[Envelope.rideId] EXCEPT !.status = "MATCHED", !.driver = Envelope.driverId]
  <2>1. handling # NoTopic /\ CanReach(Envelope.rideId, "MATCHED")
    BY <1>10, ConsumerAssumption, TripAssumption
    DEF CommitDriverReserved, Handling, LegInv, HandlerChecked
  <2>2. row.status = "MATCHED" /\ row.status \in RideStatus
    BY <1>0, <2>1 DEF TypeOK, Rows, RideStatus
  <2>3. CASE Envelope.eventId \in processed
    BY <1>1, <1>10, <2>3 DEF CommitDriverReserved, ReturnUnchanged, dbVars, consumerFrame
  <2>4. CASE Envelope.eventId \notin processed
    <3>1. Write(Envelope.rideId, row, Envelope.eventId) /\ UNCHANGED call /\ stage' = "idle"
      BY <1>10, <2>4 DEF CommitDriverReserved, CommitEvent, consumerFrame
    <3> HIDE DEF row
    <3> QED BY <1>2, <2>1, <2>2, <3>1
  <2> QED BY <2>3, <2>4
<1> QED BY <1>4, <1>5, <1>6, <1>7, <1>8, <1>9, <1>10 DEF HandlerNext

LEMMA LegNext == LegInv /\ [Next]_vars => LegInv'
<1> SUFFICES ASSUME LegInv, [Next]_vars PROVE LegInv'
  OBVIOUS
<1>T. TypeOK /\ TypeOK'
  BY TypeNext DEF LegInv
<1>1. ASSUME UNCHANGED <<ride, trail>>, \/ UNCHANGED call
                                        \/ \A c \in Calls : call'[c].pc = "idle",
             stage' = "idle"
      PROVE  LegInv'
  BY <1>T, <1>1, TrailKept, CheckedKept DEF LegInv, RequestsChecked
<1>2. ASSUME UNCHANGED <<ride, trail, call, stage>>, UNCHANGED consumerVars,
             \/ UNCHANGED log
             \/ \E t \in Topics, e \in EnvelopeSet : SendTo(t, e)
      PROVE  LegInv'
  <2>1. handling' = handling
    BY <1>2 DEF consumerVars
  <2>2. CASE handling = NoTopic
    BY <1>T, <1>2, <2>1, <2>2, TrailKept, CheckedKept DEF LegInv, TypeOK, HandlerChecked
  <2>3. CASE handling # NoTopic
    BY <1>T, <1>2, <2>1, <2>3, EnvelopeKept, TrailKept, CheckedKept DEF LegInv
  <2> QED BY <2>2, <2>3
<1>3. ASSUME NEW t \in Topics, Take(t) PROVE LegInv'
  BY <1>T, <1>1, <1>3 DEF Take, Fetch, TypeOK, dbVars, consumerFrame
<1>4. CASE Commit
  <2>1. UNCHANGED <<log, position, handling, ride, trail, call, stage>>
    BY <1>4 DEF Commit, AutoCommit, dbVars, consumerFrame
  <2>2. Envelope' = Envelope
    BY <2>1 DEF Envelope, Offset
  <2> QED BY <1>T, <2>1, <2>2, TrailKept, CheckedKept DEF LegInv
<1>5. CASE HandlerFault \/ ParkFault
  BY <1>1, <1>5 DEF HandlerFault, ParkFault, Throw, dbVars
<1>6. CASE Restart
  <2>1. \A c \in Calls : call'[c].pc = "idle"
    BY <1>6 DEF Restart, IdleCall
  <2> QED BY <1>1, <1>6, <2>1 DEF Restart, dbVars
<1>7. ASSUME NEW t \in Topics, NEW i \in 1 .. Len(log[t]), Duplicate(t, i) PROVE LegInv'
  <2>1. log[t][i] \in EnvelopeSet
    BY <1>T, ElementOfSeq DEF TypeOK, ConsumerTypeOK
  <2> QED BY <1>2, <1>7, <2>1 DEF Duplicate, dbVars
<1>8. ASSUME NEW t \in Topics, NEW r \in Rides, NEW d \in Drivers \cup {None},
             PublishNew(t, r, d), publishFrame
      PROVE  LegInv'
  <2>1. Payload(r, d) \in EnvelopeSet
    BY <1>T DEF Payload, EnvelopeSet, TypeOK
  <2> QED BY <1>2, <1>8, <2>1 DEF PublishNew, publishFrame, dbVars
<1>9. CASE PublishNext
  <2>1. ASSUME NEW d \in Drivers, DispatchMarksReserved(d) PROVE LegInv'
    BY <1>2, <2>1 DEF DispatchMarksReserved, publishFrame, dbVars
  <2> QED BY <1>8, <1>9, <2>1, TripAssumption
      DEF PublishNext, RequestRide, RequestCancel, DispatchRejects, DispatchReserves
<1>10. CASE UNCHANGED vars
  BY <1>2, <1>10 DEF vars
<1>11. CASE HttpNext
  BY <1>T, <1>11, HttpLegs DEF LegInv
<1>12. CASE HandlerNext
  BY <1>T, <1>12, HandlerLegs DEF LegInv
<1> QED BY <1>3, <1>4, <1>5, <1>6, <1>7, <1>9, <1>10, <1>11, <1>12 DEF Next, FaultNext

LEMMA LegInit == Init => LegInv
<1> SUFFICES ASSUME Init PROVE LegInv
  OBVIOUS
<1>1. StatusIsInTrail /\ NoLegSkipped
  BY DEF Init, StatusIsInTrail, Exists, NoRow, NoLegSkipped
<1>2. RequestsChecked /\ HandlerChecked
  BY DEF Init, RequestsChecked, HandlerChecked, IdleCall
<1> QED BY <1>1, <1>2, TypeInit DEF LegInv

\* A ride reaches a status only if it had one from which the table allows it,
\* whatever requests, events, retries and restarts interleave.
THEOREM LegsAreNotSkipped == Spec => []NoLegSkipped
<1>1. LegInv => NoLegSkipped
  BY DEF LegInv
<1> QED BY <1>1, LegInit, LegNext, PTL DEF Spec

-----------------------------------------------------------------------------
\* A ride keeps its driver.  Only CommitDriverReserved writes the column, and
\* it does so on the strength of a check made one await earlier: since then
\* requests may have moved the ride, but none gave it a driver.

UnmatchedHasNoDriver ==
    \A r \in Rides : ride[r].status \in {None, "REQUESTED", "MATCHING"} => ride[r].driver = None

MatchIsFirst ==
    stage # "idle" /\ handling = "driver.reserved" => ride[Envelope.rideId].driver = None

DriverInv == TypeOK /\ UnmatchedHasNoDriver /\ MatchIsFirst

\* What a step that writes no driver may do to the table.
DriversKept ==
    \A r \in Rides :
        /\ ride'[r].driver = ride[r].driver
        /\ \/ ride'[r].status = ride[r].status
           \/ ride'[r].status \notin {None, "REQUESTED", "MATCHING"}
           \/ ride[r].status = None

LEMMA HttpKeepsDrivers ==
    ASSUME TypeOK, HttpNext
    PROVE  DriversKept /\ UNCHANGED <<log, consumerVars, stage>>
<1> PICK c \in Calls :
        \/ \E op \in Operations, r \in Rides : Begin(c, op, r)
        \/ \E r \in Rides, by \in Drivers \cup {None}, otp \in Otps : BeginStart(c, r, by, otp)
        \/ CheckOtp(c)
        \/ \E otp \in Otps : Accept(c, otp)
        \/ MarkDriverArrived(c)
        \/ Start(c)
        \/ Complete(c)
        \/ Cancel(c)
        \/ SyncDriver(c)
  BY DEF HttpNext
<1>1. ASSUME UNCHANGED ride, httpFrame PROVE DriversKept /\ UNCHANGED <<log, consumerVars, stage>>
  BY <1>1 DEF DriversKept, httpFrame
<1>2. ASSUME NEW row, row.driver = Row(c).driver, Update(c, row),
             row.status \notin {None, "REQUESTED", "MATCHING"}
      PROVE  DriversKept /\ UNCHANGED <<log, consumerVars, stage>>
  BY <1>2 DEF DriversKept, Update, Write, httpFrame, Row, TypeOK
<1>3. \A op \in Operations : Writing(c, op) =>
        /\ Row(c) \in Rows
        /\ \A s, o : /\ [Row(c) EXCEPT !.status = s].status = s
                     /\ [Row(c) EXCEPT !.status = s].driver = Row(c).driver
                     /\ [Row(c) EXCEPT !.status = s, !.otp = o].status = s
                     /\ [Row(c) EXCEPT !.status = s, !.otp = o].driver = Row(c).driver
  BY DEF Writing, Row, Rows, TypeOK
<1>4. \A s \in {"DRIVER_ARRIVING", "DRIVER_ARRIVED", "IN_PROGRESS", "COMPLETED", "CANCELLED"} :
        s \notin {None, "REQUESTED", "MATCHING"}
  BY TripAssumption DEF RideStatus
<1>5. ASSUME NEW otp \in Otps, Accept(c, otp)
      PROVE  DriversKept /\ UNCHANGED <<log, consumerVars, stage>>
  BY <1>2, <1>3, <1>4, <1>5 DEF Accept, Operations
<1>6. CASE MarkDriverArrived(c)
  BY <1>2, <1>3, <1>4, <1>6 DEF MarkDriverArrived, Operations
<1>7. CASE Start(c)
  BY <1>2, <1>3, <1>4, <1>7 DEF Start, Operations
<1>8. CASE Complete(c)
  BY <1>2, <1>3, <1>4, <1>8 DEF Complete, Operations
<1>9. CASE Cancel(c)
  BY <1>2, <1>3, <1>4, <1>9 DEF Cancel, Operations
<1> QED BY <1>1, <1>5, <1>6, <1>7, <1>8, <1>9 DEF Begin, BeginStart, CheckOtp, SyncDriver

\* The invariant survives every step that writes no driver.
LEMMA DriverStep ==
    ASSUME DriverInv, TypeOK', DriversKept,
           \/ stage' = "idle"
           \/ handling' # "driver.reserved"
           \/ /\ handling # NoTopic /\ handling' = handling /\ Envelope' = Envelope
              /\ \/ stage' = stage
                 \/ ride[Envelope.rideId].status = "MATCHING"
    PROVE  DriverInv'
<1>1. UnmatchedHasNoDriver'
  BY DEF DriverInv, UnmatchedHasNoDriver, DriversKept
<1>2. handling # NoTopic => Envelope.rideId \in Rides
  BY EnvelopeTyped DEF DriverInv
<1>3. MatchIsFirst'
  BY <1>2 DEF DriverInv, MatchIsFirst, UnmatchedHasNoDriver, DriversKept
<1> QED BY <1>1, <1>3 DEF DriverInv

KeepsDriver == \A r \in Rides : ride[r].driver # None => ride'[r].driver = ride[r].driver

LEMMA DriverNext == DriverInv /\ [Next]_vars => DriverInv' /\ KeepsDriver
<1> SUFFICES ASSUME DriverInv, [Next]_vars PROVE DriverInv' /\ KeepsDriver
  OBVIOUS
<1>T. TypeOK /\ TypeOK'
  BY TypeNext DEF DriverInv
<1>0. DriversKept => KeepsDriver
  BY DEF DriversKept, KeepsDriver
<1>1. ASSUME UNCHANGED ride, stage' = "idle" PROVE DriverInv' /\ KeepsDriver
  BY <1>0, <1>1, <1>T, DriverStep DEF DriversKept
<1>2. ASSUME DriversKept, UNCHANGED <<consumerVars, stage>>,
             \/ UNCHANGED log
             \/ \E t \in Topics, e \in EnvelopeSet : SendTo(t, e)
      PROVE  DriverInv' /\ KeepsDriver
  <2>1. handling' = handling
    BY <1>2 DEF consumerVars
  <2>2. CASE handling = NoTopic
    BY <1>0, <1>2, <1>T, <2>1, <2>2, DriverStep DEF TypeOK
  <2>3. CASE handling # NoTopic
    BY <1>0, <1>2, <1>T, <2>1, <2>3, EnvelopeKept, DriverStep
  <2> QED BY <2>2, <2>3
<1>3. ASSUME UNCHANGED <<ride, log, consumerVars>>, handling # NoTopic,
             \/ handling # "driver.reserved"
             \/ ride[Envelope.rideId].status = "MATCHING"
      PROVE  DriverInv' /\ KeepsDriver
  <2>1. handling' = handling /\ Envelope' = Envelope
    BY <1>3, <1>T, EnvelopeKept DEF consumerVars
  <2> QED BY <1>0, <1>3, <1>T, <2>1, DriverStep DEF DriversKept
<1>4. CASE HttpNext
  BY <1>2, <1>4, <1>T, HttpKeepsDrivers
<1>5. ASSUME NEW t \in Topics, Take(t) PROVE DriverInv' /\ KeepsDriver
  BY <1>1, <1>5, <1>T DEF Take, Fetch, TypeOK, dbVars, consumerFrame
<1>6. CASE Commit
  <2>1. UNCHANGED <<log, position, handling, ride, stage>>
    BY <1>6 DEF Commit, AutoCommit, dbVars, consumerFrame
  <2>2. Envelope' = Envelope
    BY <2>1 DEF Envelope, Offset
  <2>3. CASE handling = NoTopic
    BY <1>0, <1>T, <2>1, <2>3, DriverStep DEF DriversKept, TypeOK
  <2> QED BY <1>0, <1>T, <2>1, <2>2, <2>3, DriverStep DEF DriversKept
<1>7. CASE HandleRideRequested
  <2>1. CASE Envelope.eventId \in processed \/ Exists(Envelope.rideId)
    BY <1>1, <1>7, <2>1 DEF HandleRideRequested, ReturnUnchanged, dbVars
  <2>2. CASE ~(Envelope.eventId \in processed \/ Exists(Envelope.rideId))
    <3>1. /\ ride' = [ride EXCEPT ![Envelope.rideId].status = "MATCHING"]
          /\ stage' = "idle" /\ ride[Envelope.rideId].status = None
      BY <1>7, <2>2 DEF HandleRideRequested, CommitEvent, Exists
    <3>2. DriversKept
      BY <1>T, <3>1 DEF DriversKept, TypeOK, Rows
    <3> QED BY <1>0, <1>T, <3>1, <3>2, DriverStep
  <2> QED BY <2>1, <2>2
<1>8. CASE BeginCancelEvent
  <2>1. handling # NoTopic /\ handling # "driver.reserved"
    BY <1>8, ConsumerAssumption, TripAssumption DEF BeginCancelEvent, Handling
  <2>2. CASE stage' = "idle"
    BY <1>1, <1>8, <2>2 DEF BeginCancelEvent, ReturnUnchanged, Throw, dbVars
  <2>3. CASE stage' # "idle"
    BY <1>3, <1>8, <2>1, <2>3 DEF BeginCancelEvent, ReturnUnchanged, Throw, dbVars
  <2> QED BY <2>2, <2>3
<1>9. CASE LockRow
  BY <1>3, <1>9, ConsumerAssumption, TripAssumption DEF LockRow, Handling, dbVars
<1>10. CASE SyncBeforeCommit
  <2>1. CASE handling = NoTopic
    BY <1>10, <1>T, <2>1 DEF SyncBeforeCommit, TypeOK
  <2>2. CASE handling # NoTopic
    <3>1. /\ handling' = handling /\ Envelope' = Envelope /\ UNCHANGED ride
          /\ stage = "updated" /\ stage' = "synced"
      BY <1>10, <1>T, <2>2, EnvelopeKept DEF SyncBeforeCommit, consumerVars, dbVars
    <3>2. DriversKept /\ UnmatchedHasNoDriver'
      BY <3>1 DEF DriversKept, DriverInv, UnmatchedHasNoDriver
    <3>3. MatchIsFirst'
      BY <1>T, <2>2, <3>1, EnvelopeTyped DEF DriverInv, MatchIsFirst
    <3> QED BY <1>0, <1>T, <3>2, <3>3 DEF DriverInv
  <2> QED BY <2>1, <2>2
<1>11. CASE CommitCancelEvent
  <2>1. /\ ride' = [ride EXCEPT ![Envelope.rideId] =
                      [ride[Envelope.rideId] EXCEPT !.status = "CANCELLED"]]
        /\ stage' = "idle"
    BY <1>11 DEF CommitCancelEvent, Write, CommitEvent
  <2>2. "CANCELLED" # None
    BY TripAssumption DEF RideStatus
  <2>3. DriversKept
    BY <1>T, <2>1, <2>2 DEF DriversKept, TypeOK, Rows
  <2> QED BY <1>0, <1>T, <2>1, <2>3, DriverStep
<1>12. CASE BeginDriverReserved
  <2>1. handling # NoTopic /\ Exists(Envelope.rideId) => Envelope.rideId \in Rides
    BY <1>T, EnvelopeTyped
  <2>2. CASE stage' = "idle"
    BY <1>1, <1>12, <2>2 DEF BeginDriverReserved, Throw, dbVars
  <2>3. CASE stage' # "idle"
    <3>1. /\ handling = "driver.reserved" /\ handling # NoTopic
          /\ canTransitionRideStatus(ride[Envelope.rideId].status, "MATCHED")
          /\ UNCHANGED <<ride, log, consumerVars>>
      BY <1>12, <2>3, ConsumerAssumption, TripAssumption
      DEF BeginDriverReserved, Handling, Throw, dbVars
    <3>2. ride[Envelope.rideId].status = "MATCHING"
      BY <3>1 DEF canTransitionRideStatus, RideTransitions
    <3> QED BY <1>3, <3>1, <3>2
  <2> QED BY <2>2, <2>3
<1>13. CASE CommitDriverReserved
  <2> DEFINE row == [ride[Envelope.rideId] EXCEPT !.status = "MATCHED", !.driver = Envelope.driverId]
  <2>1. /\ handling = "driver.reserved" /\ handling # NoTopic /\ stage # "idle"
        /\ ride[Envelope.rideId].driver = None /\ Envelope.rideId \in Rides
    BY <1>13, <1>T, EnvelopeTyped, ConsumerAssumption, TripAssumption
    DEF CommitDriverReserved, Handling, DriverInv, MatchIsFirst
  <2>2. CASE Envelope.eventId \in processed
    BY <1>1, <1>13, <2>2 DEF CommitDriverReserved, ReturnUnchanged, dbVars
  <2>3. CASE Envelope.eventId \notin processed
    <3>1. ride' = [ride EXCEPT ![Envelope.rideId] = row] /\ stage' = "idle"
      BY <1>13, <2>3 DEF CommitDriverReserved, Write, CommitEvent
    <3>2. row.status = "MATCHED" /\ "MATCHED" # None
      BY <1>T, <2>1, TripAssumption DEF TypeOK, Rows, RideStatus
    <3> HIDE DEF row
    <3>3. KeepsDriver /\ UnmatchedHasNoDriver'
      BY <1>T, <2>1, <3>1, <3>2 DEF KeepsDriver, DriverInv, UnmatchedHasNoDriver, TypeOK
    <3> QED BY <1>T, <3>1, <3>3 DEF DriverInv, MatchIsFirst
  <2> QED BY <2>2, <2>3
<1>14. CASE HandlerFault \/ ParkFault \/ Restart
  BY <1>1, <1>14 DEF HandlerFault, ParkFault, Restart, Throw, dbVars
<1>15. ASSUME NEW t \in Topics, NEW i \in 1 .. Len(log[t]), Duplicate(t, i)
       PROVE  DriverInv' /\ KeepsDriver
  <2>1. log[t][i] \in EnvelopeSet
    BY <1>T, ElementOfSeq DEF TypeOK, ConsumerTypeOK
  <2> QED BY <1>2, <1>15, <2>1 DEF Duplicate, dbVars, DriversKept
<1>16. ASSUME NEW t \in Topics, NEW r \in Rides, NEW d \in Drivers \cup {None},
              PublishNew(t, r, d), publishFrame
       PROVE  DriverInv' /\ KeepsDriver
  <2>1. Payload(r, d) \in EnvelopeSet
    BY <1>T DEF Payload, EnvelopeSet, TypeOK
  <2> QED BY <1>2, <1>16, <2>1 DEF PublishNew, publishFrame, dbVars, DriversKept
<1>17. CASE PublishNext
  <2>1. ASSUME NEW d \in Drivers, DispatchMarksReserved(d) PROVE DriverInv' /\ KeepsDriver
    BY <1>2, <2>1 DEF DispatchMarksReserved, publishFrame, dbVars, DriversKept
  <2> QED BY <1>16, <1>17, <2>1, TripAssumption
      DEF PublishNext, RequestRide, RequestCancel, DispatchRejects, DispatchReserves
<1>18. CASE UNCHANGED vars
  BY <1>2, <1>18 DEF vars, DriversKept
<1> QED
  BY <1>4, <1>5, <1>6, <1>7, <1>8, <1>9, <1>10, <1>11, <1>12, <1>13, <1>14, <1>15, <1>17, <1>18
  DEF Next, HandlerNext, FaultNext

LEMMA DriverInit == Init => DriverInv
BY TypeInit DEF Init, DriverInv, UnmatchedHasNoDriver, MatchIsFirst, NoRow

\* The driver of a ride is never replaced, by a duplicated or a second
\* driver.reserved, whatever happens between the check and the update.
THEOREM DriverIsKept == Spec => DriverNeverReassigned
<1>1. DriverInv /\ [Next]_vars => [KeepsDriver]_vars
  BY DriverNext
<1> QED BY <1>1, DriverInit, DriverNext, PTL DEF Spec, DriverNeverReassigned, KeepsDriver

-----------------------------------------------------------------------------
\* Exactly once.  What a handler records with its work is what it looked for
\* before it; the cancelling handlers look two awaits before they commit, so
\* that their event is still unrecorded is part of the invariant.

EventIsFresh ==
    stage # "idle" =>
        \/ handling = "driver.reserved" /\ stage = "guarded"
        \/ handling \in {"ride.cancelled", "driver.rejected"} /\ Envelope.eventId \notin processed

UncreatedHasNoTrail == \A r \in Rides : ~Exists(r) => trail[r] = << >>

OnceInv == TypeOK /\ ExactlyOnce /\ EventIsFresh /\ UncreatedHasNoTrail

\* What a request's step may do to the tables: nothing, or one update of its
\* ride to a status past the match, without an event id.
LEMMA HttpEffect ==
    ASSUME TypeOK, HttpNext
    PROVE  /\ httpFrame
           /\ \/ UNCHANGED <<ride, trail>>
              \/ \E c \in Calls, row \in Rows :
                    /\ call[c].pc = "write"
                    /\ row.status \in RideStatus \ {"REQUESTED", "MATCHING", "MATCHED"}
                    /\ row.driver = ride[call[c].ride].driver
                    /\ Write(call[c].ride, row, 0)
<1> PICK c \in Calls :
        \/ \E op \in Operations, r \in Rides : Begin(c, op, r)
        \/ \E r \in Rides, by \in Drivers \cup {None}, otp \in Otps : BeginStart(c, r, by, otp)
        \/ CheckOtp(c)
        \/ \E otp \in Otps : Accept(c, otp)
        \/ MarkDriverArrived(c)
        \/ Start(c)
        \/ Complete(c)
        \/ Cancel(c)
        \/ SyncDriver(c)
  BY DEF HttpNext
<1> DEFINE Effect == \E row \in Rows :
                        /\ call[c].pc = "write"
                        /\ row.status \in RideStatus \ {"REQUESTED", "MATCHING", "MATCHED"}
                        /\ row.driver = ride[call[c].ride].driver
                        /\ Write(call[c].ride, row, 0)
           later == {"DRIVER_ARRIVING", "DRIVER_ARRIVED", "IN_PROGRESS", "COMPLETED", "CANCELLED"}
<1>1. ASSUME NEW row \in Rows, row.status \in later, row.driver = Row(c).driver,
             call[c].pc = "write", Update(c, row)
      PROVE  httpFrame /\ Effect
  <2>1. httpFrame /\ Write(call[c].ride, row, 0)
    BY <1>1 DEF Update
  <2>2. row.status \in RideStatus \ {"REQUESTED", "MATCHING", "MATCHED"}
    BY <1>1 DEF RideStatus
  <2> QED BY <1>1, <2>1, <2>2 DEF Row
<1> HIDE DEF Effect
<1>2. ASSUME call[c].pc = "write" PROVE Row(c) \in Rows
  BY <1>2 DEF Row, TypeOK
<1>3. ASSUME call[c].pc = "write", NEW s \in later, Update(c, [Row(c) EXCEPT !.status = s])
      PROVE  httpFrame /\ Effect
  <2> DEFINE row == [Row(c) EXCEPT !.status = s]
  <2>1. row \in Rows /\ row.status = s /\ row.driver = Row(c).driver
    BY <1>2, <1>3 DEF Rows, RideStatus
  <2> HIDE DEF row
  <2> QED BY <1>1, <1>3, <2>1 DEF row
<1>4. ASSUME call[c].pc = "write", NEW s \in later, NEW o \in Otps \cup {None},
             Update(c, [Row(c) EXCEPT !.status = s, !.otp = o])
      PROVE  httpFrame /\ Effect
  <2> DEFINE row == [Row(c) EXCEPT !.status = s, !.otp = o]
  <2>1. row \in Rows /\ row.status = s /\ row.driver = Row(c).driver
    BY <1>2, <1>4 DEF Rows, RideStatus
  <2> HIDE DEF row
  <2> QED BY <1>1, <1>4, <2>1 DEF row
<1>0. Effect => \E d \in Calls, row \in Rows :
                    /\ call[d].pc = "write"
                    /\ row.status \in RideStatus \ {"REQUESTED", "MATCHING", "MATCHED"}
                    /\ row.driver = ride[call[d].ride].driver
                    /\ Write(call[d].ride, row, 0)
  BY DEF Effect
<1>5. ASSUME NEW otp \in Otps, Accept(c, otp) PROVE httpFrame /\ Effect
  BY <1>4, <1>5 DEF Accept, Writing
<1>6. ASSUME MarkDriverArrived(c) PROVE httpFrame /\ Effect
  BY <1>3, <1>6 DEF MarkDriverArrived, Writing
<1>7. ASSUME Start(c) PROVE httpFrame /\ Effect
  BY <1>4, <1>7 DEF Start, Writing
<1>8. ASSUME Complete(c) PROVE httpFrame /\ Effect
  BY <1>3, <1>8 DEF Complete, Writing
<1>9. ASSUME Cancel(c) PROVE httpFrame /\ Effect
  BY <1>3, <1>9 DEF Cancel, Writing
<1> QED BY <1>5, <1>6, <1>7, <1>8, <1>9, <1>0 DEF Begin, BeginStart, CheckOtp, SyncDriver

\* ExactlyOnce, as a condition on any trails and any record of events.
SameWork(k, k2) == k2 = k \/ {k, k2} = {1, 2}

Once(tr, done) ==
    /\ \A e \in done : \E r \in Rides : \E k \in DOMAIN tr[r] : tr[r][k].by = e
    /\ \A r \in Rides : \A k \in DOMAIN tr[r] : tr[r][k].by # 0 => tr[r][k].by \in done
    /\ \A r \in Rides : \A k \in DOMAIN tr[r] :
         tr[r][k].by # 0 =>
           \A r2 \in Rides : \A k2 \in DOMAIN tr[r2] :
             tr[r2][k2].by = tr[r][k].by => r2 = r /\ SameWork(k, k2)

LEMMA OnceMeans ==
    (ExactlyOnce <=> Once(trail, processed)) /\ (ExactlyOnce' <=> Once(trail', processed'))
BY DEF ExactlyOnce, Once, SameWork

\* A step that writes neither table.
LEMMA OnceKept ==
    ASSUME OnceInv, UNCHANGED <<ride, trail, processed>>
    PROVE  ExactlyOnce' /\ UncreatedHasNoTrail'
BY OnceMeans DEF OnceInv, UncreatedHasNoTrail, Exists

\* What a row appended to a trail changes.
LEMMA TrailAppended ==
    ASSUME TypeOK, NEW r \in Rides, NEW row, NEW by, row.status \in RideStatus, by \in Nat,
           Write(r, row, by)
    PROVE  /\ \A u \in Rides : u # r => trail'[u] = trail[u] /\ ride'[u] = ride[u]
           /\ ride'[r] = row
           /\ Len(trail[r]) \in Nat
           /\ DOMAIN trail[r] = 1 .. Len(trail[r])
           /\ DOMAIN trail'[r] = 1 .. Len(trail[r]) + 1
           /\ \A k \in 1 .. Len(trail[r]) : trail'[r][k] = trail[r][k]
           /\ trail'[r][Len(trail[r]) + 1] = [to |-> row.status, by |-> by]
<1> DEFINE entry == [to |-> row.status, by |-> by]
<1>1. /\ ride \in [Rides -> Rows] /\ trail \in [Rides -> Seq(AuditRows)]
      /\ entry \in AuditRows
  BY DEF TypeOK, AuditRows
<1>2. /\ trail'[r] = Append(trail[r], entry) /\ ride'[r] = row
      /\ \A u \in Rides : u # r => trail'[u] = trail[u] /\ ride'[u] = ride[u]
  BY <1>1 DEF Write
<1> HIDE DEF entry
<1>3. /\ DOMAIN trail[r] = 1 .. Len(trail[r])
      /\ DOMAIN trail'[r] = 1 .. Len(trail[r]) + 1
      /\ \A k \in 1 .. Len(trail[r]) : trail'[r][k] = trail[r][k]
      /\ trail'[r][Len(trail[r]) + 1] = entry
      /\ Len(trail[r]) \in Nat
  BY <1>1, <1>2, AppendProperties, LenProperties
<1> QED BY <1>2, <1>3 DEF entry

\* A request's update: its audit row names no event.
LEMMA OnceRequest ==
    ASSUME OnceInv, NEW r \in Rides, NEW row, row.status \in RideStatus,
           Write(r, row, 0), UNCHANGED processed
    PROVE  ExactlyOnce' /\ UncreatedHasNoTrail'
<1> DEFINE n == Len(trail[r])
<1>T. TypeOK /\ 0 \in Nat
  BY DEF OnceInv
<1>1. /\ \A u \in Rides : u # r => trail'[u] = trail[u] /\ ride'[u] = ride[u]
      /\ ride'[r] = row /\ n \in Nat
      /\ DOMAIN trail[r] = 1 .. n /\ DOMAIN trail'[r] = 1 .. n + 1
      /\ \A k \in 1 .. n : trail'[r][k] = trail[r][k]
      /\ trail'[r][n + 1] = [to |-> row.status, by |-> 0]
  BY <1>T, TrailAppended
<1> HIDE DEF n
<1>2. /\ trail'[r][n + 1].by = 0
      /\ 1 .. n \subseteq 1 .. n + 1 /\ 1 .. n + 1 = (1 .. n) \cup {n + 1}
  BY <1>1
<1>3. ASSUME NEW u \in Rides
      PROVE  /\ \A k \in DOMAIN trail[u] : k \in DOMAIN trail'[u] /\ trail'[u][k] = trail[u][k]
             /\ \A k \in DOMAIN trail'[u] :
                  trail'[u][k].by # 0 => k \in DOMAIN trail[u] /\ trail'[u][k] = trail[u][k]
  <2>1. CASE u = r
    BY <1>1, <1>2, <2>1
  <2>2. CASE u # r
    BY <1>1, <2>2
  <2> QED BY <2>1, <2>2
<1>4. UncreatedHasNoTrail'
  BY <1>1, TripAssumption DEF OnceInv, UncreatedHasNoTrail, Exists
<1>5. Once(trail, processed)
  BY OnceMeans DEF OnceInv
<1>6. Once(trail', processed)
  BY <1>3, <1>5 DEF Once
<1> QED BY <1>4, <1>6, OnceMeans

\* A handler's update: its audit row names an event no other row names.
LEMMA OnceEvent ==
    ASSUME OnceInv, NEW r \in Rides, NEW row, row.status \in RideStatus,
           NEW e \in Nat \ {0}, e \notin processed,
           Write(r, row, e), processed' = processed \cup {e}
    PROVE  ExactlyOnce' /\ UncreatedHasNoTrail'
<1> DEFINE n == Len(trail[r])
<1>T. TypeOK /\ e \in Nat
  BY DEF OnceInv
<1>1. /\ \A u \in Rides : u # r => trail'[u] = trail[u] /\ ride'[u] = ride[u]
      /\ ride'[r] = row /\ n \in Nat
      /\ DOMAIN trail[r] = 1 .. n /\ DOMAIN trail'[r] = 1 .. n + 1
      /\ \A k \in 1 .. n : trail'[r][k] = trail[r][k]
      /\ trail'[r][n + 1] = [to |-> row.status, by |-> e]
  BY <1>T, TrailAppended
<1> HIDE DEF n
<1>2. /\ trail'[r][n + 1].by = e /\ n + 1 \in DOMAIN trail'[r]
      /\ 1 .. n \subseteq 1 .. n + 1 /\ 1 .. n + 1 = (1 .. n) \cup {n + 1}
  BY <1>1
<1>3. Once(trail, processed)
  BY OnceMeans DEF OnceInv
<1>4. \A u \in Rides : \A k \in DOMAIN trail[u] : trail[u][k].by # e
  BY <1>3 DEF Once
<1>5. ASSUME NEW u \in Rides
      PROVE  /\ \A k \in DOMAIN trail[u] : k \in DOMAIN trail'[u] /\ trail'[u][k] = trail[u][k]
             /\ \A k \in DOMAIN trail'[u] :
                  \/ k \in DOMAIN trail[u] /\ trail'[u][k] = trail[u][k]
                  \/ u = r /\ k = n + 1
  <2>1. CASE u = r
    BY <1>1, <1>2, <2>1
  <2>2. CASE u # r
    BY <1>1, <2>2
  <2> QED BY <2>1, <2>2
<1>6. UncreatedHasNoTrail'
  BY <1>1, TripAssumption DEF OnceInv, UncreatedHasNoTrail, Exists
<1>7. \A f \in processed' : \E u \in Rides : \E k \in DOMAIN trail'[u] : trail'[u][k].by = f
  <2>1. \E k \in DOMAIN trail'[r] : trail'[r][k].by = e
    BY <1>2
  <2>2. \A f \in processed : \E u \in Rides : \E k \in DOMAIN trail'[u] : trail'[u][k].by = f
    BY <1>3, <1>5 DEF Once
  <2> QED BY <2>1, <2>2
<1>8. \A u \in Rides : \A k \in DOMAIN trail'[u] :
        trail'[u][k].by # 0 => trail'[u][k].by \in processed'
  BY <1>2, <1>3, <1>5 DEF Once
<1>9. ASSUME NEW u \in Rides, NEW k \in DOMAIN trail'[u], trail'[u][k].by # 0,
             NEW u2 \in Rides, NEW k2 \in DOMAIN trail'[u2], trail'[u2][k2].by = trail'[u][k].by
      PROVE  u2 = u /\ SameWork(k, k2)
  <2>1. CASE k \in DOMAIN trail[u] /\ trail'[u][k] = trail[u][k]
    <3>1. k2 \in DOMAIN trail[u2] /\ trail'[u2][k2] = trail[u2][k2]
      BY <1>2, <1>4, <1>5, <1>9, <2>1
    <3> QED BY <1>3, <1>9, <2>1, <3>1 DEF Once
  <2>2. CASE u = r /\ k = n + 1
    <3>1. u2 = r /\ k2 = n + 1
      BY <1>2, <1>4, <1>5, <1>9, <2>2
    <3> QED BY <2>2, <3>1 DEF SameWork
  <2> QED BY <1>5, <2>1, <2>2
<1>10. Once(trail', processed')
  BY <1>7, <1>8, <1>9 DEF Once
<1> QED BY <1>6, <1>10, OnceMeans

\* The first handler's two updates of a new row, whose trail is empty.
LEMMA OnceCreation ==
    ASSUME OnceInv, NEW r \in Rides, ~Exists(r), NEW e \in Nat \ {0}, e \notin processed,
           NEW first \in AuditRows, NEW second \in AuditRows, first.by = e, second.by = e,
           trail' = [trail EXCEPT ![r] = @ \o <<first, second>>],
           ride' = [ride EXCEPT ![r].status = "MATCHING"],
           processed' = processed \cup {e}
    PROVE  ExactlyOnce' /\ UncreatedHasNoTrail'
<1>1. /\ \A u \in Rides : u # r => trail'[u] = trail[u] /\ ride'[u] = ride[u]
      /\ trail[r] = << >> /\ trail'[r] = <<first, second>>
      /\ ride'[r].status = "MATCHING"
  <2>1. trail[r] = << >> /\ trail \in [Rides -> Seq(AuditRows)] /\ ride \in [Rides -> Rows]
    BY DEF OnceInv, UncreatedHasNoTrail, TypeOK
  <2>2. << >> \o <<first, second>> = <<first, second>>
    OBVIOUS
  <2> QED BY <2>1, <2>2 DEF Rows
<1>2. DOMAIN trail'[r] = {1, 2} /\ \A k \in {1, 2} : trail'[r][k].by = e
  <2>1. DOMAIN <<first, second>> = {1, 2}
    OBVIOUS
  <2> QED BY <1>1, <2>1
<1>3. DOMAIN trail[r] = {}
  BY <1>1
<1>4. Once(trail, processed)
  BY OnceMeans DEF OnceInv
<1>5. UncreatedHasNoTrail'
  BY <1>1, TripAssumption DEF OnceInv, UncreatedHasNoTrail, Exists, RideStatus
<1>6. \A u \in Rides : \A k \in DOMAIN trail[u] : trail[u][k].by # e
  BY <1>4 DEF Once
<1>7. ASSUME NEW f \in processed'
      PROVE  \E u \in Rides : \E k \in DOMAIN trail'[u] : trail'[u][k].by = f
  <2>1. CASE f = e
    <3>1. 1 \in DOMAIN trail'[r] /\ trail'[r][1].by = f
      BY <1>2, <2>1
    <3> QED BY <3>1
  <2>2. CASE f \in processed
    <3>1. PICK u \in Rides : \E k \in DOMAIN trail[u] : trail[u][k].by = f
      BY <1>4, <2>2 DEF Once
    <3>2. u # r
      BY <1>3, <3>1
    <3> QED BY <1>1, <3>1, <3>2
  <2> QED BY <2>1, <2>2
<1>8. \A u \in Rides : \A k \in DOMAIN trail'[u] :
        trail'[u][k].by # 0 => trail'[u][k].by \in processed'
  BY <1>1, <1>2, <1>4 DEF Once
<1>9. ASSUME NEW u \in Rides, NEW k \in DOMAIN trail'[u], trail'[u][k].by # 0,
             NEW u2 \in Rides, NEW k2 \in DOMAIN trail'[u2], trail'[u2][k2].by = trail'[u][k].by
      PROVE  u2 = u /\ SameWork(k, k2)
  <2>1. CASE u = r
    <3>1. u2 = r /\ k \in {1, 2} /\ k2 \in {1, 2}
      BY <1>1, <1>2, <1>6, <1>9, <2>1
    <3>2. k2 = k \/ {k, k2} = {1, 2}
      BY <3>1
    <3> QED BY <2>1, <3>1, <3>2 DEF SameWork
  <2>2. CASE u # r
    <3>1. trail'[u] = trail[u] /\ trail[u][k].by # e
      BY <1>1, <1>6, <1>9, <2>2
    <3>2. u2 # r /\ trail'[u2] = trail[u2]
      BY <1>1, <1>2, <1>9, <3>1
    <3> QED BY <1>4, <1>9, <3>1, <3>2 DEF Once
  <2> QED BY <2>1, <2>2
<1>10. Once(trail', processed')
  BY <1>7, <1>8, <1>9 DEF Once
<1> QED BY <1>5, <1>10, OnceMeans

\* The message in hand and the record of events stay, or the handler is done.
LEMMA FreshKept ==
    ASSUME OnceInv,
           \/ stage' = "idle"
           \/ handling' = "driver.reserved" /\ stage' = "guarded"
           \/ /\ handling' = handling /\ Envelope' = Envelope /\ processed' = processed
              /\ \/ stage' = stage
                 \/ /\ handling \in {"ride.cancelled", "driver.rejected"}
                    /\ stage # "idle" \/ Envelope.eventId \notin processed
    PROVE  EventIsFresh'
BY DEF OnceInv, EventIsFresh

LEMMA OnceHandler ==
    ASSUME OnceInv, HandlerNext
    PROVE  ExactlyOnce' /\ EventIsFresh' /\ UncreatedHasNoTrail'
<1>T. TypeOK
  BY DEF OnceInv
<1>E. handling # NoTopic => Envelope.eventId \in Nat \ {0} /\ Envelope.rideId \in Rides
  BY <1>T, EnvelopeTyped
<1>1. ASSUME UNCHANGED <<ride, trail, processed>>, stage' = "idle"
      PROVE  ExactlyOnce' /\ EventIsFresh' /\ UncreatedHasNoTrail'
  BY <1>1, OnceKept, FreshKept
<1>2. ASSUME UNCHANGED <<ride, trail, processed, log, consumerVars>>, handling # NoTopic,
             \/ handling = "driver.reserved" /\ stage' = "guarded"
             \/ /\ handling \in {"ride.cancelled", "driver.rejected"}
                /\ stage # "idle" \/ Envelope.eventId \notin processed
      PROVE  ExactlyOnce' /\ EventIsFresh' /\ UncreatedHasNoTrail'
  <2>1. handling' = handling /\ Envelope' = Envelope
    BY <1>2, <1>T, EnvelopeKept DEF consumerVars
  <2> QED BY <1>2, <2>1, OnceKept, FreshKept
<1>3. ASSUME NEW row \in Rows, row.status \in RideStatus, handling # NoTopic,
             Envelope.eventId \notin processed,
             Write(Envelope.rideId, row, Envelope.eventId), CommitEvent
      PROVE  ExactlyOnce' /\ EventIsFresh' /\ UncreatedHasNoTrail'
  BY <1>3, <1>E, OnceEvent, FreshKept DEF CommitEvent
<1>4. CASE HandleRideRequested
  <2>1. handling # NoTopic
    BY <1>4, ConsumerAssumption, TripAssumption DEF HandleRideRequested, Handling
  <2>2. CASE Envelope.eventId \in processed \/ Exists(Envelope.rideId)
    BY <1>1, <1>4, <2>2 DEF HandleRideRequested, ReturnUnchanged, dbVars
  <2>3. CASE ~(Envelope.eventId \in processed \/ Exists(Envelope.rideId))
    <3> DEFINE first == [to |-> "REQUESTED", by |-> Envelope.eventId]
               second == [to |-> "MATCHING", by |-> Envelope.eventId]
    <3>1. /\ first \in AuditRows /\ first.by = Envelope.eventId
          /\ second \in AuditRows /\ second.by = Envelope.eventId
      BY <1>E, <2>1 DEF AuditRows, RideStatus
    <3>2. /\ trail' = [trail EXCEPT ![Envelope.rideId] = @ \o <<first, second>>]
          /\ ride' = [ride EXCEPT ![Envelope.rideId].status = "MATCHING"]
          /\ processed' = processed \cup {Envelope.eventId} /\ stage' = "idle"
      BY <1>4, <2>3 DEF HandleRideRequested, CommitEvent
    <3> HIDE DEF first, second
    <3> QED BY <1>E, <2>1, <2>3, <3>1, <3>2, OnceCreation, FreshKept
  <2> QED BY <2>2, <2>3
<1>5. CASE BeginCancelEvent
  <2>1. handling # NoTopic /\ handling \in {"ride.cancelled", "driver.rejected"}
    BY <1>5, ConsumerAssumption, TripAssumption DEF BeginCancelEvent, Handling
  <2>2. CASE stage' = "idle"
    BY <1>1, <1>5, <2>2 DEF BeginCancelEvent, ReturnUnchanged, Throw, dbVars
  <2>3. CASE stage' # "idle"
    BY <1>2, <1>5, <2>1, <2>3 DEF BeginCancelEvent, ReturnUnchanged, Throw, dbVars
  <2> QED BY <2>2, <2>3
<1>6. CASE LockRow
  BY <1>2, <1>6, ConsumerAssumption, TripAssumption DEF LockRow, Handling, dbVars
<1>7. CASE SyncBeforeCommit
  <2>1. handling \in {"ride.cancelled", "driver.rejected"} /\ handling # NoTopic
    BY <1>7, ConsumerAssumption, TripAssumption DEF SyncBeforeCommit, OnceInv, EventIsFresh
  <2> QED BY <1>2, <1>7, <2>1 DEF SyncBeforeCommit, dbVars
<1>8. CASE CommitCancelEvent
  <2> DEFINE row == [ride[Envelope.rideId] EXCEPT !.status = "CANCELLED"]
  <2>1. handling # NoTopic /\ Envelope.eventId \notin processed
    BY <1>8, ConsumerAssumption, TripAssumption DEF CommitCancelEvent, OnceInv, EventIsFresh
  <2>2. row \in Rows /\ row.status \in RideStatus
    BY <1>T, <2>1, EnvelopeTyped DEF TypeOK, Rows, RideStatus
  <2>3. Write(Envelope.rideId, row, Envelope.eventId) /\ CommitEvent
    BY <1>8 DEF CommitCancelEvent
  <2> HIDE DEF row
  <2> QED BY <1>3, <2>1, <2>2, <2>3
<1>9. CASE BeginDriverReserved
  <2>1. handling # NoTopic /\ handling = "driver.reserved"
    BY <1>9, ConsumerAssumption, TripAssumption DEF BeginDriverReserved, Handling
  <2>2. CASE stage' = "idle"
    BY <1>1, <1>9, <2>2 DEF BeginDriverReserved, Throw, dbVars
  <2>3. CASE stage' # "idle"
    BY <1>2, <1>9, <2>1, <2>3 DEF BeginDriverReserved, Throw, dbVars
  <2> QED BY <2>2, <2>3
<1>10. CASE CommitDriverReserved
  <2> DEFINE row == [ride[Envelope.rideId] EXCEPT !.status = "MATCHED", !.driver = Envelope.driverId]
  <2>1. handling # NoTopic
    BY <1>10, ConsumerAssumption, TripAssumption DEF CommitDriverReserved, Handling
  <2>2. row \in Rows /\ row.status \in RideStatus
    BY <1>T, <2>1, EnvelopeTyped DEF TypeOK, Rows, RideStatus
  <2>3. CASE Envelope.eventId \in processed
    BY <1>1, <1>10, <2>3 DEF CommitDriverReserved, ReturnUnchanged, dbVars
  <2>4. CASE Envelope.eventId \notin processed
    <3>1. Write(Envelope.rideId, row, Envelope.eventId) /\ CommitEvent
      BY <1>10, <2>4 DEF CommitDriverReserved
    <3> HIDE DEF row
    <3> QED BY <1>3, <2>1, <2>2, <2>4, <3>1
  <2> QED BY <2>3, <2>4
<1> QED BY <1>4, <1>5, <1>6, <1>7, <1>8, <1>9, <1>10 DEF HandlerNext

LEMMA OnceNext == OnceInv /\ [Next]_vars => OnceInv'
<1> SUFFICES ASSUME OnceInv, [Next]_vars PROVE OnceInv'
  OBVIOUS
<1>T. TypeOK /\ TypeOK'
  BY TypeNext DEF OnceInv
<1>1. ASSUME UNCHANGED <<ride, trail, processed>>, stage' = "idle" PROVE OnceInv'
  BY <1>1, <1>T, OnceKept, FreshKept DEF OnceInv
<1>2. ASSUME ExactlyOnce', UncreatedHasNoTrail', UNCHANGED <<processed, consumerVars, stage>>,
             \/ UNCHANGED log
             \/ \E t \in Topics, e \in EnvelopeSet : SendTo(t, e)
      PROVE  OnceInv'
  <2>1. handling' = handling
    BY <1>2 DEF consumerVars
  <2>2. CASE handling = NoTopic
    BY <1>2, <1>T, <2>2, FreshKept DEF OnceInv, TypeOK
  <2>3. CASE handling # NoTopic
    BY <1>2, <1>T, <2>1, <2>3, EnvelopeKept, FreshKept DEF OnceInv
  <2> QED BY <2>2, <2>3
<1>3. CASE HttpNext
  <2>1. UNCHANGED <<log, consumerVars, processed, stage>>
    BY <1>T, <1>3, HttpEffect DEF httpFrame
  <2>2. CASE UNCHANGED <<ride, trail>>
    BY <1>2, <2>1, <2>2, OnceKept
  <2>3. ASSUME NEW c \in Calls, NEW row \in Rows, call[c].pc = "write",
               row.status \in RideStatus, Write(call[c].ride, row, 0)
        PROVE  OnceInv'
    <3>1. call[c].ride \in Rides
      BY <1>T, <2>3 DEF TypeOK
    <3> QED BY <1>2, <2>1, <2>3, <3>1, OnceRequest
  <2> QED BY <1>T, <1>3, <2>2, <2>3, HttpEffect
<1>4. ASSUME NEW t \in Topics, Take(t) PROVE OnceInv'
  BY <1>1, <1>4, <1>T DEF Take, Fetch, TypeOK, dbVars
<1>5. CASE Commit
  <2>1. UNCHANGED <<log, position, handling, ride, trail, processed, stage>>
    BY <1>5 DEF Commit, AutoCommit, dbVars
  <2>2. Envelope' = Envelope
    BY <2>1 DEF Envelope, Offset
  <2> QED BY <1>T, <2>1, <2>2, OnceKept, FreshKept DEF OnceInv
<1>6. CASE HandlerNext
  BY <1>T, <1>6, OnceHandler DEF OnceInv
<1>7. CASE HandlerFault \/ ParkFault \/ Restart
  BY <1>1, <1>7 DEF HandlerFault, ParkFault, Restart, Throw, dbVars
<1>8. ASSUME NEW t \in Topics, NEW i \in 1 .. Len(log[t]), Duplicate(t, i) PROVE OnceInv'
  <2>1. log[t][i] \in EnvelopeSet
    BY <1>T, ElementOfSeq DEF TypeOK, ConsumerTypeOK
  <2> QED BY <1>2, <1>8, <2>1, OnceKept DEF Duplicate, dbVars
<1>9. ASSUME NEW t \in Topics, NEW r \in Rides, NEW d \in Drivers \cup {None},
             PublishNew(t, r, d), publishFrame
      PROVE  OnceInv'
  <2>1. Payload(r, d) \in EnvelopeSet
    BY <1>T DEF Payload, EnvelopeSet, TypeOK
  <2> QED BY <1>2, <1>9, <2>1, OnceKept DEF PublishNew, publishFrame, dbVars
<1>10. CASE PublishNext
  <2>1. ASSUME NEW d \in Drivers, DispatchMarksReserved(d) PROVE OnceInv'
    BY <1>2, <2>1, OnceKept DEF DispatchMarksReserved, publishFrame, dbVars
  <2> QED BY <1>9, <1>10, <2>1, TripAssumption
      DEF PublishNext, RequestRide, RequestCancel, DispatchRejects, DispatchReserves
<1>11. CASE UNCHANGED vars
  BY <1>2, <1>11, OnceKept DEF vars
<1> QED BY <1>3, <1>4, <1>5, <1>6, <1>7, <1>8, <1>10, <1>11 DEF Next, FaultNext

LEMMA OnceInit == Init => OnceInv
<1> SUFFICES ASSUME Init PROVE OnceInv
  OBVIOUS
<1>1. ExactlyOnce /\ UncreatedHasNoTrail /\ EventIsFresh
  BY DEF Init, ExactlyOnce, UncreatedHasNoTrail, EventIsFresh
<1> QED BY <1>1, TypeInit DEF OnceInv

\* An event acts once: through duplicates, failed attempts, rollbacks,
\* parkings and restarts, the audit rows of an event and its record in
\* processed_events come together and never again.
THEOREM EventsActOnce == Spec => []ExactlyOnce
<1>1. OnceInv => ExactlyOnce
  BY DEF OnceInv
<1> QED BY <1>1, OnceInit, OnceNext, PTL DEF Spec

-----------------------------------------------------------------------------
\* Nothing is dropped.  A handler returns early for an event it finds in
\* processed_events, or, for a ride.requested, because the ride's row exists:
\* that the row came from this very event is the rest of the invariant.

ResolvedSettled ==
    \A t \in Topics : \A i \in 1 .. position[t] :
        log[t][i].eventId \in processed \/ <<t, i>> \in dlt

CreatedByRequest ==
    \A r \in Rides : Exists(r) =>
        \E i \in DOMAIN log["ride.requested"] :
            /\ log["ride.requested"][i].rideId = r
            /\ log["ride.requested"][i].eventId \in processed

OneRequestEach ==
    \A i, j \in DOMAIN log["ride.requested"] :
        log["ride.requested"][i].rideId = log["ride.requested"][j].rideId =>
            log["ride.requested"][i].eventId = log["ride.requested"][j].eventId

DropInv == LegInv /\ OnceInv /\ ResolvedSettled /\ CreatedByRequest /\ OneRequestEach

\* The message in hand resolves with its event recorded or parked.
SettlesInHand ==
    /\ handling # NoTopic
    /\ position' = [position EXCEPT ![handling] = @ + 1]
    /\ Envelope.eventId \in processed' \/ <<handling, Offset>> \in dlt'

\* The three parts, through a step that sends nothing.
LEMMA DropQuiet ==
    ASSUME DropInv, UNCHANGED log, processed \subseteq processed', dlt \subseteq dlt',
           \/ position' \in {position, committed}
           \/ SettlesInHand,
           \A r \in Rides :
              Exists(r)' => \/ Exists(r)
                            \/ /\ handling = "ride.requested" /\ r = Envelope.rideId
                               /\ Envelope.eventId \in processed'
    PROVE  ResolvedSettled' /\ CreatedByRequest' /\ OneRequestEach'
<1>T. TypeOK /\ ResolvedSettled /\ CreatedByRequest /\ OneRequestEach
  BY DEF DropInv, OnceInv
<1>P. /\ position \in [Topics -> Nat] /\ committed \in [Topics -> Nat]
      /\ \A t \in Topics : committed[t] <= position[t]
  BY <1>T DEF TypeOK, ConsumerTypeOK, OffsetsOK
<1>1. ASSUME NEW t \in Topics, NEW i \in 1 .. position'[t]
      PROVE  log[t][i].eventId \in processed' \/ <<t, i>> \in dlt'
  <2>1. CASE i \in 1 .. position[t]
    BY <1>T, <2>1 DEF ResolvedSettled
  <2>2. CASE i \notin 1 .. position[t]
    <3>1. SettlesInHand
      BY <1>1, <1>P, <2>2
    <3>2. handling \in Topics
      BY <1>T, <3>1 DEF SettlesInHand, TypeOK, ConsumerTypeOK
    <3>3. t = handling /\ i = Offset
      BY <1>1, <1>P, <2>2, <3>1, <3>2 DEF SettlesInHand, Offset
    <3> QED BY <3>1, <3>3 DEF SettlesInHand, Envelope
  <2> QED BY <2>1, <2>2
<1>2. ResolvedSettled'
  BY <1>1 DEF ResolvedSettled
<1>3. ASSUME NEW r \in Rides, Exists(r)'
      PROVE  \E i \in DOMAIN log["ride.requested"] :
                /\ log["ride.requested"][i].rideId = r
                /\ log["ride.requested"][i].eventId \in processed'
  <2>1. CASE Exists(r)
    BY <1>T, <2>1 DEF CreatedByRequest
  <2>2. CASE ~Exists(r)
    <3>1. /\ handling = "ride.requested" /\ r = Envelope.rideId
          /\ Envelope.eventId \in processed'
      BY <1>3, <2>2
    <3>2. handling # NoTopic
      BY <3>1, ConsumerAssumption, TripAssumption
    <3>3. Offset \in 1 .. Len(log[handling]) /\ handling \in Topics
      BY <1>T, <3>2, EnvelopeTyped
    <3>4. Offset \in DOMAIN log["ride.requested"]
      BY <1>T, <3>1, <3>3, LenProperties DEF TypeOK, ConsumerTypeOK
    <3> QED BY <3>1, <3>4 DEF Envelope
  <2> QED BY <2>1, <2>2
<1>4. CreatedByRequest'
  BY <1>3 DEF CreatedByRequest
<1>5. OneRequestEach'
  BY <1>T DEF OneRequestEach
<1> QED BY <1>2, <1>4, <1>5

\* The three parts, through a publication.
LEMMA DropSend ==
    ASSUME DropInv, UNCHANGED <<consumerVars, ride, processed>>,
           NEW t \in Topics, NEW e \in EnvelopeSet, SendTo(t, e),
           t = "ride.requested" =>
              \A i \in DOMAIN log[t] : log[t][i].rideId = e.rideId => log[t][i].eventId = e.eventId
    PROVE  ResolvedSettled' /\ CreatedByRequest' /\ OneRequestEach'
<1>T. TypeOK /\ ResolvedSettled /\ CreatedByRequest /\ OneRequestEach
  BY DEF DropInv, OnceInv
<1>1. /\ \A u \in Topics : /\ Len(log'[u]) = Len(log[u]) + (IF u = t THEN 1 ELSE 0)
                           /\ \A i \in 1 .. Len(log[u]) : log'[u][i] = log[u][i]
      /\ log'[t][Len(log[t]) + 1] = e
  BY <1>T, LoopSend DEF TypeOK, LoopInv
<1>2. log' \in [Topics -> Seq(EnvelopeSet)]
  BY <1>T, LoopSend DEF TypeOK, LoopInv, ConsumerTypeOK
<1>3. \A u \in Topics : /\ Len(log[u]) \in Nat
                        /\ DOMAIN log[u] = 1 .. Len(log[u]) /\ DOMAIN log'[u] = 1 .. Len(log'[u])
                        /\ position'[u] = position[u] /\ position[u] \in Nat
                        /\ position[u] <= Len(log[u])
  BY <1>T, <1>2, LenProperties DEF TypeOK, ConsumerTypeOK, OffsetsOK, consumerVars
<1>4. ResolvedSettled'
  <2>1. ASSUME NEW u \in Topics, NEW i \in 1 .. position[u]
        PROVE  log'[u][i].eventId \in processed \/ <<u, i>> \in dlt
    <3>1. position[u] \in Nat /\ position[u] <= Len(log[u]) /\ Len(log[u]) \in Nat
      BY <1>3
    <3>2. i \in 1 .. Len(log[u])
      BY <2>1, <3>1
    <3>3. log'[u][i] = log[u][i]
      BY <1>1, <3>2
    <3> QED BY <1>T, <2>1, <3>3 DEF ResolvedSettled
  <2>2. dlt' = dlt /\ position' = position /\ processed' = processed
    BY DEF consumerVars
  <2> QED BY <2>1, <2>2 DEF ResolvedSettled
<1> DEFINE requests == log["ride.requested"]
           n == Len(requests)
<1>5. "ride.requested" \in Topics
  BY TripAssumption
<1>6. /\ n \in Nat /\ DOMAIN requests = 1 .. n
      /\ \A i \in 1 .. n : requests'[i] = requests[i]
      /\ \/ DOMAIN requests' = 1 .. n
         \/ /\ t = "ride.requested" /\ DOMAIN requests' = (1 .. n) \cup {n + 1}
            /\ requests'[n + 1] = e
  <2>1. \A m \in Nat : 1 .. m + 1 = (1 .. m) \cup {m + 1} /\ m + 0 = m
    OBVIOUS
  <2>2. /\ n \in Nat /\ DOMAIN requests = 1 .. n /\ DOMAIN requests' = 1 .. Len(requests')
        /\ Len(requests') = n + (IF "ride.requested" = t THEN 1 ELSE 0)
        /\ \A i \in 1 .. n : requests'[i] = requests[i]
    BY <1>1, <1>3, <1>5
  <2>3. CASE t = "ride.requested"
    <3>1. Len(requests') = n + 1 /\ requests'[n + 1] = e
      BY <1>1, <2>2, <2>3
    <3> QED BY <2>1, <2>2, <2>3, <3>1
  <2>4. CASE t # "ride.requested"
    <3>1. Len(requests') = n + 0
      BY <2>2, <2>4
    <3>2. Len(requests') = n
      BY <2>1, <2>2, <3>1
    <3> QED BY <2>2, <3>2
  <2> QED BY <2>3, <2>4
<1>7. CreatedByRequest'
  <2>1. \A r \in Rides : Exists(r)' => Exists(r)
    BY DEF Exists
  <2>2. ASSUME NEW r \in Rides, Exists(r)
        PROVE  \E i \in DOMAIN requests' :
                  requests'[i].rideId = r /\ requests'[i].eventId \in processed'
    <3>1. PICK i \in DOMAIN requests : requests[i].rideId = r /\ requests[i].eventId \in processed
      BY <1>T, <2>2 DEF CreatedByRequest
    <3>2. i \in DOMAIN requests' /\ requests'[i] = requests[i]
      BY <1>6, <3>1
    <3> QED BY <3>1, <3>2
  <2> QED BY <2>1, <2>2 DEF CreatedByRequest
<1>8. ASSUME NEW i \in DOMAIN requests', NEW j \in DOMAIN requests',
             requests'[i].rideId = requests'[j].rideId
      PROVE  requests'[i].eventId = requests'[j].eventId
  <2>1. \A k \in 1 .. n : requests[k].rideId = e.rideId /\ t = "ride.requested" =>
                            requests[k].eventId = e.eventId
    BY <1>6
  <2>2. CASE i \in 1 .. n /\ j \in 1 .. n
    BY <1>T, <1>6, <1>8, <2>2 DEF OneRequestEach
  <2>3. CASE i \notin 1 .. n /\ j \in 1 .. n
    BY <1>6, <1>8, <2>1, <2>3
  <2>4. CASE i \in 1 .. n /\ j \notin 1 .. n
    BY <1>6, <1>8, <2>1, <2>4
  <2>5. CASE i \notin 1 .. n /\ j \notin 1 .. n
    BY <1>6, <1>8, <2>5
  <2> QED BY <2>2, <2>3, <2>4, <2>5
<1>9. OneRequestEach'
  BY <1>8 DEF OneRequestEach
<1> QED BY <1>4, <1>7, <1>9

\* A row that a trail allows to move has been created.
LEMMA CheckedExists ==
    ASSUME DropInv, NEW r \in Rides, NEW s, CanReach(r, s)
    PROVE  Exists(r)
<1>1. trail[r] # << >>
  BY DEF CanReach
<1> QED BY <1>1 DEF DropInv, OnceInv, UncreatedHasNoTrail

\* One way or the other, a handler's step settles what it resolves.
LEMMA DropHandler ==
    ASSUME DropInv, HandlerNext
    PROVE  ResolvedSettled' /\ CreatedByRequest' /\ OneRequestEach'
<1>T. TypeOK
  BY DEF DropInv, OnceInv
<1>E. handling # NoTopic => Envelope.rideId \in Rides /\ handling \in Topics
  BY <1>T, EnvelopeTyped
<1>0. ASSUME HandlerReturns PROVE UNCHANGED <<log, dlt>> /\ position' = [position EXCEPT ![handling] = @ + 1]
  BY <1>0 DEF HandlerReturns, Resolve
<1>1. ASSUME ReturnUnchanged, Envelope.eventId \in processed
      PROVE  ResolvedSettled' /\ CreatedByRequest' /\ OneRequestEach'
  <2>1. HandlerReturns /\ UNCHANGED <<ride, processed>>
    BY <1>1 DEF ReturnUnchanged, dbVars
  <2>2. SettlesInHand
    BY <1>0, <1>1, <2>1 DEF SettlesInHand, HandlerReturns
  <2> QED BY <1>0, <2>1, <2>2, DropQuiet DEF Exists
<1>2. ASSUME Throw
      PROVE  ResolvedSettled' /\ CreatedByRequest' /\ OneRequestEach'
  <2>1. /\ UNCHANGED <<log, ride, processed>> /\ dlt \subseteq dlt'
        /\ position' = position \/ SettlesInHand
    BY <1>2 DEF Throw, HandlerThrows, Resolve, SettlesInHand, dbVars
  <2> QED BY <2>1, DropQuiet DEF Exists
<1>3. ASSUME UNCHANGED <<log, consumerVars, ride, processed>>
      PROVE  ResolvedSettled' /\ CreatedByRequest' /\ OneRequestEach'
  BY <1>3, DropQuiet DEF consumerVars, Exists
<1>4. ASSUME CommitEvent,
             \A r \in Rides : Exists(r)' => \/ Exists(r)
                                            \/ handling = "ride.requested" /\ r = Envelope.rideId
      PROVE  ResolvedSettled' /\ CreatedByRequest' /\ OneRequestEach'
  <2>1. processed' = processed \cup {Envelope.eventId} /\ HandlerReturns
    BY <1>4 DEF CommitEvent
  <2>2. SettlesInHand
    BY <1>0, <2>1 DEF SettlesInHand, HandlerReturns
  <2> QED BY <1>0, <1>4, <2>1, <2>2, DropQuiet
<1>5. ASSUME NEW row, NEW s, handling # NoTopic, CanReach(Envelope.rideId, s),
             Write(Envelope.rideId, row, Envelope.eventId)
      PROVE  \A r \in Rides : Exists(r)' => Exists(r)
  <2>1. Exists(Envelope.rideId)
    BY <1>5, <1>E, CheckedExists
  <2>2. \A r \in Rides : r # Envelope.rideId => ride'[r] = ride[r]
    BY <1>5, <1>T DEF Write, TypeOK
  <2> QED BY <2>1, <2>2 DEF Exists
<1>6. CASE HandleRideRequested
  <2>1. handling = "ride.requested" /\ handling # NoTopic
    BY <1>6, ConsumerAssumption, TripAssumption DEF HandleRideRequested, Handling
  <2>2. Exists(Envelope.rideId) => Envelope.eventId \in processed
    <3>1. SUFFICES ASSUME Exists(Envelope.rideId) PROVE Envelope.eventId \in processed
      OBVIOUS
    <3>2. PICK i \in DOMAIN log["ride.requested"] :
             /\ log["ride.requested"][i].rideId = Envelope.rideId
             /\ log["ride.requested"][i].eventId \in processed
      BY <1>E, <2>1, <3>1 DEF DropInv, CreatedByRequest
    <3>3. Offset \in 1 .. Len(log[handling])
      BY <1>T, <2>1, EnvelopeTyped
    <3>4. Offset \in DOMAIN log["ride.requested"]
      BY <1>E, <1>T, <2>1, <3>3, LenProperties DEF TypeOK, ConsumerTypeOK
    <3>5. log["ride.requested"][i].eventId = log["ride.requested"][Offset].eventId
      BY <2>1, <3>2, <3>4 DEF DropInv, OneRequestEach, Envelope
    <3> QED BY <2>1, <3>2, <3>5 DEF Envelope
  <2>3. CASE Envelope.eventId \in processed \/ Exists(Envelope.rideId)
    BY <1>1, <1>6, <2>2, <2>3 DEF HandleRideRequested
  <2>4. CASE ~(Envelope.eventId \in processed \/ Exists(Envelope.rideId))
    <3>1. CommitEvent /\ ride' = [ride EXCEPT ![Envelope.rideId].status = "MATCHING"]
      BY <1>6, <2>4 DEF HandleRideRequested
    <3>2. \A r \in Rides : r # Envelope.rideId => ride'[r] = ride[r]
      BY <1>T, <3>1 DEF TypeOK
    <3> QED BY <1>4, <2>1, <3>1, <3>2 DEF Exists
  <2> QED BY <2>3, <2>4
<1>7. CASE BeginCancelEvent
  BY <1>1, <1>2, <1>3, <1>7 DEF BeginCancelEvent, dbVars
<1>8. CASE LockRow
  BY <1>3, <1>8 DEF LockRow, dbVars
<1>9. CASE SyncBeforeCommit
  BY <1>3, <1>9 DEF SyncBeforeCommit, dbVars
<1>10. CASE CommitCancelEvent
  <2>1. handling # NoTopic /\ CanReach(Envelope.rideId, "CANCELLED")
    BY <1>10, ConsumerAssumption, TripAssumption DEF CommitCancelEvent, DropInv, LegInv, HandlerChecked
  <2> QED BY <1>4, <1>5, <1>10, <2>1 DEF CommitCancelEvent
<1>11. CASE BeginDriverReserved
  BY <1>2, <1>3, <1>11 DEF BeginDriverReserved, dbVars
<1>12. CASE CommitDriverReserved
  <2>1. handling # NoTopic /\ CanReach(Envelope.rideId, "MATCHED")
    BY <1>12, ConsumerAssumption, TripAssumption
    DEF CommitDriverReserved, Handling, DropInv, LegInv, HandlerChecked
  <2>2. CASE Envelope.eventId \in processed
    BY <1>1, <1>12, <2>2 DEF CommitDriverReserved
  <2>3. CASE Envelope.eventId \notin processed
    BY <1>4, <1>5, <1>12, <2>1, <2>3 DEF CommitDriverReserved
  <2> QED BY <2>2, <2>3
<1> QED BY <1>6, <1>7, <1>8, <1>9, <1>10, <1>11, <1>12 DEF HandlerNext

LEMMA DropNext == DropInv /\ [Next]_vars => DropInv'
<1> SUFFICES ASSUME DropInv, [Next]_vars PROVE DropInv'
  OBVIOUS
<1>T. TypeOK /\ LegInv' /\ OnceInv'
  BY LegNext, OnceNext DEF DropInv, LegInv
<1>1. ASSUME UNCHANGED <<log, ride, processed, dlt>>, position' \in {position, committed}
      PROVE  DropInv'
  BY <1>1, <1>T, DropQuiet DEF DropInv, Exists
<1>2. CASE HttpNext
  <2>1. UNCHANGED <<log, consumerVars, processed>>
    BY <1>T, <1>2, HttpEffect DEF httpFrame
  <2>2. CASE UNCHANGED ride
    BY <1>1, <2>1, <2>2 DEF consumerVars
  <2>3. ASSUME NEW c \in Calls, NEW row, call[c].pc = "write", Write(call[c].ride, row, 0)
        PROVE  DropInv'
    <3>1. call[c].ride \in Rides /\ CanReach(call[c].ride, Target(call[c].op))
      BY <1>T, <2>3 DEF TypeOK, DropInv, LegInv, RequestsChecked
    <3>2. Exists(call[c].ride)
      BY <3>1, CheckedExists
    <3>3. \A r \in Rides : r # call[c].ride => ride'[r] = ride[r]
      BY <1>T, <2>3, <3>1 DEF Write, TypeOK
    <3>4. \A r \in Rides : Exists(r)' => Exists(r)
      BY <3>2, <3>3 DEF Exists
    <3> QED BY <1>T, <2>1, <3>4, DropQuiet DEF DropInv, consumerVars
  <2> QED BY <1>T, <1>2, <2>2, <2>3, HttpEffect
<1>3. ASSUME NEW t \in Topics, Take(t) PROVE DropInv'
  BY <1>1, <1>3 DEF Take, Fetch, dbVars
<1>4. CASE Commit
  BY <1>1, <1>4 DEF Commit, AutoCommit, dbVars
<1>5. CASE HandlerNext
  BY <1>T, <1>5, DropHandler DEF DropInv
<1>6. CASE HandlerFault
  <2>1. /\ UNCHANGED <<log, ride, processed>> /\ dlt \subseteq dlt'
        /\ position' = position \/ SettlesInHand
    BY <1>6 DEF HandlerFault, Throw, HandlerThrows, Resolve, SettlesInHand, dbVars
  <2> QED BY <1>T, <2>1, DropQuiet DEF Exists, DropInv
<1>7. CASE ParkFault \/ Restart
  BY <1>1, <1>7 DEF ParkFault, Redeliver, Restart, ConsumerRestart, dbVars
<1>8. ASSUME NEW t \in Topics, NEW i \in 1 .. Len(log[t]), Duplicate(t, i) PROVE DropInv'
  <2>1. log[t] \in Seq(EnvelopeSet) /\ log[t][i] \in EnvelopeSet
    BY <1>T, ElementOfSeq DEF TypeOK, ConsumerTypeOK
  <2>2. i \in DOMAIN log[t]
    BY <2>1, LenProperties
  <2>3. t = "ride.requested" =>
          \A j \in DOMAIN log[t] : log[t][j].rideId = log[t][i].rideId =>
                                     log[t][j].eventId = log[t][i].eventId
    BY <2>2 DEF DropInv, OneRequestEach
  <2>4. SendTo(t, log[t][i]) /\ UNCHANGED <<consumerVars, ride, processed>>
    BY <1>8 DEF Duplicate, dbVars
  <2> QED BY <1>T, <2>1, <2>3, <2>4, DropSend DEF DropInv
<1>9. ASSUME NEW t \in Topics, NEW r \in Rides, NEW d \in Drivers \cup {None},
             PublishNew(t, r, d), publishFrame,
             t = "ride.requested" => ~IsRequested(r)
      PROVE  DropInv'
  <2>1. Payload(r, d) \in EnvelopeSet /\ Payload(r, d).rideId = r
    BY <1>T DEF Payload, EnvelopeSet, TypeOK
  <2>2. t = "ride.requested" =>
          \A j \in DOMAIN log[t] : log[t][j].rideId # Payload(r, d).rideId
    BY <1>9, <2>1 DEF IsRequested, Sent
  <2>3. SendTo(t, Payload(r, d)) /\ UNCHANGED <<consumerVars, ride, processed>>
    BY <1>9 DEF PublishNew, publishFrame, dbVars
  <2> QED BY <1>T, <2>1, <2>2, <2>3, DropSend DEF DropInv
<1>10. CASE PublishNext
  <2>1. ASSUME NEW d \in Drivers, DispatchMarksReserved(d) PROVE DropInv'
    BY <1>1, <2>1 DEF DispatchMarksReserved, publishFrame, dbVars, consumerVars
  <2>2. /\ {"ride.requested", "ride.cancelled", "driver.reserved", "driver.rejected"} = Topics
        /\ "ride.cancelled" # "ride.requested" /\ "driver.reserved" # "ride.requested"
        /\ "driver.rejected" # "ride.requested"
    BY TripAssumption
  <2>3. ASSUME NEW r \in Rides, RequestRide(r) PROVE DropInv'
    BY <1>9, <2>2, <2>3 DEF RequestRide
  <2>4. ASSUME NEW r \in Rides, RequestCancel(r) \/ DispatchRejects(r) PROVE DropInv'
    BY <1>9, <2>2, <2>4 DEF RequestCancel, DispatchRejects
  <2>5. ASSUME NEW r \in Rides, NEW d \in Drivers, DispatchReserves(r, d) PROVE DropInv'
    BY <1>9, <2>2, <2>5 DEF DispatchReserves
  <2> QED BY <1>10, <2>1, <2>3, <2>4, <2>5 DEF PublishNext
<1>11. CASE UNCHANGED vars
  BY <1>1, <1>11 DEF vars, consumerVars
<1> QED BY <1>2, <1>3, <1>4, <1>5, <1>6, <1>7, <1>8, <1>10, <1>11 DEF Next, FaultNext

LEMMA DropInit == Init => DropInv
<1> SUFFICES ASSUME Init PROVE DropInv
  OBVIOUS
<1>1. ResolvedSettled
  BY DEF Init, ConsumerInit, ResolvedSettled
<1>2. CreatedByRequest
  BY DEF Init, CreatedByRequest, Exists, NoRow
<1>3. OneRequestEach
  BY TripAssumption DEF Init, ConsumerInit, OneRequestEach
<1> QED BY <1>1, <1>2, <1>3, LegInit, OnceInit DEF DropInv

\* An event whose offset is committed took effect or is parked on the Dead
\* Letter Topic: no early return of a handler, no failure, no restart between
\* a commit of the work and a commit of the offset loses one.
THEOREM NoEventIsDropped == Spec => []NothingDropped
<1>1. DropInv => NothingDropped
  <2> SUFFICES ASSUME DropInv, NEW t \in Topics, NEW i \in 1 .. committed[t]
               PROVE  log[t][i].eventId \in processed \/ <<t, i>> \in dlt
    BY DEF NothingDropped
  <2>1. /\ committed[t] \in Nat /\ position[t] \in Nat /\ committed[t] <= position[t]
    BY DEF DropInv, LegInv, TypeOK, ConsumerTypeOK, OffsetsOK
  <2>2. i \in 1 .. position[t]
    BY <2>1
  <2> QED BY <2>2 DEF DropInv, ResolvedSettled
<1> QED BY <1>1, DropInit, DropNext, PTL DEF Spec

-----------------------------------------------------------------------------
\* A ride has a driver exactly when it was matched: no other operation stores
\* a driver, and every driver.reserved names one.

ReservedNamesDriver ==
    \A i \in DOMAIN log["driver.reserved"] : log["driver.reserved"][i].driverId # None

MatchInv == DriverInv /\ OnceInv /\ DriverIffMatched /\ ReservedNamesDriver

\* A row appended without a match, the driver as it was.
LEMMA MatchKept ==
    ASSUME MatchInv, NEW r \in Rides, NEW row, NEW by \in Nat, row.status \in RideStatus,
           row.status # "MATCHED", row.driver = ride[r].driver, Write(r, row, by)
    PROVE  DriverIffMatched'
<1> DEFINE n == Len(trail[r])
<1>1. /\ \A u \in Rides : u # r => trail'[u] = trail[u] /\ ride'[u] = ride[u]
      /\ ride'[r] = row /\ n \in Nat
      /\ DOMAIN trail[r] = 1 .. n /\ DOMAIN trail'[r] = 1 .. n + 1
      /\ \A k \in 1 .. n : trail'[r][k] = trail[r][k]
      /\ trail'[r][n + 1] = [to |-> row.status, by |-> by]
  BY TrailAppended DEF MatchInv, OnceInv
<1> HIDE DEF n
<1>2. /\ trail'[r][n + 1].to # "MATCHED"
      /\ 1 .. n \subseteq 1 .. n + 1 /\ 1 .. n + 1 = (1 .. n) \cup {n + 1}
  BY <1>1
<1>3. Reached(r, "MATCHED")' <=> Reached(r, "MATCHED")
  BY <1>1, <1>2 DEF Reached
<1>4. \A u \in Rides : u # r => (Reached(u, "MATCHED")' <=> Reached(u, "MATCHED"))
  BY <1>1 DEF Reached
<1> QED BY <1>1, <1>3, <1>4 DEF MatchInv, DriverIffMatched

\* The match itself.
LEMMA MatchMade ==
    ASSUME MatchInv, NEW r \in Rides, NEW row, NEW by \in Nat, row.status = "MATCHED",
           row.driver # None, Write(r, row, by)
    PROVE  DriverIffMatched'
<1> DEFINE n == Len(trail[r])
<1>0. row.status \in RideStatus
  BY DEF RideStatus
<1>1. /\ \A u \in Rides : u # r => trail'[u] = trail[u] /\ ride'[u] = ride[u]
      /\ ride'[r] = row /\ n \in Nat
      /\ DOMAIN trail'[r] = 1 .. n + 1
      /\ trail'[r][n + 1] = [to |-> row.status, by |-> by]
  BY <1>0, TrailAppended DEF MatchInv, OnceInv
<1> HIDE DEF n
<1>2. n + 1 \in 1 .. n + 1 /\ trail'[r][n + 1].to = "MATCHED"
  BY <1>1
<1>3. Reached(r, "MATCHED")'
  BY <1>1, <1>2 DEF Reached
<1>4. \A u \in Rides : u # r => (Reached(u, "MATCHED")' <=> Reached(u, "MATCHED"))
  BY <1>1 DEF Reached
<1> QED BY <1>1, <1>3, <1>4 DEF MatchInv, DriverIffMatched

LEMMA MatchHandler ==
    ASSUME MatchInv, HandlerNext
    PROVE  DriverIffMatched' /\ UNCHANGED log
<1>T. TypeOK /\ DriverIffMatched
  BY DEF MatchInv, OnceInv
<1>E. handling # NoTopic => /\ Envelope.rideId \in Rides /\ Envelope.eventId \in Nat
                            /\ handling \in Topics
  BY <1>T, EnvelopeTyped
<1>1. ASSUME UNCHANGED <<ride, trail>> PROVE DriverIffMatched'
  BY <1>1, <1>T DEF DriverIffMatched, Reached
<1>2. CASE HandleRideRequested
  <2>1. handling # NoTopic
    BY <1>2, ConsumerAssumption, TripAssumption DEF HandleRideRequested, Handling
  <2>2. CASE Envelope.eventId \in processed \/ Exists(Envelope.rideId)
    BY <1>1, <1>2, <2>2 DEF HandleRideRequested, ReturnUnchanged, dbVars, HandlerReturns
  <2>3. CASE ~(Envelope.eventId \in processed \/ Exists(Envelope.rideId))
    <3> PICK r \in Rides : r = Envelope.rideId
      BY <1>E, <2>1
    <3> DEFINE first == [to |-> "REQUESTED", by |-> Envelope.eventId]
               second == [to |-> "MATCHING", by |-> Envelope.eventId]
    <3>1. /\ trail' = [trail EXCEPT ![r] = @ \o <<first, second>>]
          /\ ride' = [ride EXCEPT ![r].status = "MATCHING"]
          /\ UNCHANGED log
      BY <1>2, <2>3 DEF HandleRideRequested, CommitEvent, HandlerReturns
    <3>2. first.to = "REQUESTED" /\ second.to = "MATCHING"
      OBVIOUS
    <3>3. trail[r] = << >>
      BY <2>3 DEF MatchInv, OnceInv, UncreatedHasNoTrail
    <3> HIDE DEF first, second
    <3>4. /\ trail'[r] = <<first, second>> /\ ride'[r].driver = ride[r].driver
          /\ \A u \in Rides : u # r => trail'[u] = trail[u] /\ ride'[u] = ride[u]
      <4>1. << >> \o <<first, second>> = <<first, second>>
        OBVIOUS
      <4> QED BY <1>T, <3>1, <3>3, <4>1 DEF TypeOK, Rows
    <3>5. DOMAIN <<first, second>> = {1, 2} /\ DOMAIN << >> = {}
      OBVIOUS
    <3>6. ~Reached(r, "MATCHED")' /\ ~Reached(r, "MATCHED")
      BY <3>2, <3>3, <3>4, <3>5 DEF Reached
    <3>7. \A u \in Rides : u # r => (Reached(u, "MATCHED")' <=> Reached(u, "MATCHED"))
      BY <3>4 DEF Reached
    <3> QED BY <1>T, <3>1, <3>3, <3>4, <3>6, <3>7 DEF DriverIffMatched
  <2> QED BY <2>2, <2>3
<1>3. CASE BeginCancelEvent
  BY <1>1, <1>3
  DEF BeginCancelEvent, ReturnUnchanged, Throw, HandlerReturns, HandlerThrows, dbVars
<1>4. CASE LockRow \/ SyncBeforeCommit
  BY <1>1, <1>4 DEF LockRow, SyncBeforeCommit, dbVars
<1>5. CASE CommitCancelEvent
  <2> DEFINE row == [ride[Envelope.rideId] EXCEPT !.status = "CANCELLED"]
  <2>1. handling # NoTopic
    BY <1>5, ConsumerAssumption, TripAssumption DEF CommitCancelEvent, MatchInv, OnceInv, EventIsFresh
  <2>2. /\ row.status = "CANCELLED" /\ row.driver = ride[Envelope.rideId].driver
        /\ "CANCELLED" \in RideStatus
    BY <1>E, <1>T, <2>1 DEF TypeOK, Rows, RideStatus
  <2>3. Write(Envelope.rideId, row, Envelope.eventId) /\ UNCHANGED log
    BY <1>5 DEF CommitCancelEvent, CommitEvent, HandlerReturns
  <2> HIDE DEF row
  <2> QED BY <1>E, <2>1, <2>2, <2>3, MatchKept
<1>6. CASE BeginDriverReserved
  BY <1>1, <1>6 DEF BeginDriverReserved, Throw, HandlerThrows, dbVars
<1>7. CASE CommitDriverReserved
  <2> DEFINE row == [ride[Envelope.rideId] EXCEPT !.status = "MATCHED", !.driver = Envelope.driverId]
  <2>1. handling = "driver.reserved" /\ handling # NoTopic
    BY <1>7, ConsumerAssumption, TripAssumption DEF CommitDriverReserved, Handling
  <2>2. CASE Envelope.eventId \in processed
    BY <1>1, <1>7, <2>2 DEF CommitDriverReserved, ReturnUnchanged, HandlerReturns, dbVars
  <2>3. CASE Envelope.eventId \notin processed
    <3>1. Offset \in 1 .. Len(log[handling])
      BY <1>T, <2>1, EnvelopeTyped
    <3>2. Offset \in DOMAIN log["driver.reserved"]
      BY <1>E, <1>T, <2>1, <3>1, LenProperties DEF TypeOK, ConsumerTypeOK
    <3>3. Envelope.driverId # None
      BY <2>1, <3>2 DEF MatchInv, ReservedNamesDriver, Envelope
    <3>4. row.status = "MATCHED" /\ row.driver = Envelope.driverId
      BY <1>E, <1>T, <2>1 DEF TypeOK, Rows
    <3>5. Write(Envelope.rideId, row, Envelope.eventId) /\ UNCHANGED log
      BY <1>7, <2>3 DEF CommitDriverReserved, CommitEvent, HandlerReturns
    <3> HIDE DEF row
    <3> QED BY <1>E, <2>1, <3>3, <3>4, <3>5, MatchMade
  <2> QED BY <2>2, <2>3
<1> QED BY <1>2, <1>3, <1>4, <1>5, <1>6, <1>7 DEF HandlerNext

LEMMA MatchNext == MatchInv /\ [Next]_vars => MatchInv'
<1> SUFFICES ASSUME MatchInv, [Next]_vars PROVE MatchInv'
  OBVIOUS
<1>T. TypeOK /\ DriverInv' /\ OnceInv'
  BY DriverNext, OnceNext DEF MatchInv, OnceInv
<1>1. ASSUME UNCHANGED log PROVE ReservedNamesDriver'
  BY <1>1 DEF MatchInv, ReservedNamesDriver
<1>2. ASSUME UNCHANGED <<ride, trail>> PROVE DriverIffMatched'
  BY <1>2 DEF MatchInv, DriverIffMatched, Reached
<1>3. ASSUME UNCHANGED <<log, ride, trail>> PROVE MatchInv'
  BY <1>1, <1>2, <1>3, <1>T DEF MatchInv
<1>4. ASSUME NEW t \in Topics, NEW e \in EnvelopeSet, SendTo(t, e), UNCHANGED <<ride, trail>>,
             t = "driver.reserved" => e.driverId # None
      PROVE  MatchInv'
  <2> DEFINE reserved == log["driver.reserved"]
             n == Len(reserved)
  <2>1. reserved \in Seq(EnvelopeSet) /\ "driver.reserved" \in Topics
    BY <1>T, TripAssumption DEF TypeOK, ConsumerTypeOK
  <2>2. reserved' = reserved \/ (t = "driver.reserved" /\ reserved' = Append(reserved, e))
    BY <1>4, <1>T, <2>1 DEF SendTo, TypeOK, ConsumerTypeOK
  <2>3. \A i \in DOMAIN reserved : reserved[i].driverId # None
    BY DEF MatchInv, ReservedNamesDriver
  <2>4. \A i \in DOMAIN Append(reserved, e) :
          (i \in DOMAIN reserved /\ Append(reserved, e)[i] = reserved[i]) \/ Append(reserved, e)[i] = e
    <3>1. /\ n \in Nat /\ DOMAIN reserved = 1 .. n /\ DOMAIN Append(reserved, e) = 1 .. n + 1
          /\ \A i \in 1 .. n : Append(reserved, e)[i] = reserved[i]
          /\ Append(reserved, e)[n + 1] = e
      BY <2>1, AppendProperties, LenProperties
    <3>2. 1 .. n + 1 = (1 .. n) \cup {n + 1}
      BY <3>1
    <3> QED BY <3>1, <3>2
  <2> HIDE DEF reserved
  <2>5. \A i \in DOMAIN reserved' : reserved'[i].driverId # None
    BY <1>4, <2>2, <2>3, <2>4
  <2>6. ReservedNamesDriver'
    BY <2>5 DEF ReservedNamesDriver, reserved
  <2> QED BY <1>2, <1>4, <1>T, <2>6 DEF MatchInv
<1>5. CASE HttpNext
  <2>1. UNCHANGED log
    BY <1>T, <1>5, HttpEffect DEF httpFrame
  <2>2. CASE UNCHANGED <<ride, trail>>
    BY <1>3, <2>1, <2>2
  <2>3. ASSUME NEW c \in Calls, NEW row \in Rows, call[c].pc = "write",
               row.status \in RideStatus \ {"REQUESTED", "MATCHING", "MATCHED"},
               row.driver = ride[call[c].ride].driver, Write(call[c].ride, row, 0)
        PROVE  MatchInv'
    <3>1. call[c].ride \in Rides /\ 0 \in Nat
      BY <1>T, <2>3 DEF TypeOK
    <3>2. DriverIffMatched'
      BY <2>3, <3>1, MatchKept
    <3> QED BY <1>1, <1>T, <2>1, <3>2 DEF MatchInv
  <2> QED BY <1>T, <1>5, <2>2, <2>3, HttpEffect
<1>6. ASSUME NEW t \in Topics, Take(t) PROVE MatchInv'
  BY <1>3, <1>6 DEF Take, Fetch, dbVars
<1>7. CASE Commit
  BY <1>3, <1>7 DEF Commit, AutoCommit, dbVars
<1>8. CASE HandlerNext
  BY <1>1, <1>T, <1>8, MatchHandler DEF MatchInv
<1>9. CASE HandlerFault \/ ParkFault \/ Restart
  BY <1>3, <1>9
  DEF HandlerFault, Throw, HandlerThrows, ParkFault, Redeliver, Restart, ConsumerRestart, dbVars
<1>10. ASSUME NEW t \in Topics, NEW i \in 1 .. Len(log[t]), Duplicate(t, i) PROVE MatchInv'
  <2>1. log[t] \in Seq(EnvelopeSet) /\ log[t][i] \in EnvelopeSet
    BY <1>T, ElementOfSeq DEF TypeOK, ConsumerTypeOK
  <2>2. i \in DOMAIN log[t]
    BY <2>1, LenProperties
  <2>3. t = "driver.reserved" => log[t][i].driverId # None
    BY <2>2 DEF MatchInv, ReservedNamesDriver
  <2> QED BY <1>4, <1>10, <2>1, <2>3 DEF Duplicate, dbVars
<1>11. ASSUME NEW t \in Topics, NEW r \in Rides, NEW d \in Drivers \cup {None},
              PublishNew(t, r, d), publishFrame,
              t = "driver.reserved" => d # None
       PROVE  MatchInv'
  <2>1. Payload(r, d) \in EnvelopeSet /\ Payload(r, d).driverId = d
    BY <1>T DEF Payload, EnvelopeSet, TypeOK
  <2> QED BY <1>4, <1>11, <2>1 DEF PublishNew, publishFrame, dbVars
<1>12. CASE PublishNext
  <2>1. ASSUME NEW d \in Drivers, DispatchMarksReserved(d) PROVE MatchInv'
    BY <1>3, <2>1 DEF DispatchMarksReserved, publishFrame, dbVars
  <2>2. /\ {"ride.requested", "ride.cancelled", "driver.reserved", "driver.rejected"} = Topics
        /\ "ride.cancelled" # "driver.reserved" /\ "ride.requested" # "driver.reserved"
        /\ "driver.rejected" # "driver.reserved"
    BY TripAssumption
  <2>3. ASSUME NEW r \in Rides, RequestRide(r) \/ RequestCancel(r) \/ DispatchRejects(r)
        PROVE  MatchInv'
    BY <1>11, <2>2, <2>3 DEF RequestRide, RequestCancel, DispatchRejects
  <2>4. ASSUME NEW r \in Rides, NEW d \in Drivers, DispatchReserves(r, d) PROVE MatchInv'
    BY <1>11, <2>2, <2>4, TripAssumption DEF DispatchReserves
  <2> QED BY <1>12, <2>1, <2>3, <2>4 DEF PublishNext
<1>13. CASE UNCHANGED vars
  BY <1>3, <1>13 DEF vars
<1> QED BY <1>5, <1>6, <1>7, <1>8, <1>9, <1>10, <1>12, <1>13 DEF Next, FaultNext

LEMMA MatchInit == Init => MatchInv
<1> SUFFICES ASSUME Init PROVE MatchInv
  OBVIOUS
<1>1. DriverIffMatched
  BY DEF Init, DriverIffMatched, Reached, NoRow
<1>2. ReservedNamesDriver
  BY TripAssumption DEF Init, ConsumerInit, ReservedNamesDriver
<1> QED BY <1>1, <1>2, DriverInit, OnceInit DEF MatchInv

\* A ride has a driver exactly when its trail shows a match: neither a
\* cancellation, nor a late request, nor a replayed event separates the two.
THEOREM DriverComesWithMatch == Spec => []DriverIffMatched
<1>1. MatchInv => DriverIffMatched
  BY DEF MatchInv
<1> QED BY <1>1, MatchInit, MatchNext, PTL DEF Spec

-----------------------------------------------------------------------------
\* Driver Service shows ON_TRIP only for a trip that started.  The PATCH comes
\* an await after the update it reports; that its driver is still the ride's,
\* and the start still in the trail, is what makes it true when it arrives.

StartIsWritten ==
    \A c \in Calls : call[c].pc = "sync" /\ call[c].op = "start" =>
        /\ ride[call[c].ride].driver = call[c].driver
        /\ call[c].driver # None
        /\ Reached(call[c].ride, "IN_PROGRESS")

OnTripInv == DriverInv /\ OnceInv /\ StartIsWritten /\ OnTripOnlyIfStarted

\* What was reached stays reached.
ReachedKept == \A r \in Rides, s \in RideStatus : Reached(r, s) => Reached(r, s)'

LEMMA AppendKeepsReached ==
    ASSUME TypeOK, NEW r \in Rides, NEW row, NEW by \in Nat, row.status \in RideStatus,
           Write(r, row, by)
    PROVE  ReachedKept /\ Reached(r, row.status)'
<1> DEFINE n == Len(trail[r])
<1>1. /\ \A u \in Rides : u # r => trail'[u] = trail[u]
      /\ n \in Nat /\ DOMAIN trail[r] = 1 .. n /\ DOMAIN trail'[r] = 1 .. n + 1
      /\ \A k \in 1 .. n : trail'[r][k] = trail[r][k]
      /\ trail'[r][n + 1] = [to |-> row.status, by |-> by]
  BY TrailAppended
<1> HIDE DEF n
<1>2. /\ trail'[r][n + 1].to = row.status /\ n + 1 \in 1 .. n + 1
      /\ \A k \in 1 .. n : k \in 1 .. n + 1
  BY <1>1
<1> QED BY <1>1, <1>2 DEF ReachedKept, Reached

LEMMA ReachedStays == OnceInv /\ [Next]_vars => ReachedKept
<1> SUFFICES ASSUME OnceInv, [Next]_vars PROVE ReachedKept
  OBVIOUS
<1>T. TypeOK
  BY DEF OnceInv
<1>1. ASSUME UNCHANGED trail PROVE ReachedKept
  BY <1>1 DEF ReachedKept, Reached
<1>2. CASE HttpNext
  <2>1. ASSUME NEW c \in Calls, NEW row \in Rows, call[c].pc = "write",
               row.status \in RideStatus, Write(call[c].ride, row, 0)
        PROVE  ReachedKept
    <3>1. call[c].ride \in Rides /\ 0 \in Nat
      BY <1>T, <2>1 DEF TypeOK
    <3> QED BY <1>T, <2>1, <3>1, AppendKeepsReached
  <2> QED BY <1>1, <1>2, <1>T, <2>1, HttpEffect
<1>E. handling # NoTopic => Envelope.rideId \in Rides /\ Envelope.eventId \in Nat
  BY <1>T, EnvelopeTyped
<1>3. ASSUME HandlerReturns, NEW row \in Rows, row.status \in RideStatus,
             Write(Envelope.rideId, row, Envelope.eventId)
      PROVE  ReachedKept
  BY <1>3, <1>E, <1>T, AppendKeepsReached DEF HandlerReturns
<1>4. CASE HandleRideRequested
  <2>1. CASE UNCHANGED trail
    BY <1>1, <2>1
  <2>2. CASE ~UNCHANGED trail
    <3>1. /\ ~Exists(Envelope.rideId) /\ handling # NoTopic
          /\ trail' = [trail EXCEPT ![Envelope.rideId] =
                         @ \o <<[to |-> "REQUESTED", by |-> Envelope.eventId],
                                [to |-> "MATCHING", by |-> Envelope.eventId]>>]
      BY <1>4, <2>2 DEF HandleRideRequested, ReturnUnchanged, dbVars, CommitEvent, HandlerReturns
    <3>2. trail[Envelope.rideId] = << >>
      BY <1>E, <3>1 DEF OnceInv, UncreatedHasNoTrail
    <3>3. \A u \in Rides : u # Envelope.rideId => trail'[u] = trail[u]
      BY <1>T, <3>1 DEF TypeOK
    <3> QED BY <3>2, <3>3 DEF ReachedKept, Reached
  <2> QED BY <2>1, <2>2
<1>5. CASE CommitCancelEvent
  <2> DEFINE row == [ride[Envelope.rideId] EXCEPT !.status = "CANCELLED"]
  <2>1. HandlerReturns /\ Write(Envelope.rideId, row, Envelope.eventId)
    BY <1>5 DEF CommitCancelEvent, CommitEvent
  <2>2. row \in Rows /\ row.status \in RideStatus
    BY <1>E, <1>T, <2>1 DEF HandlerReturns, TypeOK, Rows, RideStatus
  <2> HIDE DEF row
  <2> QED BY <1>3, <2>1, <2>2
<1>6. CASE CommitDriverReserved
  <2> DEFINE row == [ride[Envelope.rideId] EXCEPT !.status = "MATCHED", !.driver = Envelope.driverId]
  <2>1. CASE Envelope.eventId \in processed
    BY <1>1, <1>6, <2>1 DEF CommitDriverReserved, ReturnUnchanged, dbVars
  <2>2. CASE Envelope.eventId \notin processed
    <3>1. HandlerReturns /\ Write(Envelope.rideId, row, Envelope.eventId)
      BY <1>6, <2>2 DEF CommitDriverReserved, CommitEvent
    <3>2. row \in Rows /\ row.status \in RideStatus
      BY <1>T, <3>1, EnvelopeTyped DEF HandlerReturns, TypeOK, Rows, RideStatus
    <3> HIDE DEF row
    <3> QED BY <1>3, <3>1, <3>2
  <2> QED BY <2>1, <2>2
<1>7. CASE BeginCancelEvent \/ LockRow \/ SyncBeforeCommit \/ BeginDriverReserved
  BY <1>1, <1>7
  DEF BeginCancelEvent, LockRow, SyncBeforeCommit, BeginDriverReserved, ReturnUnchanged, Throw, dbVars
<1>8. ASSUME NEW t \in Topics, Take(t) PROVE ReachedKept
  BY <1>1, <1>8 DEF Take, dbVars
<1>9. CASE Commit \/ FaultNext \/ UNCHANGED vars
  BY <1>1, <1>9
  DEF Commit, FaultNext, HandlerFault, Throw, ParkFault, Restart, Duplicate, dbVars, vars
<1>10. CASE PublishNext
  BY <1>1, <1>10
  DEF PublishNext, RequestRide, RequestCancel, DispatchRejects, DispatchReserves,
      DispatchMarksReserved, publishFrame, dbVars
<1> QED BY <1>2, <1>4, <1>5, <1>6, <1>7, <1>8, <1>9, <1>10 DEF Next, HandlerNext

\* A request that is about to report a start has written it.
LEMMA StartKept ==
    ASSUME OnTripInv, TypeOK', KeepsDriver, ReachedKept,
           \A c \in Calls : call'[c].pc = "sync" /\ call'[c].op = "start" => call'[c] = call[c]
    PROVE  StartIsWritten'
<1> SUFFICES ASSUME NEW c \in Calls, call'[c].pc = "sync", call'[c].op = "start"
             PROVE  /\ ride'[call'[c].ride].driver = call'[c].driver
                    /\ call'[c].driver # None
                    /\ \E k \in DOMAIN trail'[call'[c].ride] :
                          trail'[call'[c].ride][k].to = "IN_PROGRESS"
  BY DEF StartIsWritten, Reached
<1>1. call'[c] = call[c]
  OBVIOUS
<1> DEFINE r == call[c].ride
<1>2. /\ ride[r].driver = call[c].driver /\ call[c].driver # None
      /\ Reached(r, "IN_PROGRESS")
  BY <1>1 DEF OnTripInv, StartIsWritten
<1>3. r \in Rides /\ "IN_PROGRESS" \in RideStatus
  BY <1>1 DEF OnTripInv, OnceInv, TypeOK, RideStatus
<1>4. \E k \in DOMAIN trail'[r] : trail'[r][k].to = "IN_PROGRESS"
  BY <1>2, <1>3 DEF ReachedKept, Reached
<1> QED BY <1>1, <1>2, <1>3, <1>4 DEF KeepsDriver

\* A step that shows no new driver ON_TRIP.
LEMMA OnTripKept ==
    ASSUME OnTripInv, KeepsDriver, ReachedKept,
           \A d \in Drivers :
              mirror'[d] = "ON_TRIP" =>
                 \/ mirror[d] = "ON_TRIP"
                 \/ \E r \in Rides : ride[r].driver = d /\ Reached(r, "IN_PROGRESS")
    PROVE  OnTripOnlyIfStarted'
<1> SUFFICES ASSUME NEW d \in Drivers, mirror'[d] = "ON_TRIP"
             PROVE  \E r \in Rides : /\ ride'[r].driver = d
                                     /\ \E k \in DOMAIN trail'[r] : trail'[r][k].to = "IN_PROGRESS"
  BY DEF OnTripOnlyIfStarted, Reached
<1>1. PICK r \in Rides : ride[r].driver = d /\ Reached(r, "IN_PROGRESS")
  BY DEF OnTripInv, OnTripOnlyIfStarted
<1>2. d # None /\ "IN_PROGRESS" \in RideStatus
  BY TripAssumption DEF RideStatus
<1>3. \E k \in DOMAIN trail'[r] : trail'[r][k].to = "IN_PROGRESS"
  BY <1>1, <1>2 DEF ReachedKept, Reached
<1> QED BY <1>1, <1>2, <1>3 DEF KeepsDriver

\* Only the PATCH of a start can show a driver ON_TRIP.
LEMMA PatchShows ==
    ASSUME TypeOK, NEW d, NEW status, PatchDriver(d, status)
    PROVE  \A d2 \in Drivers : mirror'[d2] = mirror[d2] \/ (d2 = d /\ mirror'[d2] = status)
BY DEF PatchDriver, TypeOK

LEMMA OnTripNext == OnTripInv /\ [Next]_vars => OnTripInv'
<1> SUFFICES ASSUME OnTripInv, [Next]_vars PROVE OnTripInv'
  OBVIOUS
<1>T. /\ TypeOK /\ TypeOK' /\ DriverInv' /\ OnceInv'
      /\ KeepsDriver /\ ReachedKept
  BY DriverNext, OnceNext, ReachedStays DEF OnTripInv, OnceInv
<1>1. ASSUME UNCHANGED <<call, mirror>> PROVE OnTripInv'
  BY <1>1, <1>T, StartKept, OnTripKept DEF OnTripInv
<1>2. ASSUME UNCHANGED mirror, NEW c \in Calls, NEW state,
             state.pc # "sync" \/ state.op # "start",
             call' = [call EXCEPT ![c] = state]
      PROVE  OnTripInv'
  <2>1. \A c2 \in Calls : call'[c2].pc = "sync" /\ call'[c2].op = "start" => call'[c2] = call[c2]
    BY <1>2, <1>T DEF TypeOK
  <2> QED BY <1>2, <1>T, <2>1, StartKept, OnTripKept DEF OnTripInv
<1>I. IdleCall.pc = "idle" /\ \A x \in CallStates : "pc" \in DOMAIN x
  BY DEF IdleCall, CallStates
<1>3. ASSUME NEW c \in Calls, NEW row, Update(c, row), call[c].op # "start"
      PROVE  OnTripInv'
  <2> DEFINE state == IF call[c].op \in {"accept", "arrived"} \/ row.driver = None
                      THEN IdleCall
                      ELSE [call[c] EXCEPT !.pc = "sync", !.driver = row.driver]
  <2>1. UNCHANGED mirror /\ call' = [call EXCEPT ![c] = state]
    BY <1>3 DEF Update
  <2>2. state.pc # "sync" \/ state.op # "start"
    <3>1. [call[c] EXCEPT !.pc = "sync", !.driver = row.driver].op = call[c].op
      BY <1>T DEF TypeOK, CallStates
    <3> QED BY <1>3, <1>I, <3>1
  <2> HIDE DEF state
  <2> QED BY <1>2, <2>1, <2>2
<1>4. ASSUME NEW c \in Calls, Start(c) PROVE OnTripInv'
  <2> DEFINE row == [Row(c) EXCEPT !.status = "IN_PROGRESS", !.otp = None]
             r == call[c].ride
             state == [call[c] EXCEPT !.pc = "sync", !.driver = row.driver]
  <2>1. /\ call[c] \in CallStates /\ call[c].op = "start" /\ call[c].pc = "write"
        /\ r \in Rides /\ ride[r] \in Rows
    BY <1>4, <1>T DEF Start, Writing, TypeOK
  <2>2. Write(r, row, 0) /\ UNCHANGED mirror
    BY <1>4 DEF Start, Update
  <2>3. row.status = "IN_PROGRESS" /\ row.driver = ride[r].driver /\ "IN_PROGRESS" \in RideStatus
    BY <2>1 DEF Row, Rows, RideStatus
  <2>4. call' = [call EXCEPT ![c] = IF row.driver = None THEN IdleCall ELSE state]
    BY <1>4, <2>1 DEF Start, Update
  <2>5. CASE row.driver = None
    BY <1>2, <1>I, <2>2, <2>4, <2>5
  <2>6. CASE row.driver # None
    <3>1. state.ride = r /\ state.driver = row.driver
      BY <2>1 DEF CallStates
    <3>2. ride'[r] = row
      BY <1>T, <2>1, <2>2 DEF Write, TypeOK
    <3> HIDE DEF row
    <3>3. \E k \in DOMAIN trail'[r] : trail'[r][k].to = "IN_PROGRESS"
      BY <1>T, <2>1, <2>2, <2>3, AppendKeepsReached DEF Reached
    <3>4. call'[c] = state /\ \A c2 \in Calls : c2 # c => call'[c2] = call[c2]
      BY <1>T, <2>4, <2>6 DEF TypeOK
    <3> HIDE DEF state
    <3>5. ASSUME NEW c2 \in Calls, call'[c2].pc = "sync", call'[c2].op = "start"
          PROVE  /\ ride'[call'[c2].ride].driver = call'[c2].driver
                 /\ call'[c2].driver # None
                 /\ \E k \in DOMAIN trail'[call'[c2].ride] :
                       trail'[call'[c2].ride][k].to = "IN_PROGRESS"
      <4>1. CASE c2 = c
        BY <2>6, <3>1, <3>2, <3>3, <3>4, <4>1
      <4>2. CASE c2 # c
        <5>1. call'[c2] = call[c2] /\ call[c2].ride \in Rides
          BY <1>T, <3>4, <3>5, <4>2 DEF TypeOK
        <5>2. /\ ride[call[c2].ride].driver = call[c2].driver /\ call[c2].driver # None
              /\ Reached(call[c2].ride, "IN_PROGRESS")
          BY <3>5, <5>1 DEF OnTripInv, StartIsWritten
        <5>3. \E k \in DOMAIN trail'[call[c2].ride] : trail'[call[c2].ride][k].to = "IN_PROGRESS"
          BY <1>T, <2>3, <5>1, <5>2 DEF ReachedKept, Reached
        <5> QED BY <1>T, <5>1, <5>2, <5>3 DEF KeepsDriver
      <4> QED BY <4>1, <4>2
    <3>6. StartIsWritten'
      BY <3>5 DEF StartIsWritten, Reached
    <3>7. OnTripOnlyIfStarted'
      BY <1>T, <2>2, OnTripKept
    <3> QED BY <1>T, <3>6, <3>7 DEF OnTripInv
  <2> QED BY <2>5, <2>6
<1>5. ASSUME NEW c \in Calls, SyncDriver(c) PROVE OnTripInv'
  <2>1. /\ call' = [call EXCEPT ![c] = IdleCall] /\ call[c].pc = "sync"
        /\ PatchDriver(call[c].driver, IF call[c].op = "start" THEN "ON_TRIP" ELSE "AVAILABLE")
    BY <1>5 DEF SyncDriver
  <2>2. \A c2 \in Calls : call'[c2].pc = "sync" /\ call'[c2].op = "start" => call'[c2] = call[c2]
    BY <1>I, <1>T, <2>1 DEF TypeOK
  <2>3. ASSUME NEW d \in Drivers, mirror'[d] = "ON_TRIP", mirror[d] # "ON_TRIP"
        PROVE  \E r \in Rides : ride[r].driver = d /\ Reached(r, "IN_PROGRESS")
    <3>1. d = call[c].driver /\ call[c].op = "start"
      BY <1>T, <2>1, <2>3, PatchShows
    <3>2. call[c].ride \in Rides
      BY <1>T, <2>1 DEF TypeOK
    <3> QED BY <2>1, <3>1, <3>2 DEF OnTripInv, StartIsWritten
  <2>4. StartIsWritten'
    BY <1>T, <2>2, StartKept
  <2>5. OnTripOnlyIfStarted'
    BY <1>T, <2>3, OnTripKept
  <2> QED BY <1>T, <2>4, <2>5 DEF OnTripInv
<1>6. CASE HttpNext
  <2> PICK c \in Calls :
          \/ \E op \in Operations, r \in Rides : Begin(c, op, r)
          \/ \E r \in Rides, by \in Drivers \cup {None}, otp \in Otps : BeginStart(c, r, by, otp)
          \/ CheckOtp(c)
          \/ \E otp \in Otps : Accept(c, otp)
          \/ MarkDriverArrived(c)
          \/ Start(c)
          \/ Complete(c)
          \/ Cancel(c)
          \/ SyncDriver(c)
    BY <1>6 DEF HttpNext
  <2>1. ASSUME NEW op \in Operations, NEW r \in Rides, Begin(c, op, r) PROVE OnTripInv'
    <3> DEFINE state == [IdleCall EXCEPT !.pc = "write", !.op = op, !.ride = r]
    <3>1. state.pc # "sync" /\ call' = [call EXCEPT ![c] = state] /\ UNCHANGED mirror
      BY <2>1 DEF Begin, IdleCall
    <3> HIDE DEF state
    <3> QED BY <1>2, <3>1
  <2>2. ASSUME NEW r \in Rides, NEW by \in Drivers \cup {None}, NEW otp \in Otps,
               BeginStart(c, r, by, otp)
        PROVE  OnTripInv'
    <3> DEFINE state == [IdleCall EXCEPT !.pc = "otp", !.op = "start", !.ride = r, !.otp = otp]
    <3>1. state.pc # "sync" /\ call' = [call EXCEPT ![c] = state] /\ UNCHANGED mirror
      BY <2>2 DEF BeginStart, IdleCall
    <3> HIDE DEF state
    <3> QED BY <1>2, <3>1
  <2>3. CASE CheckOtp(c)
    <3> DEFINE passed == [call[c] EXCEPT !.pc = "write", !.otp = None]
    <3>1. passed.pc = "write"
      BY <1>T DEF TypeOK, CallStates
    <3>2. /\ call' = [call EXCEPT ![c] = passed] \/ call' = [call EXCEPT ![c] = IdleCall]
          /\ UNCHANGED mirror
      BY <2>3, <1>T DEF CheckOtp, TypeOK
    <3> HIDE DEF passed
    <3> QED BY <1>2, <1>I, <3>1, <3>2
  <2>4. ASSUME NEW otp \in Otps, Accept(c, otp) PROVE OnTripInv'
    BY <1>3, <2>4 DEF Accept, Writing
  <2>5. CASE MarkDriverArrived(c)
    BY <1>3, <2>5 DEF MarkDriverArrived, Writing
  <2>6. CASE Complete(c)
    BY <1>3, <2>6 DEF Complete, Writing
  <2>7. CASE Cancel(c)
    BY <1>3, <2>7 DEF Cancel, Writing
  <2> QED BY <1>4, <1>5, <2>1, <2>2, <2>3, <2>4, <2>5, <2>6, <2>7
<1>7. CASE SyncBeforeCommit
  <2>1. UNCHANGED call /\ PatchDriver(ride[Envelope.rideId].driver, "AVAILABLE")
    BY <1>7 DEF SyncBeforeCommit
  <2>2. \A d \in Drivers : mirror'[d] = "ON_TRIP" => mirror[d] = "ON_TRIP"
    BY <1>T, <2>1, PatchShows
  <2> QED BY <1>T, <2>1, <2>2, StartKept, OnTripKept DEF OnTripInv
<1>8. ASSUME NEW d \in Drivers, DispatchMarksReserved(d) PROVE OnTripInv'
  <2>1. UNCHANGED call /\ mirror' = [mirror EXCEPT ![d] = "RESERVED"]
    BY <1>8 DEF DispatchMarksReserved, publishFrame
  <2>2. \A d2 \in Drivers : mirror'[d2] = "ON_TRIP" => mirror[d2] = "ON_TRIP"
    BY <1>T, <2>1 DEF TypeOK
  <2> QED BY <1>T, <2>1, <2>2, StartKept, OnTripKept DEF OnTripInv
<1>9. CASE Restart
  <2>1. UNCHANGED mirror /\ \A c \in Calls : call'[c].pc = "idle"
    BY <1>9, <1>I DEF Restart
  <2> QED BY <1>T, <2>1, StartKept, OnTripKept DEF OnTripInv
<1>10. CASE HandlerNext /\ ~SyncBeforeCommit
  BY <1>1, <1>10
  DEF HandlerNext, HandleRideRequested, BeginCancelEvent, LockRow, CommitCancelEvent,
      BeginDriverReserved, CommitDriverReserved, ReturnUnchanged, Throw, consumerFrame
<1>11. ASSUME NEW t \in Topics, Take(t) PROVE OnTripInv'
  BY <1>1, <1>11 DEF Take, consumerFrame
<1>12. CASE Commit \/ HandlerFault \/ ParkFault \/ UNCHANGED vars
  BY <1>1, <1>12 DEF Commit, HandlerFault, Throw, ParkFault, consumerFrame, vars
<1>13. ASSUME NEW t \in Topics, NEW i \in 1 .. Len(log[t]), Duplicate(t, i) PROVE OnTripInv'
  BY <1>1, <1>13 DEF Duplicate
<1>14. CASE PublishNext
  BY <1>1, <1>8, <1>14
  DEF PublishNext, RequestRide, RequestCancel, DispatchRejects, DispatchReserves, publishFrame
<1> QED BY <1>6, <1>7, <1>9, <1>10, <1>11, <1>12, <1>13, <1>14 DEF Next, FaultNext

LEMMA OnTripInit == Init => OnTripInv
<1> SUFFICES ASSUME Init PROVE OnTripInv
  OBVIOUS
<1>1. StartIsWritten
  BY DEF Init, StartIsWritten, IdleCall
<1>2. OnTripOnlyIfStarted
  BY DEF Init, OnTripOnlyIfStarted
<1> QED BY <1>1, <1>2, DriverInit, OnceInit DEF OnTripInv

\* A driver is shown ON_TRIP only if a ride of theirs has started.
THEOREM OnTripMeansStarted == Spec => []OnTripOnlyIfStarted
<1>1. OnTripInv => OnTripOnlyIfStarted
  BY DEF OnTripInv
<1> QED BY <1>1, OnTripInit, OnTripNext, PTL DEF Spec

-----------------------------------------------------------------------------
\* What is proved about Dispatch Service, read in the system.

DispatchProofs == INSTANCE DispatchServiceProofs WITH
    Topics <- {"ride.requested"},
    log <- [t \in {"ride.requested"} |-> [i \in DOMAIN log[t] |-> log[t][i].rideId]],
    position <- dPosition, committed <- dCommitted, handling <- dHandling,
    attempt <- dAttempt, dlt <- dDlt, faults <- dFaults, MaxFaults <- MaxDFaults

-----------------------------------------------------------------------------
\* Trip Service within the system

LEMMA TripAloneSteps == TripAlone => Next
BY DEF TripAlone, TripTrouble, Next, FaultNext, PublishNext

LEMMA AnswersAreSteps == \A m \in Members : AnswerArrives(m) => Next
BY DEF AnswerArrives, Next, PublishNext

\* Each step of the system is a step of Trip Service or leaves it alone.
LEMMA SystemStepsTrip == [SystemNext]_systemVars => [Next]_vars
<1> SUFFICES ASSUME [SystemNext]_systemVars PROVE [Next]_vars
  OBVIOUS
<1>1. CASE TripAlone
  BY <1>1, TripAloneSteps
<1>2. CASE DispatchTakes
  BY <1>2 DEF DispatchTakes
<1>3. ASSUME NEW m \in Members, HandlerStep(m) PROVE [Next]_vars
  <2>1. CASE HandlerAlone(m)
    BY <2>1 DEF HandlerAlone
  <2>2. CASE DispatchSyncs(m)
    BY <2>2 DEF DispatchSyncs, Next, PublishNext
  <2>3. CASE DispatchPublishes(m)
    BY <2>3, AnswersAreSteps DEF DispatchPublishes
  <2> QED BY <1>3, <2>1, <2>2, <2>3 DEF HandlerStep
<1>4. ASSUME NEW m \in Members, DispatchStepFails(m) PROVE [Next]_vars
  BY <1>4, AnswersAreSteps DEF DispatchStepFails
<1>5. ASSUME NEW m \in Members, FaultAlone(m) PROVE [Next]_vars
  BY <1>5 DEF FaultAlone
<1>6. ASSUME NEW r \in Rides, RiderRequests(r) PROVE [Next]_vars
  BY <1>6 DEF RiderRequests, Next, PublishNext
<1>7. ASSUME NEW r \in Rides, NEW i \in 1 .. Len(log["ride.requested"]),
             RequestDuplicated(r, i)
      PROVE  [Next]_vars
  BY <1>7, TripAssumption DEF RequestDuplicated, Next, FaultNext
<1>8. ASSUME NEW d \in Drivers, ReservationExpires(d) PROVE [Next]_vars
  BY <1>8 DEF ReservationExpires
<1>9. CASE UNCHANGED systemVars
  BY <1>9 DEF systemVars
<1> QED BY <1>1, <1>2, <1>3, <1>4, <1>5, <1>6, <1>7, <1>8, <1>9 DEF SystemNext

\* The theorems about Trip Service hold of the system.
LEMMA SystemIsTrip == SystemSpec => Spec
<1>1. SystemInit => Init
  BY DEF SystemInit
<1> QED BY <1>1, SystemStepsTrip, PTL DEF SystemSpec, Spec

LEMMA TripTypes == SystemSpec => []TypeOK
BY SystemIsTrip, TypeCorrect, PTL

-----------------------------------------------------------------------------
\* Dispatch Service within the system

\* What Dispatch Service knows of the log.
Requests == [t \in {"ride.requested"} |-> [i \in DOMAIN log[t] |-> log[t][i].rideId]]

LEMMA RequestsKept == log'["ride.requested"] = log["ride.requested"] => UNCHANGED Requests
BY DEF Requests

\* The status column as Dispatch Service sees Trip Service and the drivers
\* change it.
LEMMA PatchIsOthers ==
    ASSUME TypeOK, UNCHANGED <<Requests, dispatchVars>>,
           NEW d, NEW status \in {"ON_TRIP", "AVAILABLE"}, PatchDriver(d, status)
    PROVE  UNCHANGED mirror \/ \E x \in Drivers : Dispatch!OthersPatch(x, status)
<1>1. CASE UNCHANGED mirror
  BY <1>1
<1>2. CASE mirror' # mirror
  <2>1. /\ canTransitionDriverStatus(mirror[d], status)
        /\ mirror' = [mirror EXCEPT ![d] = status]
    BY <1>2 DEF PatchDriver
  <2>2. d \in Drivers
    BY <1>2, <2>1 DEF TypeOK
  <2>3. Dispatch!canTransitionDriverStatus(mirror[d], status)
    BY <2>1 DEF canTransitionDriverStatus, Dispatch!canTransitionDriverStatus,
                DriverTransitions, Dispatch!DriverTransitions
  <2>4. Dispatch!OthersPatch(d, status)
    BY <2>1, <2>3 DEF Dispatch!OthersPatch, Dispatch!consumerVars, Dispatch!redisVars,
                      Requests, dispatchVars
  <2> QED BY <2>2, <2>4
<1> QED BY <1>1, <1>2

LEMMA TripAloneForDispatch ==
    ASSUME TypeOK, TripAlone
    PROVE  /\ UNCHANGED <<Requests, dispatchVars>>
           /\ \/ UNCHANGED mirror
              \/ \E d : \E status \in {"ON_TRIP", "AVAILABLE"} : PatchDriver(d, status)
<1>0. UNCHANGED dispatchVars
  BY DEF TripAlone
<1>S. ASSUME NEW t \in Topics \ {"ride.requested"}, NEW e, SendTo(t, e) PROVE UNCHANGED Requests
  <2>1. log'["ride.requested"] = log["ride.requested"]
    BY <1>S DEF SendTo, TypeOK, ConsumerTypeOK
  <2> QED BY <2>1, RequestsKept
<1>L. UNCHANGED log => UNCHANGED Requests
  BY RequestsKept
<1>1. CASE HttpNext
  <2>1. UNCHANGED log
    BY <1>1, HttpKeepsDrivers
  <2>2. PICK c \in Calls : UNCHANGED mirror \/ SyncDriver(c)
    BY <1>1 DEF HttpNext, Begin, BeginStart, CheckOtp, Accept, MarkDriverArrived, Start, Complete,
                Cancel, Update
  <2>3. ASSUME SyncDriver(c)
        PROVE  \/ PatchDriver(call[c].driver, "ON_TRIP")
               \/ PatchDriver(call[c].driver, "AVAILABLE")
    BY <2>3 DEF SyncDriver
  <2> QED BY <1>0, <1>L, <2>1, <2>2, <2>3
<1>2. ASSUME NEW t \in Topics, Take(t) PROVE UNCHANGED <<log, mirror>>
  BY <1>2 DEF Take, Fetch
<1>3. CASE HandlerNext
  <2>1. UNCHANGED log
    BY <1>3 DEF HandlerNext, HandleRideRequested, BeginCancelEvent, LockRow, SyncBeforeCommit,
                CommitCancelEvent, BeginDriverReserved, CommitDriverReserved, ReturnUnchanged,
                Throw, CommitEvent, HandlerReturns, HandlerThrows
  <2>2. UNCHANGED mirror \/ SyncBeforeCommit
    BY <1>3 DEF HandlerNext, HandleRideRequested, BeginCancelEvent, LockRow, SyncBeforeCommit,
                CommitCancelEvent, BeginDriverReserved, CommitDriverReserved, ReturnUnchanged,
                Throw
  <2>3. SyncBeforeCommit => PatchDriver(ride[Envelope.rideId].driver, "AVAILABLE")
    BY DEF SyncBeforeCommit
  <2> QED BY <1>0, <1>L, <2>1, <2>2, <2>3
<1>4. CASE TripTrouble
  <2>1. UNCHANGED mirror
    BY <1>4 DEF TripTrouble, HandlerFault, ParkFault, Restart, Duplicate, RequestCancel, Throw
  <2>2. ASSUME HandlerFault \/ ParkFault \/ Restart PROVE UNCHANGED log
    BY <2>2 DEF HandlerFault, ParkFault, Restart, Throw, HandlerThrows, Redeliver, ConsumerRestart
  <2>3. ASSUME NEW r \in Rides, RequestCancel(r) PROVE UNCHANGED Requests
    BY <2>3, <1>S, TripAssumption DEF RequestCancel, PublishNew
  <2>4. ASSUME NEW t \in Topics \ {"ride.requested"}, NEW i \in 1 .. Len(log[t]), Duplicate(t, i)
        PROVE  UNCHANGED Requests
    BY <2>4, <1>S DEF Duplicate
  <2> QED BY <1>0, <1>4, <1>L, <2>1, <2>2, <2>3, <2>4 DEF TripTrouble
<1> QED BY <1>0, <1>1, <1>2, <1>3, <1>4, <1>L DEF TripAlone

LEMMA SystemStepsDispatch == TypeOK /\ [SystemNext]_systemVars => [Dispatch!Next]_Dispatch!vars
<1> SUFFICES ASSUME TypeOK, [SystemNext]_systemVars PROVE [Dispatch!Next]_Dispatch!vars
  OBVIOUS
<1>0. ASSUME UNCHANGED <<Requests, dispatchVars, mirror>> PROVE UNCHANGED Dispatch!vars
  BY <1>0 DEF Requests, dispatchVars, Dispatch!vars, Dispatch!consumerVars, Dispatch!redisVars
<1>1. CASE TripAlone
  <2>1. /\ UNCHANGED <<Requests, dispatchVars>>
        /\ \/ UNCHANGED mirror
           \/ \E d : \E status \in {"ON_TRIP", "AVAILABLE"} : PatchDriver(d, status)
    BY <1>1, TripAloneForDispatch
  <2>2. ASSUME NEW d \in Drivers, NEW status \in {"ON_TRIP", "AVAILABLE"},
               Dispatch!OthersPatch(d, status)
        PROVE  Dispatch!Next
    BY <2>2 DEF Dispatch!Next, Dispatch!DriverStatus
  <2> QED BY <1>0, <2>1, <2>2, PatchIsOthers
<1>2. CASE DispatchTakes
  BY <1>2 DEF DispatchTakes, Dispatch!Next
<1>3. ASSUME NEW m \in Members, HandlerStep(m) PROVE Dispatch!Next
  BY <1>3 DEF HandlerStep, HandlerAlone, DispatchSyncs, DispatchPublishes,
              Dispatch!Next, Dispatch!HandlerStep
<1>4. ASSUME NEW m \in Members, DispatchStepFails(m) \/ FaultAlone(m) PROVE Dispatch!Next
  BY <1>4 DEF DispatchStepFails, FaultAlone, Dispatch!Next
<1>5. ASSUME NEW r \in Rides, RiderRequests(r) PROVE Dispatch!Next
  BY <1>5 DEF RiderRequests, Dispatch!Next
<1>6. ASSUME NEW r \in Rides, NEW i \in 1 .. Len(log["ride.requested"]),
             RequestDuplicated(r, i)
      PROVE  Dispatch!Next
  BY <1>6 DEF RequestDuplicated, Dispatch!Next
<1>7. ASSUME NEW d \in Drivers, ReservationExpires(d) PROVE Dispatch!Next
  BY <1>7 DEF ReservationExpires, Dispatch!Next
<1>8. CASE UNCHANGED systemVars
  <2>1. UNCHANGED <<log, mirror, dispatchVars>>
    BY <1>8 DEF systemVars, vars
  <2> QED BY <1>0, <2>1, RequestsKept
<1> QED BY <1>1, <1>2, <1>3, <1>4, <1>5, <1>6, <1>7, <1>8 DEF SystemNext

\* And the environment DispatchService assumes is the one that Trip Service
\* is: the system implements that specification too, the topic being what
\* Dispatch Service reads of ride.requested.
THEOREM SystemImplementsDispatch == SystemSpec => ImplementsDispatch
<1>1. SystemInit => Dispatch!Init
  BY DEF SystemInit
<1> QED BY <1>1, SystemStepsDispatch, TripTypes, PTL
    DEF SystemSpec, ImplementsDispatch, Dispatch!Spec

-----------------------------------------------------------------------------
\* What is proved about DispatchService holds in the system.

LEMMA SameDispatch ==
    /\ Dispatch!vars = DispatchProofs!vars
    /\ Dispatch!Init <=> DispatchProofs!Init
    /\ Dispatch!Next <=> DispatchProofs!Next
BY DEF Dispatch!vars, DispatchProofs!vars, Dispatch!consumerVars, DispatchProofs!consumerVars,
  Dispatch!redisVars, DispatchProofs!redisVars, Dispatch!Init, DispatchProofs!Init,
  Dispatch!ConsumerInit, DispatchProofs!ConsumerInit, Dispatch!Idle, DispatchProofs!Idle,
  Dispatch!Next, DispatchProofs!Next, Dispatch!Take, DispatchProofs!Take,
  Dispatch!Commit, DispatchProofs!Commit, Dispatch!HandlerStep, DispatchProofs!HandlerStep,
  Dispatch!StepFails, DispatchProofs!StepFails, Dispatch!Restart, DispatchProofs!Restart,
  Dispatch!Reassign, DispatchProofs!Reassign,
  Dispatch!ReservationExpires, DispatchProofs!ReservationExpires,
  Dispatch!OthersPatch, DispatchProofs!OthersPatch,
  Dispatch!RequestRide, DispatchProofs!RequestRide, Dispatch!Duplicate, DispatchProofs!Duplicate,
  Dispatch!CheckProcessed, DispatchProofs!CheckProcessed, Dispatch!Search, DispatchProofs!Search,
  Dispatch!TryCandidate, DispatchProofs!TryCandidate,
  Dispatch!NoCandidateLeft, DispatchProofs!NoCandidateLeft,
  Dispatch!SyncDriver, DispatchProofs!SyncDriver, Dispatch!Publish, DispatchProofs!Publish,
  Dispatch!MarkProcessed, DispatchProofs!MarkProcessed,
  Dispatch!Fetch, DispatchProofs!Fetch, Dispatch!At, DispatchProofs!At,
  Dispatch!AutoCommit, DispatchProofs!AutoCommit, Dispatch!Fault, DispatchProofs!Fault,
  Dispatch!Throw, DispatchProofs!Throw, Dispatch!Return, DispatchProofs!Return,
  Dispatch!Current, DispatchProofs!Current, Dispatch!HandlerReturns, DispatchProofs!HandlerReturns,
  Dispatch!HandlerThrows, DispatchProofs!HandlerThrows, Dispatch!Resolve, DispatchProofs!Resolve,
  Dispatch!Offset, DispatchProofs!Offset, Dispatch!PublishAnswer, DispatchProofs!PublishAnswer,
  Dispatch!ConsumerRestart, DispatchProofs!ConsumerRestart,
  Dispatch!canTransitionDriverStatus, DispatchProofs!canTransitionDriverStatus,
  Dispatch!DriverTransitions, DispatchProofs!DriverTransitions,
  Dispatch!DriverStatus, DispatchProofs!DriverStatus, Dispatch!Requested, DispatchProofs!Requested,
  Dispatch!RequestTopic, DispatchProofs!RequestTopic, Dispatch!SendTo, DispatchProofs!SendTo,
  Dispatch!Goto, DispatchProofs!Goto, Dispatch!Rankings, DispatchProofs!Rankings,
  Dispatch!tryReserve, DispatchProofs!tryReserve, Dispatch!Unreserved, DispatchProofs!Unreserved

LEMMA SystemRunsDispatch == SystemSpec => DispatchProofs!Spec
<1>1. [Dispatch!Next]_Dispatch!vars => [DispatchProofs!Next]_DispatchProofs!vars
  BY SameDispatch DEF Dispatch!vars, DispatchProofs!vars,
     Dispatch!consumerVars, DispatchProofs!consumerVars, Dispatch!redisVars, DispatchProofs!redisVars
<1> QED BY <1>1, SystemImplementsDispatch, SameDispatch, PTL
    DEF ImplementsDispatch, Dispatch!Spec, DispatchProofs!Spec

\* DispatchService's assumptions, for the constants it is given here.
LEMMA DispatchConstants ==
    DispatchProofs!ConsumerAssumption /\ DispatchProofs!DispatchAssumption
<1>1. NoTopic \notin {"ride.requested"} /\ MaxAttempts \in Nat \ {0}
  BY ConsumerAssumption, TripAssumption
<1>2. DispatchProofs!ConsumerAssumption
  BY <1>1 DEF DispatchProofs!ConsumerAssumption
<1>3. DispatchProofs!IsFiniteSet(Members)
  BY SystemAssumption DEF DispatchProofs!IsFiniteSet, IsFiniteSet
<1>4. DispatchProofs!DispatchAssumption
  BY <1>3, TripAssumption, SystemAssumption
  DEF DispatchProofs!DispatchAssumption, DispatchProofs!RequestTopic
<1> QED BY <1>2, <1>4

LEMMA DispatchTypes == SystemSpec => []DispatchProofs!TypeOK
BY SystemRunsDispatch, DispatchProofs!TypeCorrect, DispatchConstants, PTL

LEMMA DispatchPromises == SystemSpec => []DispatchProofs!PromisedOnce
BY SystemRunsDispatch, DispatchProofs!DriverIsPromisedOnce, DispatchConstants, PTL

LEMMA PromisedOnceMeans ==
    DispatchProofs!PromisedOnce =>
        \A i, j \in DOMAIN answers :
            i # j /\ answers[i].driverId = answers[j].driverId =>
                answers[i].driverId \in lapsed \cup {None}
BY DEF DispatchProofs!PromisedOnce

-----------------------------------------------------------------------------
\* No driver is on two rides.  A ride has a driver only from a driver.reserved,
\* every driver.reserved carries an answer of Dispatch Service, and of two
\* answers that name a driver one was given after its reservation had lapsed.

ReservedTopic == "driver.reserved"

DriversFromLog ==
    \A r \in Rides : ride[r].driver # None =>
        \E i \in DOMAIN log[ReservedTopic] :
            log[ReservedTopic][i].rideId = r /\ log[ReservedTopic][i].driverId = ride[r].driver

IsAnswer(e) == \E k \in DOMAIN answers : answers[k].rideId = e.rideId /\ answers[k].driverId = e.driverId

LogFromAnswers == \A i \in DOMAIN log[ReservedTopic] : IsAnswer(log[ReservedTopic][i])

BookingInv == DriversFromLog /\ LogFromAnswers

\* A row gets a driver only from a message on driver.reserved.
LEMMA DriversAreRead ==
    ASSUME DriverInv, [Next]_vars, NEW r \in Rides
    PROVE  \/ ride'[r].driver = ride[r].driver
           \/ \E i \in DOMAIN log[ReservedTopic] :
                log[ReservedTopic][i].rideId = r /\ log[ReservedTopic][i].driverId = ride'[r].driver
<1>T. TypeOK
  BY DEF DriverInv
<1>1. ASSUME NEW x, NEW s, ride' = [ride EXCEPT ![x] = [ride[x] EXCEPT !.status = s]]
      PROVE  ride'[r].driver = ride[r].driver
  BY <1>1, <1>T DEF TypeOK, Rows
<1>2. CASE HttpNext
  BY <1>2, <1>T, HttpKeepsDrivers DEF DriversKept
<1>3. CASE HandlerNext
  <2>1. CASE HandleRideRequested
    <3>1. UNCHANGED ride \/ ride' = [ride EXCEPT ![Envelope.rideId].status = "MATCHING"]
      BY <2>1 DEF HandleRideRequested, ReturnUnchanged, dbVars
    <3>2. /\ ride \in [Rides -> Rows] /\ ride[r] \in Rows
          /\ Envelope.rideId \in Rides => ride[Envelope.rideId] \in Rows
      BY <1>T DEF TypeOK
    <3>3. ride'[r].driver = ride[r].driver
      BY <3>1, <3>2 DEF Rows
    <3> QED BY <3>3
  <2>2. CASE CommitCancelEvent
    BY <1>1, <2>2 DEF CommitCancelEvent, Write
  <2>3. CASE CommitDriverReserved
    <3> DEFINE row == [ride[Envelope.rideId] EXCEPT !.status = "MATCHED", !.driver = Envelope.driverId]
    <3>1. /\ handling = ReservedTopic /\ Offset \in DOMAIN log[ReservedTopic]
          /\ Envelope = log[ReservedTopic][Offset]
      <4>1. handling = ReservedTopic /\ handling # NoTopic
        BY <2>3, ConsumerAssumption, TripAssumption DEF CommitDriverReserved, Handling, ReservedTopic
      <4>2. Offset \in 1 .. Len(log[ReservedTopic]) /\ log[ReservedTopic] \in Seq(EnvelopeSet)
        BY <1>T, <4>1, EnvelopeTyped DEF TypeOK, ConsumerTypeOK
      <4> QED BY <4>1, <4>2, LenProperties DEF Envelope
    <3>2. UNCHANGED ride \/ ride' = [ride EXCEPT ![Envelope.rideId] = row]
      BY <2>3 DEF CommitDriverReserved, ReturnUnchanged, Write, dbVars
    <3>3. Envelope.rideId = r => row.driver = Envelope.driverId
      BY <1>T DEF TypeOK, Rows
    <3> HIDE DEF row
    <3> QED BY <1>T, <3>1, <3>2, <3>3 DEF TypeOK
  <2> QED BY <1>3, <2>1, <2>2, <2>3 DEF HandlerNext, BeginCancelEvent, LockRow, SyncBeforeCommit,
             BeginDriverReserved, ReturnUnchanged, Throw, dbVars
<1>4. ASSUME NEW t \in Topics, Take(t) PROVE UNCHANGED ride
  BY <1>4 DEF Take, dbVars
<1>5. CASE Commit
  BY <1>5 DEF Commit, dbVars
<1>6. CASE FaultNext
  BY <1>6 DEF FaultNext, HandlerFault, ParkFault, Restart, Duplicate, Throw, dbVars
<1>7. CASE PublishNext
  BY <1>7 DEF PublishNext, RequestRide, RequestCancel, DispatchRejects, DispatchReserves,
              DispatchMarksReserved, publishFrame, dbVars
<1> QED BY <1>2, <1>3, <1>4, <1>5, <1>6, <1>7 DEF Next, vars

\* How a step of Trip Service's callers and faults touches driver.reserved.
LEMMA TripAloneAppends ==
    ASSUME TypeOK, TripAlone
    PROVE  /\ UNCHANGED answers
           /\ \/ log'[ReservedTopic] = log[ReservedTopic]
              \/ \E i \in 1 .. Len(log[ReservedTopic]) : Duplicate(ReservedTopic, i)
<1>1. UNCHANGED answers
  BY DEF TripAlone, dispatchVars
<1>2. ASSUME NEW t \in Topics \ {ReservedTopic}, NEW e, SendTo(t, e)
      PROVE  log'[ReservedTopic] = log[ReservedTopic]
  BY <1>2 DEF SendTo, TypeOK, ConsumerTypeOK
<1>3. CASE HttpNext
  BY <1>1, <1>3, HttpKeepsDrivers
<1>4. ASSUME NEW t \in Topics, Take(t) PROVE UNCHANGED log
  BY <1>4 DEF Take, Fetch
<1>5. CASE HandlerNext
  BY <1>1, <1>5 DEF HandlerNext, HandleRideRequested, BeginCancelEvent, LockRow, SyncBeforeCommit,
              CommitCancelEvent, BeginDriverReserved, CommitDriverReserved, ReturnUnchanged,
              Throw, CommitEvent, HandlerReturns, HandlerThrows
<1>6. CASE HandlerFault \/ ParkFault \/ Restart
  BY <1>1, <1>6 DEF HandlerFault, ParkFault, Restart, Throw, HandlerThrows, Redeliver, ConsumerRestart
<1>7. ASSUME NEW t \in Topics \ {"ride.requested"}, NEW i \in 1 .. Len(log[t]), Duplicate(t, i)
      PROVE  \/ log'[ReservedTopic] = log[ReservedTopic]
             \/ \E j \in 1 .. Len(log[ReservedTopic]) : Duplicate(ReservedTopic, j)
  BY <1>2, <1>7 DEF Duplicate
<1>8. ASSUME NEW r \in Rides, RequestCancel(r) PROVE log'[ReservedTopic] = log[ReservedTopic]
  BY <1>2, <1>8, TripAssumption DEF RequestCancel, PublishNew, ReservedTopic
<1> QED BY <1>1, <1>3, <1>4, <1>5, <1>6, <1>7, <1>8 DEF TripAlone, TripTrouble

\* Answers are given and received together.
LEMMA AnswersAreReceived ==
    ASSUME TypeOK, [SystemNext]_systemVars
    PROVE  \/ /\ UNCHANGED answers
              /\ \/ log'[ReservedTopic] = log[ReservedTopic]
                 \/ \E i \in 1 .. Len(log[ReservedTopic]) : Duplicate(ReservedTopic, i)
           \/ \E m \in Members : AnswerArrives(m) /\ Dispatch!PublishAnswer(m)
<1>1. CASE TripAlone
  BY <1>1, TripAloneAppends
<1>2. CASE DispatchTakes
  BY <1>2 DEF DispatchTakes, Dispatch!Take, vars
<1>3. ASSUME NEW m \in Members, HandlerAlone(m) PROVE UNCHANGED <<log, answers>>
  BY <1>3 DEF HandlerAlone, Dispatch!CheckProcessed, Dispatch!Search, Dispatch!TryCandidate,
              Dispatch!NoCandidateLeft, Dispatch!MarkProcessed, vars
<1>4. ASSUME NEW m \in Members, DispatchSyncs(m) PROVE UNCHANGED <<log, answers>>
  BY <1>4 DEF DispatchSyncs, Dispatch!SyncDriver, DispatchMarksReserved, vars
<1>5. ASSUME NEW m \in Members, DispatchPublishes(m)
      PROVE  AnswerArrives(m) /\ Dispatch!PublishAnswer(m)
  BY <1>5 DEF DispatchPublishes, Dispatch!Publish
<1>6. ASSUME NEW m \in Members, DispatchStepFails(m)
      PROVE  \/ UNCHANGED <<log, answers>>
             \/ AnswerArrives(m) /\ Dispatch!PublishAnswer(m)
  BY <1>6 DEF DispatchStepFails, vars
<1>7. ASSUME NEW m \in Members, FaultAlone(m) PROVE UNCHANGED <<log, answers>>
  BY <1>7 DEF FaultAlone, Dispatch!Restart, Dispatch!Reassign, vars
<1>8. ASSUME NEW r \in Rides, NEW e, SendTo("ride.requested", e)
      PROVE  log'[ReservedTopic] = log[ReservedTopic]
  BY <1>8, TripAssumption DEF SendTo, ReservedTopic, TypeOK, ConsumerTypeOK
<1>9. ASSUME NEW r \in Rides, RiderRequests(r)
      PROVE  log'[ReservedTopic] = log[ReservedTopic] /\ UNCHANGED answers
  BY <1>8, <1>9 DEF RiderRequests, RequestRide, PublishNew, Dispatch!RequestRide
<1>10. ASSUME NEW r \in Rides, NEW i \in 1 .. Len(log["ride.requested"]), RequestDuplicated(r, i)
       PROVE  log'[ReservedTopic] = log[ReservedTopic] /\ UNCHANGED answers
  BY <1>8, <1>10 DEF RequestDuplicated, Duplicate, Dispatch!Duplicate
<1>11. ASSUME NEW d \in Drivers, ReservationExpires(d) PROVE UNCHANGED <<log, answers>>
  BY <1>11 DEF ReservationExpires, Dispatch!ReservationExpires, vars
<1>12. CASE UNCHANGED systemVars
  BY <1>12 DEF systemVars, vars, dispatchVars
<1> QED BY <1>1, <1>2, <1>3, <1>4, <1>5, <1>6, <1>7, <1>9, <1>10, <1>11, <1>12
        DEF SystemNext, HandlerStep

\* Appending to driver.reserved what is on it already, or what is answered.
LEMMA ReservedGrows ==
    ASSUME TypeOK, BookingInv, NEW e \in EnvelopeSet, SendTo(ReservedTopic, e),
           \A x : IsAnswer(x) => IsAnswer(x)', IsAnswer(e)'
    PROVE  /\ LogFromAnswers'
           /\ \A i \in DOMAIN log[ReservedTopic] :
                i \in DOMAIN log'[ReservedTopic] /\ log'[ReservedTopic][i] = log[ReservedTopic][i]
<1>1. /\ log[ReservedTopic] \in Seq(EnvelopeSet)
      /\ log'[ReservedTopic] = Append(log[ReservedTopic], e)
  BY TripAssumption DEF TypeOK, ConsumerTypeOK, SendTo, ReservedTopic
<1>2. /\ Len(log[ReservedTopic]) \in Nat
      /\ DOMAIN log[ReservedTopic] = 1 .. Len(log[ReservedTopic])
      /\ DOMAIN log'[ReservedTopic] = 1 .. Len(log[ReservedTopic]) + 1
      /\ \A i \in 1 .. Len(log[ReservedTopic]) : log'[ReservedTopic][i] = log[ReservedTopic][i]
      /\ log'[ReservedTopic][Len(log[ReservedTopic]) + 1] = e
  BY <1>1, AppendProperties, LenProperties
<1>3. LogFromAnswers'
  <2>1. ASSUME NEW i \in DOMAIN log'[ReservedTopic] PROVE IsAnswer(log[ReservedTopic][i])'
    <3>1. CASE i \in 1 .. Len(log[ReservedTopic])
      <4>1. IsAnswer(log[ReservedTopic][i])
        BY <1>2, <3>1 DEF BookingInv, LogFromAnswers
      <4> QED BY <1>2, <3>1, <4>1 DEF IsAnswer
    <3>2. CASE i = Len(log[ReservedTopic]) + 1
      BY <1>2, <3>2 DEF IsAnswer
    <3> QED BY <1>2, <2>1, <3>1, <3>2
  <2> QED BY <2>1 DEF LogFromAnswers
<1> QED BY <1>2, <1>3

LEMMA BookingNext ==
    ASSUME DriverInv, DispatchProofs!TypeOK, BookingInv, [SystemNext]_systemVars
    PROVE  BookingInv'
<1>T. TypeOK /\ [Next]_vars
  BY SystemStepsTrip DEF DriverInv
<1>1. ASSUME LogFromAnswers',
             \A i \in DOMAIN log[ReservedTopic] :
                i \in DOMAIN log'[ReservedTopic] /\ log'[ReservedTopic][i] = log[ReservedTopic][i]
      PROVE  BookingInv'
  <2>1. DriversFromLog'
    <3>1. ASSUME NEW r \in Rides, ride'[r].driver # None
          PROVE  \E i \in DOMAIN log'[ReservedTopic] :
                    /\ log'[ReservedTopic][i].rideId = r
                    /\ log'[ReservedTopic][i].driverId = ride'[r].driver
      <4>1. \/ ride'[r].driver = ride[r].driver
            \/ \E i \in DOMAIN log[ReservedTopic] :
                 /\ log[ReservedTopic][i].rideId = r
                 /\ log[ReservedTopic][i].driverId = ride'[r].driver
        BY <1>T, DriversAreRead
      <4> QED BY <1>1, <3>1, <4>1 DEF BookingInv, DriversFromLog
    <3> QED BY <3>1 DEF DriversFromLog
  <2> QED BY <1>1, <2>1 DEF BookingInv
<1>2. ASSUME UNCHANGED answers, log'[ReservedTopic] = log[ReservedTopic] PROVE BookingInv'
  BY <1>1, <1>2 DEF BookingInv, LogFromAnswers, IsAnswer
<1>3. ASSUME NEW i \in 1 .. Len(log[ReservedTopic]), UNCHANGED answers,
             Duplicate(ReservedTopic, i)
      PROVE  BookingInv'
  <2>1. log[ReservedTopic] \in Seq(EnvelopeSet)
    BY <1>T, TripAssumption DEF TypeOK, ConsumerTypeOK, ReservedTopic
  <2>2. PICK e \in EnvelopeSet : e = log[ReservedTopic][i] /\ IsAnswer(e)
    BY <2>1, ElementOfSeq, LenProperties DEF BookingInv, LogFromAnswers
  <2>3. SendTo(ReservedTopic, e)
    BY <1>3, <2>2 DEF Duplicate
  <2>4. IsAnswer(e)' /\ \A x : IsAnswer(x) => IsAnswer(x)'
    BY <1>3, <2>2 DEF IsAnswer
  <2> QED BY <1>1, <1>T, <2>3, <2>4, ReservedGrows
<1>4. ASSUME NEW m \in Members, AnswerArrives(m), Dispatch!PublishAnswer(m) PROVE BookingInv'
  <2> DEFINE answer == [rideId |-> work[m].ride, driverId |-> work[m].won]
  <2>1. answers' = Append(answers, answer)
    BY <1>4 DEF Dispatch!PublishAnswer
  <2>2. PICK T : answers \in Seq(T) /\ answer \in T
    <3>1. answer \in [rideId : Rides, driverId : Drivers \cup {None}]
      BY <1>4 DEF AnswerArrives
    <3>2. answers \in Seq([rideId : Rides, driverId : Drivers \cup {None}])
      BY DEF DispatchProofs!TypeOK
    <3> QED BY <3>1, <3>2
  <2>3. /\ \A k \in DOMAIN answers : k \in DOMAIN answers' /\ answers'[k] = answers[k]
        /\ \E k \in DOMAIN answers' : answers'[k] = answer
    <3> HIDE DEF answer
    <3>1. /\ DOMAIN answers = 1 .. Len(answers) /\ Len(answers) \in Nat
          /\ DOMAIN answers' = 1 .. Len(answers) + 1
          /\ \A k \in 1 .. Len(answers) : answers'[k] = answers[k]
          /\ answers'[Len(answers) + 1] = answer
      BY <2>1, <2>2, AppendProperties, LenProperties
    <3> QED BY <3>1
  <2>4. \A x : IsAnswer(x) => IsAnswer(x)'
    BY <2>3 DEF IsAnswer
  <2>5. CASE \E r \in Rides : r = work[m].ride /\ work[m].won = None /\ DispatchRejects(r)
    <3>1. PICK e : SendTo("driver.rejected", e)
      BY <2>5 DEF DispatchRejects, PublishNew
    <3>2. log'[ReservedTopic] = log[ReservedTopic]
      BY <1>T, <3>1, TripAssumption DEF SendTo, ReservedTopic, TypeOK, ConsumerTypeOK
    <3>3. LogFromAnswers'
      BY <2>4, <3>2 DEF BookingInv, LogFromAnswers, IsAnswer
    <3> QED BY <1>1, <3>2, <3>3
  <2>6. ASSUME NEW r \in Rides, NEW d \in Drivers, r = work[m].ride, d = work[m].won,
               DispatchReserves(r, d)
        PROVE  BookingInv'
    <3>1. /\ Payload(r, d) \in EnvelopeSet /\ SendTo(ReservedTopic, Payload(r, d))
          /\ Payload(r, d).rideId = r /\ Payload(r, d).driverId = d
      BY <1>T, <2>6 DEF DispatchReserves, PublishNew, ReservedTopic, Payload, EnvelopeSet, TypeOK
    <3>2. PICK e \in EnvelopeSet : e.rideId = r /\ e.driverId = d /\ SendTo(ReservedTopic, e)
      BY <3>1
    <3>3. IsAnswer(e)'
      BY <2>3, <2>6, <3>2 DEF IsAnswer
    <3> QED BY <1>1, <1>T, <2>4, <3>2, <3>3, ReservedGrows
  <2> QED BY <1>4, <2>5, <2>6 DEF AnswerArrives
<1> QED BY <1>2, <1>3, <1>4, <1>T, AnswersAreReceived

LEMMA BookingInit == Init => BookingInv
BY TripAssumption DEF Init, ConsumerInit, BookingInv, DriversFromLog, LogFromAnswers, NoRow, ReservedTopic

\* A driver is never on two rides under way, whatever the members of Dispatch
\* Service, retries, redeliveries and duplicates of either service do, unless
\* its reservation has run out.
THEOREM DriverIsNotDoubleBooked == SystemSpec => []NoDoubleBookingUnlessLapsed
<1>1. SystemSpec => []DriverInv
  BY SystemIsTrip, DriverInit, DriverNext, PTL DEF Spec
<1>2. SystemInit => BookingInv
  BY BookingInit DEF SystemInit
<1>3. DriverInv /\ DispatchProofs!TypeOK /\ BookingInv /\ [SystemNext]_systemVars => BookingInv'
  BY BookingNext
<1>4. SystemSpec => []BookingInv
  BY <1>1, <1>2, <1>3, DispatchTypes, PTL DEF SystemSpec
<1>5. BookingInv /\ DispatchProofs!PromisedOnce => NoDoubleBookingUnlessLapsed
  <2> SUFFICES ASSUME BookingInv, DispatchProofs!PromisedOnce,
                      NEW d \in Drivers \ lapsed, NEW r1 \in Rides, NEW r2 \in Rides,
                      Assigned(r1, d), Assigned(r2, d)
               PROVE  r1 = r2
    BY DEF NoDoubleBookingUnlessLapsed
  <2>1. ride[r1].driver = d /\ ride[r2].driver = d /\ d # None
    BY TripAssumption DEF Assigned
  <2>2. PICK k1 \in DOMAIN answers : answers[k1].rideId = r1 /\ answers[k1].driverId = d
    BY <2>1 DEF BookingInv, DriversFromLog, LogFromAnswers, IsAnswer
  <2>3. PICK k2 \in DOMAIN answers : answers[k2].rideId = r2 /\ answers[k2].driverId = d
    BY <2>1 DEF BookingInv, DriversFromLog, LogFromAnswers, IsAnswer
  <2>4. k1 = k2
    BY <2>1, <2>2, <2>3, PromisedOnceMeans
  <2> QED BY <2>2, <2>3, <2>4
<1> QED BY <1>4, <1>5, DispatchPromises, PTL

-----------------------------------------------------------------------------
\* Event ids.  One is given out at a time, and as long as nothing went wrong
\* each is on one message, and recorded only with that message behind it.

KnownIds ==
    /\ \A t \in Topics : \A i \in DOMAIN log[t] : log[t][i].eventId <= events
    /\ \A e \in processed : e <= events

OneEach ==
    \A t \in Topics : \A i \in DOMAIN log[t] : \A u \in Topics : \A j \in DOMAIN log[u] :
        log[t][i].eventId = log[u][j].eventId => t = u /\ i = j

NotYet ==
    \A t \in Topics : \A i \in DOMAIN log[t] :
        i > position[t] => log[t][i].eventId \notin processed

FreshInv == KnownIds /\ (faults = 0 => OneEach /\ NotYet)

\* What a handler's step may do to the record of events and to the offsets.
LEMMA HandlerOffsets ==
    ASSUME TypeOK, HandlerNext
    PROVE  /\ UNCHANGED <<log, events, call>> /\ faults' \in {faults, faults + 1}
           /\ \/ handling # NoTopic /\ CommitEvent
              \/ UNCHANGED processed /\ \A t \in Topics : position'[t] >= position[t]
<1>T. position \in [Topics -> Nat] /\ handling \in Topics \cup {NoTopic}
  BY DEF TypeOK, ConsumerTypeOK
<1>1. ASSUME HandlerReturns \/ HandlerThrows \/ UNCHANGED consumerVars
      PROVE  \A t \in Topics : position'[t] >= position[t]
  BY <1>1, <1>T DEF HandlerReturns, HandlerThrows, Resolve, consumerVars
<1>2. ASSUME ReturnUnchanged \/ Throw PROVE UNCHANGED <<log, processed>>
  BY <1>2 DEF ReturnUnchanged, Throw, HandlerReturns, HandlerThrows, dbVars
<1>3. CommitEvent => UNCHANGED log /\ handling # NoTopic
  BY DEF CommitEvent, HandlerReturns
<1>4. CASE HandleRideRequested
  BY <1>1, <1>2, <1>3, <1>4 DEF HandleRideRequested, consumerFrame, ReturnUnchanged
<1>5. CASE BeginCancelEvent
  BY <1>1, <1>2, <1>5 DEF BeginCancelEvent, consumerFrame, ReturnUnchanged, Throw, dbVars
<1>6. CASE LockRow
  BY <1>1, <1>6 DEF LockRow, consumerFrame, dbVars
<1>7. CASE SyncBeforeCommit
  BY <1>1, <1>7 DEF SyncBeforeCommit, PatchDriver, dbVars
<1>8. CASE CommitCancelEvent
  BY <1>3, <1>8 DEF CommitCancelEvent, consumerFrame
<1>9. CASE BeginDriverReserved
  BY <1>1, <1>2, <1>9 DEF BeginDriverReserved, consumerFrame, Throw, dbVars
<1>10. CASE CommitDriverReserved
  BY <1>1, <1>2, <1>3, <1>10 DEF CommitDriverReserved, consumerFrame, ReturnUnchanged
<1> QED BY <1>4, <1>5, <1>6, <1>7, <1>8, <1>9, <1>10 DEF HandlerNext

\* A topic after one message more.
LEMMA LogAppended ==
    ASSUME TypeOK, NEW t \in Topics, NEW e \in EnvelopeSet, SendTo(t, e)
    PROVE  /\ DOMAIN log[t] = 1 .. Len(log[t]) /\ Len(log[t]) \in Nat
           /\ DOMAIN log'[t] = 1 .. Len(log[t]) + 1
           /\ \A i \in DOMAIN log[t] : log'[t][i] = log[t][i]
           /\ log'[t][Len(log[t]) + 1] = e
           /\ \A u \in Topics : u # t => log'[u] = log[u]
<1>1. /\ log[t] \in Seq(EnvelopeSet) /\ log'[t] = Append(log[t], e)
      /\ \A u \in Topics : u # t => log'[u] = log[u]
  BY DEF TypeOK, ConsumerTypeOK, SendTo
<1> QED BY <1>1, AppendProperties, LenProperties

LEMMA HttpRecordsNothing ==
    HttpNext => UNCHANGED <<processed, events>> /\ faults' \in {faults, faults + 1}
BY DEF HttpNext, Begin, BeginStart, CheckOtp, Accept, MarkDriverArrived, Start, Complete, Cancel,
       SyncDriver, Update, Write, PatchDriver, httpFrame

LEMMA FreshNext == TypeOK /\ FreshInv /\ [Next]_vars => FreshInv'
<1> SUFFICES ASSUME TypeOK, FreshInv, [Next]_vars PROVE FreshInv'
  OBVIOUS
<1>T. /\ log \in [Topics -> Seq(EnvelopeSet)] /\ position \in [Topics -> Nat]
      /\ events \in Nat /\ faults \in Nat /\ processed \subseteq Nat
      /\ \A t \in Topics : position[t] <= Len(log[t])
  BY DEF TypeOK, ConsumerTypeOK, OffsetsOK
<1>T2. position' \in [Topics -> Nat] /\ DOMAIN log = Topics
  BY TypeNext DEF TypeOK, ConsumerTypeOK
<1>1. ASSUME UNCHANGED <<log, processed, events>>,
             \/ faults' # 0
             \/ faults' = faults /\ \A t \in Topics : position'[t] >= position[t]
      PROVE  FreshInv'
  <2>1. KnownIds' /\ (OneEach => OneEach')
    BY <1>1 DEF FreshInv, KnownIds, OneEach
  <2>2. ASSUME faults' = 0 PROVE OneEach' /\ NotYet'
    <3>1. faults = 0 /\ OneEach /\ NotYet /\ \A t \in Topics : position'[t] >= position[t]
      BY <1>1, <2>2 DEF FreshInv
    <3>2. ASSUME NEW t \in Topics, NEW i \in DOMAIN log[t], i > position'[t]
          PROVE  log[t][i].eventId \notin processed
      <4>1. i \in Nat /\ position[t] \in Nat /\ position'[t] \in Nat
        BY <1>T, <1>T2, LenProperties
      <4>2. i > position[t]
        BY <3>1, <3>2, <4>1
      <4> QED BY <3>1, <4>2 DEF NotYet
    <3> QED BY <1>1, <2>1, <3>1, <3>2 DEF NotYet
  <2> QED BY <2>1, <2>2 DEF FreshInv
<1>2. ASSUME handling # NoTopic, CommitEvent, UNCHANGED events, faults' = faults \/ faults' # 0
      PROVE  FreshInv'
  <2>1. /\ handling \in Topics /\ Offset \in DOMAIN log[handling]
        /\ Offset = position[handling] + 1 /\ Envelope = log[handling][Offset]
    <3>1. log[handling] \in Seq(EnvelopeSet) /\ handling \in Topics
      BY <1>T, <1>2, EnvelopeTyped
    <3> QED BY <1>2, <3>1, EnvelopeTyped, LenProperties DEF Envelope, Offset
  <2>2. /\ UNCHANGED log /\ processed' = processed \cup {Envelope.eventId}
        /\ position' = [position EXCEPT ![handling] = @ + 1]
    BY <1>2 DEF CommitEvent, HandlerReturns, Resolve
  <2>3. KnownIds' /\ (OneEach => OneEach')
    BY <1>2, <2>1, <2>2 DEF FreshInv, KnownIds, OneEach
  <2>4. ASSUME faults = 0, NEW t \in Topics, NEW i \in DOMAIN log[t], i > position'[t]
        PROVE  log[t][i].eventId \notin processed'
    <3>1. OneEach /\ NotYet /\ i \in Nat /\ position[t] \in Nat
      BY <1>T, <2>4, LenProperties DEF FreshInv
    <3>2. i > position[t] /\ (t = handling => i # Offset)
      BY <1>T, <2>1, <2>2, <2>4, <3>1
    <3>3. log[t][i].eventId \notin processed
      BY <3>1, <3>2 DEF NotYet
    <3>4. log[t][i].eventId # Envelope.eventId
      BY <2>1, <3>1, <3>2 DEF OneEach
    <3> QED BY <2>2, <3>3, <3>4
  <2> QED BY <1>2, <2>2, <2>3, <2>4 DEF FreshInv, NotYet
<1>3. ASSUME NEW t \in Topics, NEW e \in EnvelopeSet, SendTo(t, e), events' = events + 1,
             e.eventId = events + 1, UNCHANGED <<position, processed, faults>>
      PROVE  FreshInv'
  <2>1. /\ DOMAIN log[t] = 1 .. Len(log[t]) /\ Len(log[t]) \in Nat
        /\ DOMAIN log'[t] = 1 .. Len(log[t]) + 1
        /\ \A i \in DOMAIN log[t] : log'[t][i] = log[t][i]
        /\ log'[t][Len(log[t]) + 1] = e
        /\ \A u \in Topics : u # t => log'[u] = log[u]
    BY <1>3, LogAppended
  <2>2. KnownIds
    BY DEF FreshInv
  <2>3. \A u \in Topics : \A i \in DOMAIN log[u] : log[u][i].eventId \in Nat
    <3>1. ASSUME NEW u \in Topics, NEW i \in DOMAIN log[u] PROVE log[u][i].eventId \in Nat
      <4>1. log[u] \in Seq(EnvelopeSet)
        BY <1>T
      <4>2. log[u][i] \in EnvelopeSet
        BY <3>1, <4>1, ElementOfSeq, LenProperties
      <4> QED BY <4>2 DEF EnvelopeSet
    <3> QED BY <3>1
  \* Where a message of the longer log was before.
  <2>4. ASSUME NEW u \in Topics, NEW i \in DOMAIN log'[u]
        PROVE  \/ i \in DOMAIN log[u] /\ log'[u][i] = log[u][i]
               \/ u = t /\ i = Len(log[t]) + 1 /\ log'[u][i] = e
    BY <2>1, <2>4
  <2>5. KnownIds'
    <3>1. ASSUME NEW u \in Topics, NEW i \in DOMAIN log'[u]
          PROVE  log'[u][i].eventId <= events'
      <4>1. i \in DOMAIN log[u] => log[u][i].eventId \in Nat /\ log[u][i].eventId <= events
        BY <2>2, <2>3 DEF KnownIds
      <4> QED BY <1>T, <1>3, <2>4, <3>1, <4>1
    <3>2. ASSUME NEW x \in processed PROVE x <= events'
      BY <1>T, <1>3, <2>2 DEF KnownIds
    <3> QED BY <1>3, <3>1, <3>2 DEF KnownIds
  <2>6. ASSUME OneEach PROVE OneEach'
    <3>1. ASSUME NEW u \in Topics, NEW i \in DOMAIN log'[u], NEW v \in Topics,
                 NEW j \in DOMAIN log'[v], log'[u][i].eventId = log'[v][j].eventId
          PROVE  u = v /\ i = j
      <4>1. \/ i \in DOMAIN log[u] /\ log'[u][i] = log[u][i]
            \/ u = t /\ i = Len(log[t]) + 1 /\ log'[u][i] = e
        BY <2>4, <3>1
      <4>2. \/ j \in DOMAIN log[v] /\ log'[v][j] = log[v][j]
            \/ v = t /\ j = Len(log[t]) + 1 /\ log'[v][j] = e
        BY <2>4, <3>1
      <4>3. \A w \in Topics : \A k \in DOMAIN log[w] : log[w][k].eventId # e.eventId
        BY <1>T, <1>3, <2>2, <2>3 DEF KnownIds
      <4> QED BY <2>6, <3>1, <4>1, <4>2, <4>3 DEF OneEach
    <3> QED BY <3>1 DEF OneEach
  <2>7. ASSUME NotYet PROVE NotYet'
    <3>1. e.eventId \notin processed
      BY <1>T, <1>3, <2>2 DEF KnownIds
    <3>2. ASSUME NEW u \in Topics, NEW i \in DOMAIN log'[u], i > position[u]
          PROVE  log'[u][i].eventId \notin processed
      BY <2>4, <2>7, <3>1, <3>2 DEF NotYet
    <3> QED BY <1>3, <3>2 DEF NotYet
  <2> QED BY <1>3, <2>5, <2>6, <2>7 DEF FreshInv
<1>4. ASSUME NEW t \in Topics, NEW e \in EnvelopeSet, SendTo(t, e), e.eventId <= events,
             UNCHANGED <<events, processed>>, faults' # 0
      PROVE  FreshInv'
  <2>1. /\ DOMAIN log[t] = 1 .. Len(log[t]) /\ Len(log[t]) \in Nat
        /\ DOMAIN log'[t] = 1 .. Len(log[t]) + 1
        /\ \A i \in DOMAIN log[t] : log'[t][i] = log[t][i]
        /\ log'[t][Len(log[t]) + 1] = e
        /\ \A u \in Topics : u # t => log'[u] = log[u]
    BY <1>4, LogAppended
  <2>2. ASSUME NEW u \in Topics, NEW i \in DOMAIN log'[u]
        PROVE  log'[u][i].eventId <= events
    <3>1. \/ i \in DOMAIN log[u] /\ log'[u][i] = log[u][i]
          \/ log'[u][i] = e
      BY <2>1, <2>2
    <3> QED BY <1>4, <3>1 DEF FreshInv, KnownIds
  <2> QED BY <1>4, <2>2 DEF FreshInv, KnownIds
<1>5. ASSUME NEW t \in Topics, NEW r \in Rides, NEW d \in Drivers \cup {None},
             PublishNew(t, r, d), UNCHANGED <<position, processed, faults>>
      PROVE  FreshInv'
  <2>1. Payload(r, d) \in EnvelopeSet /\ Payload(r, d).eventId = events + 1
    BY <1>T DEF Payload, EnvelopeSet
  <2> QED BY <1>3, <1>5, <2>1 DEF PublishNew
<1>6. ASSUME NEW t \in Topics, NEW i \in 1 .. Len(log[t]), Duplicate(t, i) PROVE FreshInv'
  <2>1. log[t] \in Seq(EnvelopeSet)
    BY <1>T
  <2>2. log[t][i] \in EnvelopeSet /\ log[t][i].eventId <= events
    BY <2>1, ElementOfSeq, LenProperties DEF FreshInv, KnownIds
  <2>3. SendTo(t, log[t][i]) /\ UNCHANGED <<events, processed>> /\ faults' # 0
    BY <1>T, <1>6 DEF Duplicate, dbVars
  <2> QED BY <1>4, <2>2, <2>3
<1>7. CASE HttpNext
  <2>1. UNCHANGED <<log, processed, events, position>> /\ (faults' = faults \/ faults' = faults + 1)
    BY <1>7, HttpRecordsNothing, HttpKeepsDrivers DEF consumerVars
  <2> QED BY <1>1, <1>T, <2>1
<1>8. CASE HandlerNext
  <2>1. UNCHANGED <<log, events>> /\ (faults' = faults \/ faults' # 0)
    BY <1>T, <1>8, HandlerOffsets
  <2>2. \/ handling # NoTopic /\ CommitEvent
        \/ UNCHANGED processed /\ \A t \in Topics : position'[t] >= position[t]
    BY <1>8, HandlerOffsets
  <2> QED BY <1>1, <1>2, <2>1, <2>2
<1>9. ASSUME NEW t \in Topics, Take(t) PROVE FreshInv'
  <2>1. UNCHANGED <<log, processed, events, position, faults>>
    BY <1>9 DEF Take, Fetch, dbVars, consumerFrame
  <2> QED BY <1>1, <1>T, <2>1
<1>10. CASE Commit
  <2>1. UNCHANGED <<log, processed, events, position, faults>>
    BY <1>10 DEF Commit, AutoCommit, dbVars, consumerFrame
  <2> QED BY <1>1, <1>T, <2>1
<1>11. CASE HandlerFault \/ ParkFault \/ Restart
  <2>1. UNCHANGED <<log, processed, events>> /\ faults' = faults + 1
    BY <1>11 DEF HandlerFault, ParkFault, Restart, Throw, HandlerThrows, Redeliver,
                 ConsumerRestart, dbVars
  <2> QED BY <1>1, <1>T, <2>1
<1>12. CASE PublishNext
  <2>1. ASSUME NEW d \in Drivers, DispatchMarksReserved(d) PROVE FreshInv'
    <3>1. UNCHANGED <<log, processed, events, position, faults>>
      BY <2>1 DEF DispatchMarksReserved, publishFrame, dbVars, consumerVars
    <3> QED BY <1>1, <1>T, <3>1
  <2>2. ASSUME NEW r \in Rides, NEW d \in Drivers, DispatchReserves(r, d) PROVE FreshInv'
    BY <1>5, <2>2, TripAssumption DEF DispatchReserves, publishFrame, dbVars, consumerVars
  <2>3. ASSUME NEW r \in Rides, RequestRide(r) \/ RequestCancel(r) \/ DispatchRejects(r)
        PROVE  FreshInv'
    BY <1>5, <2>3, TripAssumption
    DEF RequestRide, RequestCancel, DispatchRejects, publishFrame, dbVars, consumerVars
  <2> QED BY <1>12, <2>1, <2>2, <2>3 DEF PublishNext
<1>13. CASE UNCHANGED vars
  BY <1>1, <1>T, <1>13 DEF vars, consumerVars
<1> QED BY <1>6, <1>7, <1>8, <1>9, <1>10, <1>11, <1>12, <1>13 DEF Next, FaultNext

LEMMA FreshInit == Init => FreshInv
BY DEF Init, ConsumerInit, FreshInv, KnownIds, OneEach, NotYet

-----------------------------------------------------------------------------
\* A driver shown RESERVED is on the way to a rider, or something says why
\* not.  The PATCH that frees the driver of a ride comes before the commit
\* that cancels the ride, so while a handler is between the two that ride
\* explains nothing any more: ReservedIsExplained is not inductive without it.

Freed(r) == stage = "synced" /\ Envelope.rideId = r
OnTheWay(d) == \E r \in Rides : Assigned(r, d) /\ ~Freed(r)
Reporting(d) == \E c \in Calls : call[c].pc = "sync" /\ call[c].driver = d
Promised(d) == \E m \in Members : work[m].won = d /\ work[m].pc \in {"sync", "publish"}

Seen(d) == OnTheWay(d) \/ Reporting(d) \/ AnswerPending(d)

ExplainedInv ==
    faults + dFaults = 0 => \A d \in Drivers : mirror[d] = "RESERVED" => Promised(d) \/ Seen(d)

\* An update leaves its ride assigned, or a PATCH to do.
LEMMA UpdateExplains ==
    ASSUME TypeOK, NEW c \in Calls, call[c].pc = "write", NEW row \in Rows, Update(c, row),
           row.driver = ride[call[c].ride].driver,
           call[c].op \in {"accept", "arrived"} => row.status \notin {"COMPLETED", "CANCELLED"},
           NEW d \in Drivers, OnTheWay(d) \/ Reporting(d)
    PROVE  OnTheWay(d)' \/ Reporting(d)'
<1> DEFINE next == IF call[c].op \in {"accept", "arrived"} \/ row.driver = None
                   THEN IdleCall ELSE [call[c] EXCEPT !.pc = "sync", !.driver = row.driver]
<1>1. /\ ride \in [Rides -> Rows] /\ call \in [Calls -> CallStates] /\ d # None
      /\ call[c].ride \in Rides
  BY TripAssumption DEF TypeOK
<1>2. /\ ride' = [ride EXCEPT ![call[c].ride] = row] /\ UNCHANGED <<stage, Envelope>>
      /\ call' = [call EXCEPT ![c] = next]
      /\ ~Freed(call[c].ride)
  BY DEF Update, Write, httpFrame, consumerVars, Envelope, Offset, RowLocked, Freed
<1>3. call[c].op \notin {"accept", "arrived"} /\ row.driver # None =>
        next.pc = "sync" /\ next.driver = row.driver
  BY <1>1 DEF CallStates
<1> HIDE DEF next
<1>4. ASSUME Reporting(d) PROVE Reporting(d)'
  BY <1>1, <1>2, <1>4 DEF Reporting
<1>5. ASSUME NEW r \in Rides, Assigned(r, d), ~Freed(r) PROVE OnTheWay(d)' \/ Reporting(d)'
  <2>1. CASE r # call[c].ride
    <3>1. ride'[r] = ride[r]
      BY <1>1, <1>2, <2>1
    <3>2. Assigned(r, d)' /\ ~Freed(r)'
      BY <1>2, <1>5, <3>1 DEF Assigned, Freed
    <3> QED BY <3>2 DEF OnTheWay
  <2>2. CASE r = call[c].ride /\ call[c].op \in {"accept", "arrived"}
    <3>1. ride'[r] = row
      BY <1>1, <1>2, <2>2
    <3>2. Assigned(r, d)' /\ ~Freed(r)'
      BY <1>2, <1>5, <2>2, <3>1 DEF Assigned, Freed
    <3> QED BY <3>2 DEF OnTheWay
  <2>3. CASE r = call[c].ride /\ call[c].op \notin {"accept", "arrived"}
    <3>1. call'[c] = next /\ row.driver = d
      BY <1>1, <1>2, <1>5, <2>3 DEF Assigned
    <3> QED BY <1>1, <1>3, <2>3, <3>1 DEF Reporting
  <2> QED BY <2>1, <2>2, <2>3
<1> QED BY <1>4, <1>5 DEF OnTheWay

\* A call that is not yet to tell Driver Service steps: nothing is lost.
LEMMA CallExplains ==
    ASSUME NEW c \in Calls, call[c].pc # "sync", NEW next, call' = [call EXCEPT ![c] = next],
           UNCHANGED ride, httpFrame, NEW d \in Drivers, OnTheWay(d) \/ Reporting(d)
    PROVE  OnTheWay(d)' \/ Reporting(d)'
<1>1. UNCHANGED <<stage, Envelope>>
  BY DEF httpFrame, consumerVars, Envelope, Offset
<1>2. ASSUME NEW r \in Rides, Assigned(r, d), ~Freed(r) PROVE Assigned(r, d)' /\ ~Freed(r)'
  BY <1>1, <1>2 DEF Assigned, Freed
<1>3. ASSUME NEW x \in Calls, call[x].pc = "sync" PROVE call'[x] = call[x]
  BY <1>3
<1> QED BY <1>2, <1>3 DEF OnTheWay, Reporting

LEMMA HttpExplains ==
    ASSUME TypeOK, HttpNext, faults' = 0, NEW d \in Drivers, mirror'[d] = "RESERVED"
    PROVE  mirror[d] = "RESERVED" /\ (Seen(d) => Seen(d)')
<1>T. /\ ride \in [Rides -> Rows] /\ call \in [Calls -> CallStates]
      /\ mirror \in [Drivers -> DriverStatus] /\ faults \in Nat
      /\ \A x \in Calls : call[x].pc # "idle" => call[x].ride \in Rides
  BY DEF TypeOK
<1>1. AnswerPending(d) => AnswerPending(d)'
  BY HttpKeepsDrivers DEF AnswerPending, consumerVars
<1>2. ASSUME UNCHANGED mirror, OnTheWay(d) \/ Reporting(d) => OnTheWay(d)' \/ Reporting(d)'
      PROVE  mirror[d] = "RESERVED" /\ (Seen(d) => Seen(d)')
  BY <1>1, <1>2 DEF Seen
<1> PICK c \in Calls :
        \/ \E op \in Operations, r \in Rides : Begin(c, op, r)
        \/ \E r \in Rides, by \in Drivers \cup {None}, otp \in Otps : BeginStart(c, r, by, otp)
        \/ CheckOtp(c)
        \/ \E otp \in Otps : Accept(c, otp)
        \/ MarkDriverArrived(c)
        \/ Start(c)
        \/ Complete(c)
        \/ Cancel(c)
        \/ SyncDriver(c)
  BY DEF HttpNext
<1>3. ASSUME NEW next, call[c].pc # "sync", call' = [call EXCEPT ![c] = next],
             UNCHANGED <<ride, mirror>>, httpFrame
      PROVE  mirror[d] = "RESERVED" /\ (Seen(d) => Seen(d)')
  BY <1>2, <1>3, CallExplains
<1>4. ASSUME NEW row, Update(c, row), call[c].pc = "write", row \in Rows,
             row.driver = ride[call[c].ride].driver,
             call[c].op \in {"accept", "arrived"} => row.status \notin {"COMPLETED", "CANCELLED"}
      PROVE  mirror[d] = "RESERVED" /\ (Seen(d) => Seen(d)')
  BY <1>2, <1>4, UpdateExplains DEF Update
<1>5. ASSUME NEW op \in Operations, NEW r \in Rides, Begin(c, op, r)
      PROVE  mirror[d] = "RESERVED" /\ (Seen(d) => Seen(d)')
  BY <1>3, <1>5 DEF Begin
<1>6. ASSUME NEW r \in Rides, NEW by \in Drivers \cup {None}, NEW otp \in Otps, BeginStart(c, r, by, otp)
      PROVE  mirror[d] = "RESERVED" /\ (Seen(d) => Seen(d)')
  BY <1>3, <1>6 DEF BeginStart
<1>7. CASE CheckOtp(c)
  <2>1. PICK next : call' = [call EXCEPT ![c] = next]
    BY <1>7 DEF CheckOtp
  <2> QED BY <1>3, <1>7, <2>1 DEF CheckOtp
<1>8. ASSUME NEW otp \in Otps, Accept(c, otp) PROVE mirror[d] = "RESERVED" /\ (Seen(d) => Seen(d)')
  <2> DEFINE row == [Row(c) EXCEPT !.status = "DRIVER_ARRIVING", !.otp = otp]
  <2>1. Row(c) \in Rows /\ Row(c) = ride[call[c].ride]
    BY <1>8, <1>T DEF Accept, Writing, Row
  <2>2. /\ row.driver = Row(c).driver /\ row.status \notin {"COMPLETED", "CANCELLED"}
        /\ row \in Rows
    BY <2>1 DEF Rows, RideStatus
  <2>3. Update(c, row) /\ call[c].pc = "write"
    BY <1>8 DEF Accept, Writing
  <2> HIDE DEF row
  <2> QED BY <1>4, <2>1, <2>2, <2>3
<1>9. ASSUME NEW s \in {"DRIVER_ARRIVED", "COMPLETED", "CANCELLED"},
             Update(c, [Row(c) EXCEPT !.status = s]), call[c].pc = "write",
             s # "DRIVER_ARRIVED" => call[c].op \in {"complete", "cancel"}
      PROVE  mirror[d] = "RESERVED" /\ (Seen(d) => Seen(d)')
  <2> DEFINE row == [Row(c) EXCEPT !.status = s]
  <2>1. Row(c) \in Rows /\ Row(c) = ride[call[c].ride]
    BY <1>9, <1>T DEF Row
  <2>2. row.driver = Row(c).driver /\ row.status = s /\ row \in Rows
    BY <2>1 DEF Rows, RideStatus
  <2>3. Update(c, row)
    BY <1>9
  <2> HIDE DEF row
  <2> QED BY <1>4, <1>9, <2>1, <2>2, <2>3
<1>10. CASE MarkDriverArrived(c) \/ Complete(c) \/ Cancel(c)
  BY <1>9, <1>10 DEF MarkDriverArrived, Complete, Cancel, Writing
<1>11. CASE Start(c)
  <2> DEFINE row == [Row(c) EXCEPT !.status = "IN_PROGRESS", !.otp = None]
  <2>1. Row(c) \in Rows /\ Row(c) = ride[call[c].ride]
    BY <1>11, <1>T DEF Start, Writing, Row
  <2>2. row.driver = Row(c).driver /\ row \in Rows
    BY <2>1 DEF Rows, RideStatus
  <2>3. Update(c, row) /\ call[c].pc = "write" /\ call[c].op = "start"
    BY <1>11 DEF Start, Writing
  <2> HIDE DEF row
  <2> QED BY <1>4, <2>1, <2>2, <2>3
<1>12. CASE SyncDriver(c)
  <2> DEFINE status == IF call[c].op = "start" THEN "ON_TRIP" ELSE "AVAILABLE"
  <2>1. PatchDriver(call[c].driver, status) /\ status \in {"ON_TRIP", "AVAILABLE"}
    BY <1>12 DEF SyncDriver
  <2> HIDE DEF status
  <2>2. mirror' = IF canTransitionDriverStatus(mirror[call[c].driver], status)
                  THEN [mirror EXCEPT ![call[c].driver] = status] ELSE mirror
    BY <1>T, <2>1 DEF PatchDriver
  <2>3. mirror[d] = "RESERVED" /\ d # call[c].driver
    BY <1>T, <2>1, <2>2 DEF canTransitionDriverStatus, DriverTransitions
  <2>4. UNCHANGED <<ride, stage, Envelope>> /\ \A x \in Calls : x # c => call'[x] = call[x]
    BY <1>T, <1>12 DEF SyncDriver, httpFrame, consumerVars, Envelope, Offset
  <2>5. OnTheWay(d) => OnTheWay(d)'
    BY <2>4 DEF OnTheWay, Assigned, Freed
  <2>6. Reporting(d) => Reporting(d)'
    BY <2>3, <2>4 DEF Reporting
  <2> QED BY <1>1, <2>3, <2>5, <2>6 DEF Seen
<1> QED BY <1>5, <1>6, <1>7, <1>8, <1>10, <1>11, <1>12

\* The offsets of another topic are left alone; a message given up is parked.
LEMMA ThrowExplains ==
    ASSUME TypeOK, HandlerThrows, NEW d, AnswerPending(d)
    PROVE  AnswerPending(d)'
<1>1. PICK i \in DOMAIN log[ReservedTopic] :
        /\ log[ReservedTopic][i].driverId = d
        /\ i > position[ReservedTopic] \/ <<ReservedTopic, i>> \in dlt
  BY DEF AnswerPending, ReservedTopic
<1>2. position \in [Topics -> Nat] /\ ReservedTopic \in Topics /\ i \in Nat /\ UNCHANGED log
  BY <1>1, TripAssumption, LenProperties DEF TypeOK, ConsumerTypeOK, ReservedTopic, HandlerThrows
<1>3. i > position'[ReservedTopic] \/ <<ReservedTopic, i>> \in dlt'
  <2>1. CASE UNCHANGED <<position, dlt>>
    BY <1>1, <2>1
  <2>2. CASE /\ dlt' = dlt \cup {<<handling, Offset>>}
             /\ position' = [position EXCEPT ![handling] = @ + 1]
    <3>1. CASE handling = ReservedTopic
      BY <1>1, <1>2, <2>2, <3>1 DEF Offset
    <3>2. CASE handling # ReservedTopic
      BY <1>1, <1>2, <2>2, <3>2
    <3> QED BY <3>1, <3>2
  <2> QED BY <2>1, <2>2 DEF HandlerThrows, Resolve
<1> QED BY <1>1, <1>2, <1>3 DEF AnswerPending, ReservedTopic

LEMMA ReturnExplains ==
    ASSUME TypeOK, HandlerReturns, NEW d, AnswerPending(d)
    PROVE  \/ AnswerPending(d)'
           \/ handling = ReservedTopic /\ Envelope.driverId = d
<1>1. PICK i \in DOMAIN log[ReservedTopic] :
        /\ log[ReservedTopic][i].driverId = d
        /\ i > position[ReservedTopic] \/ <<ReservedTopic, i>> \in dlt
  BY DEF AnswerPending, ReservedTopic
<1>2. /\ position \in [Topics -> Nat] /\ ReservedTopic \in Topics /\ i \in Nat
      /\ UNCHANGED <<log, dlt>> /\ position' = [position EXCEPT ![handling] = @ + 1]
  BY <1>1, TripAssumption, LenProperties
  DEF TypeOK, ConsumerTypeOK, ReservedTopic, HandlerReturns, Resolve
<1>3. CASE handling = ReservedTopic /\ i = Offset
  BY <1>1, <1>3 DEF Envelope
<1>4. CASE handling # ReservedTopic \/ i # Offset
  <2>1. i > position'[ReservedTopic] \/ <<ReservedTopic, i>> \in dlt'
    BY <1>1, <1>2, <1>4 DEF Offset
  <2> QED BY <1>1, <1>2, <2>1 DEF AnswerPending, ReservedTopic
<1> QED BY <1>3, <1>4

\* A handler's step that leaves the table alone.
LEMMA TableExplains ==
    ASSUME UNCHANGED ride, stage' # "synced", NEW d, OnTheWay(d)
    PROVE  OnTheWay(d)'
BY DEF OnTheWay, Assigned, Freed

\* One row is written, of a ride that had no driver or had its driver freed.
LEMMA RowExplains ==
    ASSUME TypeOK, NEW r \in Rides, NEW row, ride' = [ride EXCEPT ![r] = row],
           ride[r].driver = None \/ Freed(r), stage' # "synced", NEW d \in Drivers, OnTheWay(d)
    PROVE  OnTheWay(d)'
<1>1. PICK x \in Rides : Assigned(x, d) /\ ~Freed(x)
  BY DEF OnTheWay
<1>2. x # r
  BY <1>1, TripAssumption DEF Assigned
<1>3. Assigned(x, d)' /\ ~Freed(x)'
  BY <1>1, <1>2 DEF Assigned, Freed, TypeOK
<1> QED BY <1>3 DEF OnTheWay

LEMMA HandlerExplains ==
    ASSUME DriverInv, OnceInv, FreshInv, HandlerNext, faults' = 0,
           NEW d \in Drivers, mirror'[d] = "RESERVED"
    PROVE  mirror[d] = "RESERVED" /\ (Seen(d) => Seen(d)')
<1>T. /\ TypeOK /\ ride \in [Rides -> Rows] /\ mirror \in [Drivers -> DriverStatus]
      /\ faults \in Nat /\ d # None
  BY TripAssumption DEF DriverInv, TypeOK
<1>C. UNCHANGED <<log, call>> /\ faults = 0
  BY <1>T, HandlerOffsets
<1>R. Reporting(d) => Reporting(d)'
  BY <1>C DEF Reporting
<1>G. ASSUME UNCHANGED mirror, OnTheWay(d) => Seen(d)', AnswerPending(d) => Seen(d)'
      PROVE  mirror[d] = "RESERVED" /\ (Seen(d) => Seen(d)')
  BY <1>R, <1>G DEF Seen
<1>1. ASSUME handling # ReservedTopic, ReturnUnchanged
      PROVE  mirror[d] = "RESERVED" /\ (Seen(d) => Seen(d)')
  <2>1. UNCHANGED <<ride, mirror>> /\ stage' = "idle" /\ HandlerReturns
    BY <1>1 DEF ReturnUnchanged, dbVars
  <2> QED BY <1>1, <1>G, <1>T, <2>1, ReturnExplains, TableExplains DEF Seen
<1>2. ASSUME Throw PROVE mirror[d] = "RESERVED" /\ (Seen(d) => Seen(d)')
  <2>1. UNCHANGED <<ride, mirror>> /\ stage' = "idle" /\ HandlerThrows
    BY <1>2 DEF Throw, dbVars
  <2> QED BY <1>G, <1>T, <2>1, ThrowExplains, TableExplains DEF Seen
<1>3. ASSUME UNCHANGED <<consumerVars, ride, mirror>>, stage' # "synced"
      PROVE  mirror[d] = "RESERVED" /\ (Seen(d) => Seen(d)')
  <2>1. AnswerPending(d) => AnswerPending(d)'
    BY <1>3, <1>C DEF AnswerPending, consumerVars
  <2> QED BY <1>3, <1>G, <2>1, TableExplains DEF Seen
<1>4. CASE HandleRideRequested
  <2>1. handling = "ride.requested" /\ handling # ReservedTopic /\ handling # NoTopic
    BY <1>4, ConsumerAssumption, TripAssumption DEF HandleRideRequested, Handling, ReservedTopic
  <2>2. CASE ReturnUnchanged
    BY <1>1, <2>1, <2>2
  <2>3. CASE /\ ~Exists(Envelope.rideId) /\ CommitEvent /\ UNCHANGED mirror
             /\ ride' = [ride EXCEPT ![Envelope.rideId].status = "MATCHING"]
    <3>1. Envelope.rideId \in Rides /\ ride[Envelope.rideId].driver = None
      BY <1>T, <2>1, <2>3, EnvelopeTyped DEF DriverInv, UnmatchedHasNoDriver, Exists
    <3>2. stage' = "idle" /\ HandlerReturns
      BY <2>3 DEF CommitEvent
    <3> QED BY <1>G, <1>T, <2>1, <2>3, <3>1, <3>2, RowExplains, ReturnExplains DEF Seen
  <2> QED BY <1>4, <2>2, <2>3 DEF HandleRideRequested
<1>5. CASE BeginCancelEvent
  <2>1. handling # ReservedTopic
    BY <1>5 DEF BeginCancelEvent, Handling, ReservedTopic
  <2> QED BY <1>1, <1>2, <1>3, <1>5, <2>1 DEF BeginCancelEvent, dbVars
<1>6. CASE LockRow
  BY <1>3, <1>6 DEF LockRow, dbVars
<1>7. CASE SyncBeforeCommit
  <2>1. /\ UNCHANGED <<log, consumerVars, ride>> /\ stage' = "synced"
        /\ stage = "updated" /\ UNCHANGED Envelope
    BY <1>7 DEF SyncBeforeCommit, dbVars, consumerVars, Envelope, Offset
  <2>2. PICK x : x = ride[Envelope.rideId].driver
    OBVIOUS
  <2>3. mirror' = IF canTransitionDriverStatus(mirror[x], "AVAILABLE")
                  THEN [mirror EXCEPT ![x] = "AVAILABLE"] ELSE mirror
    BY <1>7, <1>T, <1>C, <2>2 DEF SyncBeforeCommit, PatchDriver
  <2>4. mirror[d] = "RESERVED" /\ d # x
    BY <1>T, <2>3 DEF canTransitionDriverStatus, DriverTransitions
  <2>5. ASSUME NEW r \in Rides, Assigned(r, d) PROVE Assigned(r, d)' /\ ~Freed(r)'
    BY <2>1, <2>2, <2>4, <2>5 DEF Assigned, Freed
  <2>6. AnswerPending(d) => AnswerPending(d)'
    BY <2>1 DEF AnswerPending, consumerVars
  <2> QED BY <1>R, <2>4, <2>5, <2>6 DEF Seen, OnTheWay
<1>8. CASE CommitCancelEvent
  <2>1. /\ stage # "idle" /\ stage \in {"updated", "synced"} /\ stage' = "idle"
        /\ HandlerReturns /\ handling # NoTopic /\ UNCHANGED mirror
    BY <1>8 DEF CommitCancelEvent, CommitEvent, HandlerReturns
  <2>2. handling # ReservedTopic
    BY <2>1 DEF OnceInv, EventIsFresh, ReservedTopic
  <2>3. PICK r \in Rides : r = Envelope.rideId
    BY <1>T, <2>1, EnvelopeTyped
  <2>4. ride[r].driver = None \/ Freed(r)
    BY <1>8, <2>3 DEF CommitCancelEvent, Freed
  <2>5. PICK row : ride' = [ride EXCEPT ![r] = row]
    BY <1>8, <2>3 DEF CommitCancelEvent, Write
  <2> QED BY <1>G, <1>T, <2>1, <2>2, <2>4, <2>5, RowExplains, ReturnExplains DEF Seen
<1>9. CASE BeginDriverReserved
  BY <1>2, <1>3, <1>9 DEF BeginDriverReserved, dbVars
<1>10. CASE CommitDriverReserved
  <2>1. stage = "guarded" /\ handling = ReservedTopic /\ handling # NoTopic
    BY <1>10, ConsumerAssumption, TripAssumption DEF CommitDriverReserved, Handling, ReservedTopic
  <2>2. Envelope.eventId \notin processed
    <3>1. Offset \in DOMAIN log[ReservedTopic] /\ ReservedTopic \in Topics
      <4>1. ReservedTopic \in Topics /\ log[ReservedTopic] \in Seq(EnvelopeSet)
        BY <1>T, <2>1, EnvelopeTyped DEF TypeOK, ConsumerTypeOK
      <4> QED BY <1>T, <2>1, <4>1, EnvelopeTyped, LenProperties
    <3>2. Offset > position[ReservedTopic]
      BY <1>T, <2>1, <3>1 DEF Offset, TypeOK, ConsumerTypeOK
    <3> QED BY <1>C, <2>1, <3>1, <3>2 DEF FreshInv, NotYet, Envelope
  <2>3. PICK r \in Rides : r = Envelope.rideId
    BY <1>T, <2>1, EnvelopeTyped
  <2>4. ride[r].driver = None
    BY <2>1, <2>3 DEF DriverInv, MatchIsFirst, ReservedTopic
  <2> DEFINE row == [ride[r] EXCEPT !.status = "MATCHED", !.driver = Envelope.driverId]
  <2>5. row.driver = Envelope.driverId /\ row.status = "MATCHED"
    BY <1>T DEF Rows
  <2>6. /\ ride' = [ride EXCEPT ![r] = row] /\ UNCHANGED mirror
        /\ HandlerReturns /\ stage' = "idle"
    BY <1>10, <2>2, <2>3 DEF CommitDriverReserved, Write, CommitEvent
  <2> HIDE DEF row
  <2>7. ASSUME Envelope.driverId = d PROVE OnTheWay(d)'
    <3>1. ride'[r] = row
      BY <1>T, <2>6
    <3>2. Assigned(r, d)' /\ ~Freed(r)'
      BY <2>5, <2>6, <2>7, <3>1 DEF Assigned, Freed
    <3> QED BY <3>2 DEF OnTheWay
  <2>8. AnswerPending(d) => Seen(d)'
    BY <1>T, <2>6, <2>7, ReturnExplains DEF Seen
  <2>9. OnTheWay(d) => Seen(d)'
    BY <1>T, <2>4, <2>6, RowExplains DEF Seen
  <2> QED BY <1>G, <2>6, <2>8, <2>9
<1> QED BY <1>4, <1>5, <1>6, <1>7, <1>8, <1>9, <1>10 DEF HandlerNext

\* A message more, on whatever topic, explains what was explained before.
LEMMA SendExplains ==
    ASSUME TypeOK, NEW t \in Topics, NEW e \in EnvelopeSet, SendTo(t, e),
           UNCHANGED <<consumerVars, ride, call, stage>>, NEW d, Seen(d)
    PROVE  Seen(d)'
<1>1. ASSUME OnTheWay(d) PROVE OnTheWay(d)'
  <2>1. PICK r \in Rides : Assigned(r, d) /\ ~Freed(r)
    BY <1>1 DEF OnTheWay
  <2>2. stage = "synced" => UNCHANGED Envelope
    BY EnvelopeKept DEF TypeOK
  <2>3. Assigned(r, d)' /\ ~Freed(r)'
    BY <2>1, <2>2 DEF Assigned, Freed
  <2> QED BY <2>3 DEF OnTheWay
<1>2. ASSUME AnswerPending(d) PROVE AnswerPending(d)'
  <2>1. PICK i \in DOMAIN log[ReservedTopic] :
          /\ log[ReservedTopic][i].driverId = d
          /\ i > position[ReservedTopic] \/ <<ReservedTopic, i>> \in dlt
    BY <1>2 DEF AnswerPending, ReservedTopic
  <2>2. i \in DOMAIN log'[ReservedTopic] /\ log'[ReservedTopic][i] = log[ReservedTopic][i]
    <3>1. CASE t = ReservedTopic
      <4>1. /\ DOMAIN log[t] = 1 .. Len(log[t]) /\ Len(log[t]) \in Nat
            /\ DOMAIN log'[t] = 1 .. Len(log[t]) + 1
            /\ \A j \in DOMAIN log[t] : log'[t][j] = log[t][j]
        BY LogAppended
      <4> QED BY <2>1, <3>1, <4>1
    <3>2. CASE t # ReservedTopic
      BY <2>1, <3>2, LogAppended, TripAssumption DEF ReservedTopic
    <3> QED BY <3>1, <3>2
  <2> QED BY <2>1, <2>2 DEF AnswerPending, ReservedTopic, consumerVars
<1>3. Reporting(d) => Reporting(d)'
  BY DEF Reporting
<1> QED BY <1>1, <1>2, <1>3 DEF Seen

\* A driver just promised to a ride is seen from now on.
LEMMA PublishExplains ==
    ASSUME TypeOK, NEW t \in Topics, NEW r \in Rides, NEW x \in Drivers \cup {None},
           PublishNew(t, r, x), UNCHANGED <<consumerVars, ride, call, stage>>, NEW d
    PROVE  /\ Seen(d) => Seen(d)'
           /\ t = ReservedTopic /\ x = d => Seen(d)'
<1>1. PICK e \in EnvelopeSet : e.driverId = x /\ SendTo(t, e)
  <2>1. Payload(r, x) \in EnvelopeSet /\ Payload(r, x).driverId = x
    BY DEF Payload, EnvelopeSet, TypeOK
  <2> QED BY <2>1 DEF PublishNew
<1>2. Seen(d) => Seen(d)'
  BY <1>1, SendExplains
<1>3. ASSUME t = ReservedTopic, x = d PROVE AnswerPending(d)'
  <2>1. /\ Len(log[t]) \in Nat /\ DOMAIN log'[t] = 1 .. Len(log[t]) + 1
        /\ log'[t][Len(log[t]) + 1] = e
    BY <1>1, LogAppended
  <2>2. position'[t] <= Len(log[t]) /\ position'[t] \in Nat
    BY DEF TypeOK, ConsumerTypeOK, OffsetsOK, consumerVars
  <2> QED BY <1>1, <1>3, <2>1, <2>2 DEF AnswerPending, ReservedTopic
<1> QED BY <1>2, <1>3 DEF Seen

\* Of Trip Service alone.
LEMMA TripAloneExplains ==
    ASSUME DriverInv, OnceInv, FreshInv, TripAlone, faults' = 0,
           NEW d \in Drivers, mirror'[d] = "RESERVED"
    PROVE  mirror[d] = "RESERVED" /\ (Seen(d) => Seen(d)')
<1>T. TypeOK /\ faults \in Nat
  BY DEF DriverInv, TypeOK
<1>1. ASSUME NEW t \in Topics, Take(t) PROVE mirror[d] = "RESERVED" /\ (Seen(d) => Seen(d)')
  <2>1. stage = "idle" /\ UNCHANGED <<stage, ride, call, mirror, log, position, dlt>>
    BY <1>1, <1>T DEF Take, Fetch, TypeOK, dbVars, consumerFrame
  <2> QED BY <2>1 DEF Seen, OnTheWay, Assigned, Freed, Reporting, AnswerPending
<1>2. CASE TripTrouble
  <2>1. ~(HandlerFault \/ ParkFault \/ Restart)
    BY <1>T DEF HandlerFault, ParkFault, Restart
  <2>2. ASSUME NEW t \in Topics \ {"ride.requested"}, NEW i \in 1 .. Len(log[t])
        PROVE  ~Duplicate(t, i)
    BY <1>T DEF Duplicate
  <2>3. ASSUME NEW r \in Rides, RequestCancel(r)
        PROVE  mirror[d] = "RESERVED" /\ (Seen(d) => Seen(d)')
    <3>1. /\ PublishNew("ride.cancelled", r, None) /\ UNCHANGED mirror
          /\ UNCHANGED <<consumerVars, ride, call, stage>>
      BY <2>3 DEF RequestCancel, publishFrame, dbVars
    <3> QED BY <1>T, <3>1, PublishExplains, TripAssumption
  <2> QED BY <1>2, <2>1, <2>2, <2>3 DEF TripTrouble
<1> QED BY <1>1, <1>2, <1>T, HttpExplains, HandlerExplains DEF TripAlone

LEMMA TripAloneFaults == TripAlone /\ TypeOK => faults' \in {faults, faults + 1}
BY HttpRecordsNothing, HandlerOffsets
DEF TripAlone, TripTrouble, Take, consumerFrame, HandlerFault, ParkFault, Restart, Duplicate,
    RequestCancel

\* A member that is not yet, or no more, on the way from the reservation to
\* the answer may do what it likes with its state.
LEMMA WorkExplains ==
    ASSUME NEW m \in Members, work[m].pc \notin {"sync", "publish"},
           NEW next, work' = [work EXCEPT ![m] = next], NEW d, Promised(d)
    PROVE  Promised(d)'
<1>1. PICK n \in Members : work[n].won = d /\ work[n].pc \in {"sync", "publish"}
  BY DEF Promised
<1>2. n # m /\ work'[n] = work[n]
  BY <1>1
<1> QED BY <1>1, <1>2 DEF Promised

LEMMA ExplainedNext ==
    ASSUME DriverInv, OnceInv, FreshInv, DispatchProofs!TypeOK, DispatchProofs!TypeOK',
           ExplainedInv, [SystemNext]_systemVars
    PROVE  ExplainedInv'
<1> SUFFICES ASSUME faults' + dFaults' = 0, NEW d \in Drivers, mirror'[d] = "RESERVED"
             PROVE  Promised(d)' \/ Seen(d)'
  BY DEF ExplainedInv
<1>T. /\ TypeOK /\ faults \in Nat /\ faults' \in Nat /\ dFaults \in Nat /\ dFaults' \in Nat
      /\ mirror \in [Drivers -> DriverStatus] /\ d # None
  <2>1. TypeOK /\ TypeOK'
    BY TypeNext, SystemStepsTrip DEF DriverInv
  <2>2. MaxDFaults \in Nat /\ dFaults \in 0 .. MaxDFaults /\ dFaults' \in 0 .. MaxDFaults
    BY SystemAssumption DEF DispatchProofs!TypeOK
  <2> QED BY <2>1, <2>2, TripAssumption DEF TypeOK
<1>0. faults' = 0 /\ dFaults' = 0
  <2>1. \A a, b \in Nat : a + b = 0 => a = 0 /\ b = 0
    OBVIOUS
  <2> QED BY <1>T, <2>1
<1>W. /\ work \in [Members -> [pc : {"idle", "check", "search", "reserve", "sync", "publish", "mark"},
                              ride : Rides \cup {None}, candidates : Seq(Drivers),
                              won : Drivers \cup {None}]]
      /\ owner \in Members
  BY DEF DispatchProofs!TypeOK, DispatchProofs!WorkStates
<1>S. ASSUME faults = 0, dFaults = 0, mirror[d] = "RESERVED" PROVE Promised(d) \/ Seen(d)
  BY <1>S DEF ExplainedInv
<1>V. UNCHANGED vars => UNCHANGED <<mirror, faults>> /\ (Seen(d) => Seen(d)')
  BY DEF vars, consumerVars, Seen, OnTheWay, Assigned, Freed, Reporting, AnswerPending,
         Envelope, Offset
<1>F. /\ UNCHANGED faults => faults = 0
      /\ UNCHANGED dFaults => dFaults = 0
  BY <1>0
<1>1. CASE TripAlone
  <2>1. faults = 0 /\ UNCHANGED <<work, dFaults>>
    <3>1. faults' = faults \/ faults' = faults + 1
      BY <1>1, <1>T, TripAloneFaults
    <3>2. UNCHANGED <<work, dFaults>>
      BY <1>1 DEF TripAlone, dispatchVars
    <3> QED BY <1>0, <1>T, <3>1, <3>2
  <2>2. mirror[d] = "RESERVED" /\ (Seen(d) => Seen(d)')
    BY <1>0, <1>1, TripAloneExplains
  <2>3. Promised(d) => Promised(d)'
    BY <2>1 DEF Promised
  <2> QED BY <1>F, <1>S, <2>1, <2>2, <2>3
\* Steps that leave Trip Service alone, and explain as they did.
<1>2. ASSUME UNCHANGED vars, UNCHANGED dFaults, Promised(d) => Promised(d)'
      PROVE  Promised(d)' \/ Seen(d)'
  BY <1>2, <1>F, <1>S, <1>V
<1>3. ASSUME UNCHANGED vars, UNCHANGED dFaults,
             NEW m \in Members, work[m].pc \notin {"sync", "publish"},
             NEW next, work' = [work EXCEPT ![m] = next]
      PROVE  Promised(d)' \/ Seen(d)'
  BY <1>2, <1>3, WorkExplains
<1>4. CASE DispatchTakes
  <2>1. /\ UNCHANGED <<vars, dFaults>> /\ work[owner].pc = "idle"
        /\ \E next : work' = [work EXCEPT ![owner] = next]
    BY <1>4 DEF DispatchTakes, Dispatch!Take, Dispatch!At
  <2> QED BY <1>3, <1>W, <2>1
<1>5. ASSUME NEW m \in Members, HandlerAlone(m) PROVE Promised(d)' \/ Seen(d)'
  <2>1. UNCHANGED <<vars, dFaults>> /\ work[m].pc \in {"check", "search", "reserve", "mark"}
    BY <1>5 DEF HandlerAlone, Dispatch!CheckProcessed, Dispatch!Search, Dispatch!TryCandidate,
                Dispatch!NoCandidateLeft, Dispatch!MarkProcessed, Dispatch!At
  <2>2. \A n \in Members : n # m => work'[n] = work[n]
    BY <1>5, <1>W
    DEF HandlerAlone, Dispatch!CheckProcessed, Dispatch!Search, Dispatch!TryCandidate,
        Dispatch!NoCandidateLeft, Dispatch!MarkProcessed, Dispatch!Return, Dispatch!Goto
  <2>3. Promised(d) => Promised(d)'
    BY <2>1, <2>2 DEF Promised
  <2> QED BY <1>2, <2>1, <2>3
<1>6. ASSUME NEW m \in Members, DispatchSyncs(m) PROVE Promised(d)' \/ Seen(d)'
  <2>1. /\ work' = [work EXCEPT ![m].pc = "publish"] /\ UNCHANGED dFaults
        /\ mirror' = mirror \/ mirror' = [mirror EXCEPT ![work[m].won] = "RESERVED"]
    BY <1>6 DEF DispatchSyncs, Dispatch!SyncDriver, Dispatch!Goto, Dispatch!At
  <2>2. UNCHANGED <<log, position, consumerVars, ride, call, stage, faults>>
    BY <1>6 DEF DispatchSyncs, DispatchMarksReserved, publishFrame, vars, dbVars, consumerVars
  <2>3. work'[m].pc = "publish" /\ work'[m].won = work[m].won /\ \A n \in Members : n # m => work'[n] = work[n]
    BY <1>W, <2>1
  <2>4. CASE work[m].won = d
    BY <2>3, <2>4 DEF Promised
  <2>5. CASE work[m].won # d
    <3>1. mirror[d] = "RESERVED"
      BY <1>T, <2>1, <2>5
    <3>2. Seen(d) => Seen(d)'
      BY <2>2 DEF Seen, OnTheWay, Assigned, Freed, Reporting, AnswerPending, consumerVars,
                  Envelope, Offset
    <3>3. Promised(d) => Promised(d)'
      BY <2>3, <2>5 DEF Promised
    <3> QED BY <1>F, <1>S, <2>1, <2>2, <3>1, <3>2, <3>3
  <2> QED BY <2>4, <2>5
<1>7. ASSUME NEW m \in Members, DispatchPublishes(m) PROVE Promised(d)' \/ Seen(d)'
  <2>1. /\ \A n \in Members : n # m => work'[n] = work[n]
        /\ AnswerArrives(m) /\ UNCHANGED dFaults
    BY <1>7, <1>W DEF DispatchPublishes, Dispatch!Publish, Dispatch!Goto
  <2>2. PICK t \in Topics, r \in Rides, x \in Drivers \cup {None} :
          /\ PublishNew(t, r, x) /\ x = work[m].won
          /\ UNCHANGED <<consumerVars, ride, call, stage, mirror, faults>>
          /\ x # None => t = ReservedTopic
    <3>1. ASSUME NEW r \in Rides, work[m].won = None, DispatchRejects(r)
          PROVE  /\ PublishNew("driver.rejected", r, None)
                 /\ UNCHANGED <<consumerVars, ride, call, stage, mirror, faults>>
      BY <3>1 DEF DispatchRejects, publishFrame, dbVars
    <3>2. ASSUME NEW r \in Rides, NEW y \in Drivers, DispatchReserves(r, y)
          PROVE  /\ PublishNew(ReservedTopic, r, y)
                 /\ UNCHANGED <<consumerVars, ride, call, stage, mirror, faults>>
      BY <3>2 DEF DispatchReserves, publishFrame, dbVars, ReservedTopic
    <3>3. ReservedTopic \in Topics /\ "driver.rejected" \in Topics
      BY TripAssumption DEF ReservedTopic
    <3> QED BY <2>1, <3>1, <3>2, <3>3 DEF AnswerArrives
  <2>3. Seen(d) => Seen(d)'
    BY <1>T, <2>2, PublishExplains
  <2>4. ASSUME Promised(d) PROVE Promised(d)' \/ Seen(d)'
    <3>1. CASE work[m].won = d
      BY <1>T, <2>2, <3>1, PublishExplains
    <3>2. CASE work[m].won # d
      BY <2>1, <2>4, <3>2 DEF Promised
    <3> QED BY <3>1, <3>2
  <2> QED BY <1>F, <1>S, <2>1, <2>2, <2>3, <2>4
<1>8. ASSUME NEW m \in Members PROVE ~DispatchStepFails(m) /\ ~FaultAlone(m)
  BY <1>0, <1>T DEF DispatchStepFails, FaultAlone, Dispatch!StepFails, Dispatch!Restart,
                    Dispatch!Reassign, Dispatch!Fault
<1>9. ASSUME NEW r \in Rides, RiderRequests(r) PROVE Promised(d)' \/ Seen(d)'
  <2>1. /\ PublishNew("ride.requested", r, None)
        /\ UNCHANGED <<consumerVars, ride, call, stage, mirror, faults>>
    BY <1>9 DEF RiderRequests, RequestRide, publishFrame, dbVars
  <2>2. UNCHANGED <<work, dFaults>>
    BY <1>9 DEF RiderRequests, Dispatch!RequestRide
  <2>3. Seen(d) => Seen(d)'
    BY <1>T, <2>1, PublishExplains, TripAssumption
  <2>4. Promised(d) => Promised(d)'
    BY <2>2 DEF Promised
  <2> QED BY <1>F, <1>S, <2>1, <2>2, <2>3, <2>4
<1>10. ASSUME NEW r \in Rides, NEW i \in 1 .. Len(log["ride.requested"])
       PROVE  ~RequestDuplicated(r, i)
  BY <1>0, <1>T DEF RequestDuplicated, Duplicate
<1>11. ASSUME NEW x \in Drivers, ReservationExpires(x) PROVE Promised(d)' \/ Seen(d)'
  <2>1. UNCHANGED <<vars, work, dFaults>>
    BY <1>11 DEF ReservationExpires, Dispatch!ReservationExpires
  <2> QED BY <1>2, <2>1 DEF Promised
<1>12. CASE UNCHANGED systemVars
  <2>1. UNCHANGED <<vars, work, dFaults>>
    BY <1>12 DEF systemVars, dispatchVars
  <2> QED BY <1>2, <2>1 DEF Promised
<1> QED BY <1>1, <1>4, <1>5, <1>6, <1>7, <1>8, <1>9, <1>10, <1>11, <1>12 DEF SystemNext, HandlerStep

LEMMA ExplainedInit == SystemInit => ExplainedInv
BY DEF SystemInit, Init, ExplainedInv

\* Without faults, a driver shown RESERVED is on the way to a rider, or a call,
\* a member of Dispatch Service or a message about it is.
THEOREM ReservedAreExplained == SystemSpec => []ReservedIsExplained
<1>1. SystemSpec => [](DriverInv /\ OnceInv)
  BY SystemIsTrip, DriverInit, DriverNext, OnceInit, OnceNext, PTL DEF Spec
<1>2. SystemSpec => []FreshInv
  <2>1. SystemSpec => []TypeOK
    BY TripTypes
  <2> QED BY <2>1, SystemIsTrip, FreshInit, FreshNext, PTL DEF Spec
<1>3. DriverInv /\ OnceInv /\ FreshInv /\ DispatchProofs!TypeOK /\ DispatchProofs!TypeOK'
        /\ ExplainedInv /\ [SystemNext]_systemVars => ExplainedInv'
  BY ExplainedNext
<1>4. SystemSpec => []ExplainedInv
  BY <1>1, <1>2, <1>3, DispatchTypes, ExplainedInit, PTL DEF SystemSpec
<1>5. ExplainedInv => ReservedIsExplained
  BY DEF ExplainedInv, ReservedIsExplained, Promised, Seen, OnTheWay, Reporting
<1> QED BY <1>4, <1>5, PTL

=============================================================================
