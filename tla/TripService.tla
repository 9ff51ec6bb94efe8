----------------------------- MODULE TripService ----------------------------
(***************************************************************************)
(* Trip Service: the owner of every ride.                                  *)
(*                                                                         *)
(* Its rides table is written by two kinds of actors that interleave at    *)
(* every await: HTTP requests (accept, decline, driver-arrived, start,     *)
(* complete, cancel), and the one Kafka consumer of group "trip-service"   *)
(* (ride.requested, ride.cancelled, driver.reserved, driver.rejected).     *)
(* Both read the ride, check the transition table, and later update the    *)
(* row by its id alone; consumer handlers do so inside a transaction that  *)
(* also records the event in processed_events.                             *)
(*                                                                         *)
(* An action is what happens between two awaits.  A PATCH to Driver        *)
(* Service is one step here (DriverService's own read-check-write is the   *)
(* matter of another module).  Rider Service and Dispatch Service appear   *)
(* only as publishers.                                                     *)
(***************************************************************************)
EXTENDS ConsumerLoop, RideStates, FiniteSets

CONSTANTS
    Rides,          \* ride ids
    Drivers,        \* driver ids
    Otps,           \* pickup codes, "0000" .. "9999" in the code
    Calls,          \* HTTP requests that may be in flight together
    None,           \* SQL NULL, a missing row, an absent header
    MaxEvents,      \* bound: event ids ever published
    MaxLog,         \* bound: messages per topic, copies included
    MaxFaults       \* bound: restarts, transient failures and duplicates together

ASSUME TripAssumption ==
    /\ Topics = {"ride.requested", "ride.cancelled", "driver.reserved", "driver.rejected"}
    /\ None \notin Drivers \cup Otps \cup Rides \cup RideStatus
    /\ MaxEvents \in Nat /\ MaxLog \in Nat /\ MaxFaults \in Nat

VARIABLES
    ride,       \* table rides: ride id -> row
    trail,      \* table trip_events: ride id -> audit rows, oldest first
    processed,  \* table processed_events: the event ids of this consumer
    mirror,     \* Driver Service's status column: driver id -> status
    call,       \* the HTTP requests in flight
    stage,      \* how far the consumer's handler has come
    events,     \* how many event ids have been published
    faults      \* restarts, transient failures and duplicates so far

dbVars == <<ride, trail, processed>>
vars == <<log, consumerVars, ride, trail, processed, mirror, call, stage, events, faults>>

\* decline() is cancel() with another reason, and the reason is not modelled.
Operations == {"accept", "arrived", "start", "complete", "cancel"}

\* The status each operation asks for.
Target(op) ==
    CASE op = "accept"   -> "DRIVER_ARRIVING"
      [] op = "arrived"  -> "DRIVER_ARRIVED"
      [] op = "start"    -> "IN_PROGRESS"
      [] op = "complete" -> "COMPLETED"
      [] OTHER           -> "CANCELLED"

NoRow == [status |-> None, driver |-> None, otp |-> None]
IdleCall == [pc |-> "idle", op |-> None, ride |-> None, otp |-> None, driver |-> None]

\* What a published event carries.  An event id is a random UUID: a number
\* that was not used before.
Payload(r, d) == [eventId |-> events + 1, rideId |-> r, driverId |-> d]
EnvelopeSet == [eventId : Nat \ {0}, rideId : Rides, driverId : Drivers \cup {None}]

Init ==
    /\ ConsumerInit
    /\ ride = [r \in Rides |-> NoRow]
    /\ trail = [r \in Rides |-> << >>]
    /\ processed = {}
    /\ mirror = [d \in Drivers |-> "AVAILABLE"]
    /\ call = [c \in Calls |-> IdleCall]
    /\ stage = "idle"
    /\ events = 0
    /\ faults = 0

-----------------------------------------------------------------------------
\* TripsRepository

\* transition(): row and audit row are written in one transaction.
Write(r, row, by) ==
    /\ ride' = [ride EXCEPT ![r] = row]
    /\ trail' = [trail EXCEPT ![r] = Append(@, [to |-> row.status, by |-> by])]

Exists(r) == ride[r].status # None

\* The consumer's open transaction has updated row r and not yet committed:
\* PostgreSQL makes every other UPDATE of the row wait, and no SELECT.
RowLocked(r) == stage \in {"updated", "synced"} /\ Envelope.rideId = r

\* syncDriverStatusBestEffort(): Driver Service refuses what its table does
\* not allow, and may not be reachable; both are logged and forgotten.
PatchDriver(d, status) ==
    \/ /\ mirror' = IF canTransitionDriverStatus(mirror[d], status)
                    THEN [mirror EXCEPT ![d] = status]
                    ELSE mirror
       /\ UNCHANGED faults
    \/ /\ faults < MaxFaults
       /\ faults' = faults + 1
       /\ UNCHANGED mirror

-----------------------------------------------------------------------------
\* HTTP requests.  Each reads and checks, then awaits, then writes.

httpFrame == UNCHANGED <<log, consumerVars, processed, stage, events>>

\* Variant for the checks: the transition table is not consulted.
BeginUnguarded(c, op, r) ==
    /\ call[c].pc = "idle"
    /\ op \in Operations \ {"start"}
    /\ Exists(r)
    /\ call' = [call EXCEPT ![c] = [IdleCall EXCEPT !.pc = "write", !.op = op, !.ride = r]]
    /\ UNCHANGED <<ride, trail, mirror, faults>> /\ httpFrame

\* findById and guardTransition of accept, arrived, complete and cancel.
Begin(c, op, r) ==
    /\ call[c].pc = "idle"
    /\ op \in Operations \ {"start"}
    /\ Exists(r)
    /\ canTransitionRideStatus(ride[r].status, Target(op))
    /\ call' = [call EXCEPT ![c] = [IdleCall EXCEPT !.pc = "write", !.op = op, !.ride = r]]
    /\ UNCHANGED <<ride, trail, mirror, faults>> /\ httpFrame

\* start() checks the calling driver, when the header names one, against the
\* row it read; the OTP is read in a second query.
BeginStart(c, r, by, otp) ==
    /\ call[c].pc = "idle"
    /\ Exists(r)
    /\ canTransitionRideStatus(ride[r].status, Target("start"))
    /\ by # None => ride[r].driver = by
    /\ call' = [call EXCEPT ![c] = [IdleCall EXCEPT !.pc = "otp", !.op = "start",
                                                    !.ride = r, !.otp = otp]]
    /\ UNCHANGED <<ride, trail, mirror, faults>> /\ httpFrame

\* getOtp() and the comparison; a wrong or missing OTP ends the request.
CheckOtp(c) ==
    /\ call[c].pc = "otp"
    /\ LET stored == ride[call[c].ride].otp
       IN call' = [call EXCEPT ![c] = IF stored # None /\ stored = call[c].otp
                                      THEN [@ EXCEPT !.pc = "write", !.otp = None]
                                      ELSE IdleCall]
    /\ UNCHANGED <<ride, trail, mirror, faults>> /\ httpFrame

\* The update of a request whose checks passed: row is what it writes.
\* Start, complete and cancel go on to tell Driver Service.
Update(c, row) ==
    LET r == call[c].ride
    IN /\ ~RowLocked(r)
       /\ Write(r, row, 0)
       /\ call' = [call EXCEPT ![c] =
                     IF call[c].op \in {"accept", "arrived"} \/ row.driver = None
                     THEN IdleCall
                     ELSE [@ EXCEPT !.pc = "sync", !.driver = row.driver]]
       /\ UNCHANGED <<mirror, faults>> /\ httpFrame

Writing(c, op) == call[c].pc = "write" /\ call[c].op = op
Row(c) == ride[call[c].ride]

\* accept() mints the pickup code with the update.
Accept(c, otp) ==
    /\ Writing(c, "accept")
    /\ Update(c, [Row(c) EXCEPT !.status = "DRIVER_ARRIVING", !.otp = otp])

MarkDriverArrived(c) ==
    /\ Writing(c, "arrived")
    /\ Update(c, [Row(c) EXCEPT !.status = "DRIVER_ARRIVED"])

Start(c) ==
    /\ Writing(c, "start")
    /\ Update(c, [Row(c) EXCEPT !.status = "IN_PROGRESS", !.otp = None])

Complete(c) ==
    /\ Writing(c, "complete")
    /\ Update(c, [Row(c) EXCEPT !.status = "COMPLETED"])

\* cancel(), and decline(), which calls it.
Cancel(c) ==
    /\ Writing(c, "cancel")
    /\ Update(c, [Row(c) EXCEPT !.status = "CANCELLED"])

\* Variant for the checks: the two statuses are swapped.
SyncDriverSwapped(c) ==
    /\ call[c].pc = "sync"
    /\ PatchDriver(call[c].driver, IF call[c].op = "start" THEN "AVAILABLE" ELSE "ON_TRIP")
    /\ call' = [call EXCEPT ![c] = IdleCall]
    /\ UNCHANGED <<ride, trail>> /\ httpFrame

\* The PATCH that follows a committed update.
SyncDriver(c) ==
    /\ call[c].pc = "sync"
    /\ PatchDriver(call[c].driver, IF call[c].op = "start" THEN "ON_TRIP" ELSE "AVAILABLE")
    /\ call' = [call EXCEPT ![c] = IdleCall]
    /\ UNCHANGED <<ride, trail>> /\ httpFrame

-----------------------------------------------------------------------------
\* The Kafka consumer.  A handler that throws is tried again by the loop.

consumerFrame == UNCHANGED <<call, events, faults>>

Take(t) == Fetch(t) /\ UNCHANGED <<dbVars, mirror, stage>> /\ consumerFrame
Commit == AutoCommit /\ UNCHANGED <<dbVars, mirror, stage>> /\ consumerFrame

Handling(topics) == handling \in topics

\* The handler returns, leaving the tables as they are.
ReturnUnchanged == HandlerReturns /\ stage' = "idle" /\ UNCHANGED <<dbVars, mirror>>

\* Variant for the checks: the error is swallowed, the message resolved.
ThrowSwallowed == ReturnUnchanged

\* The handler throws: an open transaction rolls back.
Throw == HandlerThrows /\ stage' = "idle" /\ UNCHANGED <<dbVars, mirror>>

\* Variant for the checks: the work commits without its processed_events row.
CommitEventUnrecorded ==
    /\ UNCHANGED processed
    /\ HandlerReturns
    /\ stage' = "idle"

\* runIdempotent() committing: the event is recorded with the work it did.
CommitEvent ==
    /\ processed' = processed \cup {Envelope.eventId}
    /\ HandlerReturns
    /\ stage' = "idle"

\* ride.requested: the row is created and advanced in one transaction.  A
\* second insert of the event id, or of the ride id, is a unique violation:
\* runIdempotent() reports "not processed" and the handler returns.
HandleRideRequested ==
    /\ Handling({"ride.requested"})
    /\ LET r == Envelope.rideId
           entry(s) == [to |-> s, by |-> Envelope.eventId]
       IN IF Envelope.eventId \in processed \/ Exists(r)
          THEN ReturnUnchanged
          ELSE /\ ride' = [ride EXCEPT ![r].status = "MATCHING"]
               /\ trail' = [trail EXCEPT ![r] = @ \o <<entry("REQUESTED"), entry("MATCHING")>>]
               /\ CommitEvent
               /\ UNCHANGED mirror
    /\ consumerFrame

\* ride.cancelled and driver.rejected, inside runIdempotent(): the event id is
\* inserted, then cancel() reads the ride on another connection.
BeginCancelEvent ==
    /\ Handling({"ride.cancelled", "driver.rejected"})
    /\ stage = "idle"
    /\ LET r == Envelope.rideId
       IN IF Envelope.eventId \in processed THEN ReturnUnchanged
          ELSE IF Exists(r) /\ canTransitionRideStatus(ride[r].status, "CANCELLED")
          THEN /\ stage' = "guarded"
               /\ UNCHANGED <<log, consumerVars, dbVars, mirror>>
          ELSE Throw
    /\ consumerFrame

\* cancel() updates the row in the still open transaction.
LockRow ==
    /\ Handling({"ride.cancelled", "driver.rejected"})
    /\ stage = "guarded"
    /\ stage' = "updated"
    /\ UNCHANGED <<log, consumerVars, dbVars, mirror>> /\ consumerFrame

\* cancel() awaits the PATCH before the transaction commits.
SyncBeforeCommit ==
    /\ stage = "updated"
    /\ ride[Envelope.rideId].driver # None
    /\ PatchDriver(ride[Envelope.rideId].driver, "AVAILABLE")
    /\ stage' = "synced"
    /\ UNCHANGED <<log, consumerVars, dbVars, call, events>>

\* Variant for the checks: the driver of the cancelled ride is not told.
CommitCancelEventUnsynced ==
    /\ stage = "updated"
    /\ LET r == Envelope.rideId
       IN Write(r, [ride[r] EXCEPT !.status = "CANCELLED"], Envelope.eventId)
    /\ CommitEvent
    /\ UNCHANGED mirror /\ consumerFrame

CommitCancelEvent ==
    /\ stage = "synced" \/ (stage = "updated" /\ ride[Envelope.rideId].driver = None)
    /\ LET r == Envelope.rideId
       IN Write(r, [ride[r] EXCEPT !.status = "CANCELLED"], Envelope.eventId)
    /\ CommitEvent
    /\ UNCHANGED mirror /\ consumerFrame

\* Variant for the checks: the ride's status is not checked.
BeginDriverReservedUnguarded ==
    /\ Handling({"driver.reserved"})
    /\ stage = "idle"
    /\ IF Exists(Envelope.rideId)
       THEN stage' = "guarded" /\ UNCHANGED <<log, consumerVars, dbVars, mirror>>
       ELSE Throw
    /\ consumerFrame

\* Variant for the checks: a failed check returns instead of throwing.
BeginDriverReservedSilent ==
    /\ Handling({"driver.reserved"})
    /\ stage = "idle"
    /\ LET r == Envelope.rideId
       IN IF Exists(r) /\ canTransitionRideStatus(ride[r].status, "MATCHED")
          THEN /\ stage' = "guarded"
               /\ UNCHANGED <<log, consumerVars, dbVars, mirror>>
          ELSE ReturnUnchanged
    /\ consumerFrame

\* driver.reserved: the ride is read and checked before runIdempotent().
BeginDriverReserved ==
    /\ Handling({"driver.reserved"})
    /\ stage = "idle"
    /\ LET r == Envelope.rideId
       IN IF Exists(r) /\ canTransitionRideStatus(ride[r].status, "MATCHED")
          THEN /\ stage' = "guarded"
               /\ UNCHANGED <<log, consumerVars, dbVars, mirror>>
          ELSE Throw
    /\ consumerFrame

\* Variant for the checks: the driver is not stored with the match.
CommitDriverReservedNoDriver ==
    /\ Handling({"driver.reserved"})
    /\ stage = "guarded"
    /\ LET r == Envelope.rideId
       IN IF Envelope.eventId \in processed THEN ReturnUnchanged
          ELSE /\ Write(r, [ride[r] EXCEPT !.status = "MATCHED"], Envelope.eventId)
               /\ CommitEvent
               /\ UNCHANGED mirror
    /\ consumerFrame

CommitDriverReserved ==
    /\ Handling({"driver.reserved"})
    /\ stage = "guarded"
    /\ LET r == Envelope.rideId
       IN IF Envelope.eventId \in processed THEN ReturnUnchanged
          ELSE /\ Write(r, [ride[r] EXCEPT !.status = "MATCHED", !.driver = Envelope.driverId],
                        Envelope.eventId)
               /\ CommitEvent
               /\ UNCHANGED mirror
    /\ consumerFrame

-----------------------------------------------------------------------------
\* Faults

\* A query fails or the transaction times out: it rolls back, the handler
\* throws.
HandlerFault ==
    /\ faults < MaxFaults
    /\ handling # NoTopic
    /\ Throw
    /\ faults' = faults + 1
    /\ UNCHANGED <<call, events>>

\* parkOnDlq fails after the last attempt threw.
ParkFault ==
    /\ faults < MaxFaults
    /\ handling # NoTopic
    /\ attempt = MaxAttempts
    /\ Redeliver
    /\ stage' = "idle"
    /\ faults' = faults + 1
    /\ UNCHANGED <<dbVars, mirror, call, events>>

\* The pod is killed: its requests and its open transaction are gone.
Restart ==
    /\ faults < MaxFaults
    /\ ConsumerRestart
    /\ stage' = "idle"
    /\ call' = [c \in Calls |-> IdleCall]
    /\ faults' = faults + 1
    /\ UNCHANGED <<dbVars, mirror, events>>

-----------------------------------------------------------------------------
\* Publishers

Sent(t) == { log[t][i] : i \in DOMAIN log[t] }
IsRequested(r) == \E e \in Sent("ride.requested") : e.rideId = r

PublishNew(t, r, d) ==
    /\ events < MaxEvents
    /\ Len(log[t]) < MaxLog
    /\ SendTo(t, Payload(r, d))
    /\ events' = events + 1

publishFrame == UNCHANGED <<consumerVars, dbVars, call, stage>>

\* Rider Service, create(): a fresh ride id every time.
RequestRide(r) ==
    /\ ~IsRequested(r)
    /\ PublishNew("ride.requested", r, None)
    /\ UNCHANGED <<mirror, faults>> /\ publishFrame

\* Rider Service, cancel(): published whatever the state of the ride.
RequestCancel(r) ==
    /\ IsRequested(r)
    /\ PublishNew("ride.cancelled", r, None)
    /\ UNCHANGED <<mirror, faults>> /\ publishFrame

\* Dispatch Service answers a ride.requested in its own time, perhaps more
\* than once.
DispatchReserves(r, d) ==
    /\ IsRequested(r)
    /\ PublishNew("driver.reserved", r, d)
    /\ UNCHANGED <<mirror, faults>> /\ publishFrame

DispatchRejects(r) ==
    /\ IsRequested(r)
    /\ PublishNew("driver.rejected", r, None)
    /\ UNCHANGED <<mirror, faults>> /\ publishFrame

\* Dispatch Service marks a driver it reserved, before it answers (the bound on
\* events is the one of the answer); what Driver Service refuses changes nothing.
DispatchMarksReserved(d) ==
    /\ \E r \in Rides : IsRequested(r)
    /\ events < MaxEvents
    /\ canTransitionDriverStatus(mirror[d], "RESERVED")
    /\ mirror' = [mirror EXCEPT ![d] = "RESERVED"]
    /\ UNCHANGED <<log, events, faults>> /\ publishFrame

\* A message appears again with its event id: a producer that retried a send
\* the broker had already stored, or scripts/replay-dlq.ts.
Duplicate(t, i) ==
    /\ faults < MaxFaults
    /\ Len(log[t]) < MaxLog
    /\ SendTo(t, log[t][i])
    /\ faults' = faults + 1
    /\ UNCHANGED <<consumerVars, dbVars, mirror, call, stage, events>>

-----------------------------------------------------------------------------

HttpNext ==
    \E c \in Calls :
        \/ \E op \in Operations, r \in Rides : Begin(c, op, r)
        \/ \E r \in Rides, by \in Drivers \cup {None}, otp \in Otps : BeginStart(c, r, by, otp)
        \/ CheckOtp(c)
        \/ \E otp \in Otps : Accept(c, otp)
        \/ MarkDriverArrived(c)
        \/ Start(c)
        \/ Complete(c)
        \/ Cancel(c)
        \/ SyncDriver(c)

HandlerNext ==
    \/ HandleRideRequested
    \/ BeginCancelEvent
    \/ LockRow
    \/ SyncBeforeCommit
    \/ CommitCancelEvent
    \/ BeginDriverReserved
    \/ CommitDriverReserved

FaultNext ==
    \/ HandlerFault
    \/ ParkFault
    \/ Restart
    \/ \E t \in Topics : \E i \in 1 .. Len(log[t]) : Duplicate(t, i)

PublishNext ==
    \/ \E r \in Rides : RequestRide(r) \/ RequestCancel(r) \/ DispatchRejects(r)
    \/ \E r \in Rides, d \in Drivers : DispatchReserves(r, d)
    \/ \E d \in Drivers : DispatchMarksReserved(d)

Next ==
    \/ HttpNext
    \/ \E t \in Topics : Take(t)
    \/ Commit
    \/ HandlerNext
    \/ FaultNext
    \/ PublishNext

Spec == Init /\ [][Next]_vars

\* The loop takes some message while there is one, and a handler keeps
\* running (a PostgreSQL row lock is waited for, never refused).  Nothing is
\* fair about clients, publishers, commits or faults.
Fairness ==
    /\ WF_vars(\E t \in Topics : Take(t))
    /\ WF_vars(HandlerNext)

FairSpec == Spec /\ Fairness

-----------------------------------------------------------------------------
\* Properties

Rows == [status : RideStatus \cup {None}, driver : Drivers \cup {None}, otp : Otps \cup {None}]
AuditRows == [to : RideStatus, by : Nat]
CallStates ==
    [pc : {"idle", "otp", "write", "sync"}, op : Operations \cup {None},
     ride : Rides \cup {None}, otp : Otps \cup {None}, driver : Drivers \cup {None}]

\* Types, offsets in order, a request's operation and ride while it runs, and
\* a handler's stage only while it handles.
TypeOK ==
    /\ ConsumerTypeOK(EnvelopeSet)
    /\ OffsetsOK
    /\ ride \in [Rides -> Rows]
    /\ trail \in [Rides -> Seq(AuditRows)]
    /\ processed \subseteq Nat
    /\ mirror \in [Drivers -> DriverStatus]
    /\ call \in [Calls -> CallStates]
    /\ \A c \in Calls : \/ call[c].pc = "idle"
                        \/ call[c].op \in Operations /\ call[c].ride \in Rides
    /\ stage \in {"idle", "guarded", "updated", "synced"}
    /\ handling = NoTopic => stage = "idle"
    /\ events \in Nat
    /\ faults \in Nat

Reached(r, status) == \E k \in DOMAIN trail[r] : trail[r][k].to = status

\* "Replaying the same Kafka event N times produces exactly one business side
\* effect" (TripsRepository.runIdempotent): a processed event has left its
\* audit rows, an event with audit rows is processed, and no event has acted
\* twice, through duplicates, retries, rollbacks and restarts.  A
\* ride.requested leaves two rows, the first two of its ride.
ExactlyOnce ==
    /\ \A e \in processed : \E r \in Rides : \E k \in DOMAIN trail[r] : trail[r][k].by = e
    /\ \A r \in Rides : \A k \in DOMAIN trail[r] :
         trail[r][k].by # 0 =>
           /\ trail[r][k].by \in processed
           /\ \A r2 \in Rides : \A k2 \in DOMAIN trail[r2] :
                trail[r2][k2].by = trail[r][k].by =>
                  r2 = r /\ (k2 = k \/ {k, k2} = {1, 2})

\* An event whose offset is committed took effect or is on the Dead Letter
\* Topic: neither the early returns of the handlers nor a crash loses one.
NothingDropped ==
    \A t \in Topics : \A i \in 1 .. committed[t] :
        log[t][i].eventId \in processed \/ <<t, i>> \in dlt

\* What the unlocked read-check-write of the handlers still guarantees: a
\* ride never reaches a status unless it had, at some earlier time, a status
\* from which the table allows it.  No leg of a trip is skipped.
NoLegSkipped ==
    \A r \in Rides : \A k \in DOMAIN trail[r] :
        \/ trail[r][k].to = "REQUESTED"
        \/ \E j \in 1 .. k - 1 : canTransitionRideStatus(trail[r][j].to, trail[r][k].to)

\* A ride has a driver exactly when it was matched.
DriverIffMatched ==
    \A r \in Rides : ride[r].driver # None <=> Reached(r, "MATCHED")

\* The driver of a ride never changes: a second driver.reserved for the ride,
\* duplicated or from a second dispatch, cannot replace the first one.
DriverNeverReassigned ==
    [][\A r \in Rides : ride[r].driver # None => ride'[r].driver = ride[r].driver]_vars

\* Driver Service shows ON_TRIP only for the driver of a trip that started.
OnTripOnlyIfStarted ==
    \A d \in Drivers : mirror[d] = "ON_TRIP" =>
        \E r \in Rides : ride[r].driver = d /\ Reached(r, "IN_PROGRESS")

\* An answer of Dispatch Service is not lost between two topics: its ride
\* leaves MATCHING, or the answer is parked where an operator can see it.
AnswerReachesRide ==
    \A t \in {"driver.reserved", "driver.rejected"} : \A i \in 1 .. MaxLog :
        Len(log[t]) >= i ~>
            \/ <<t, i>> \in dlt
            \/ \E r \in Rides : /\ i \in DOMAIN log[t] /\ log[t][i].rideId = r
                                /\ ride[r].status \notin {None, "REQUESTED", "MATCHING"}

\* "CANCELLED is only reachable from MATCHING/MATCHED/DRIVER_ARRIVING/
\* DRIVER_ARRIVED - never IN_PROGRESS" (the comment in TripsService.cancel).
NeverCancelledInProgress ==
    [][\A r \in Rides :
         ride[r].status = "IN_PROGRESS" => ride'[r].status # "CANCELLED"]_vars

=============================================================================
