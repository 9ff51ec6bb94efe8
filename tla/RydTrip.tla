------------------------------ MODULE RydTrip ------------------------------
(***************************************************************************)
(* Trip Service and Dispatch Service together, with the two things they    *)
(* share: Kafka and the status column of Driver Service.                   *)
(*                                                                         *)
(* The state is the one of TripService, with Dispatch's own variables      *)
(* beside it.  What TripService leaves to "Dispatch Service, in its own    *)
(* time" is here a step of a DispatchService handler: publishing an answer *)
(* appends it to Trip Service's topics, and marking a driver RESERVED      *)
(* changes the column Trip Service patches.  Both are consumers of         *)
(* ride.requested, each with its own offsets.                              *)
(***************************************************************************)
EXTENDS TripService

CONSTANTS
    Members,        \* replicas of Dispatch Service
    CandidateLimit, \* DISPATCH_CANDIDATE_LIMIT
    MaxDFaults,     \* bound: the faults of Dispatch Service
    MaxTroubles     \* bound: all faults and cancellations together

ASSUME SystemAssumption ==
    /\ Members # {} /\ IsFiniteSet(Members)
    /\ CandidateLimit \in Nat \ {0}
    /\ MaxDFaults \in Nat /\ MaxTroubles \in Nat

VARIABLES
    dPosition, dCommitted, dHandling, dAttempt, dDlt,   \* its consumer loop
    owner, work, reservations, lapsed, marked, answers, dFaults

dispatchVars ==
    <<dPosition, dCommitted, dHandling, dAttempt, dDlt,
      owner, work, reservations, lapsed, marked, answers, dFaults>>
systemVars == <<vars, dispatchVars>>

\* Dispatch Service reads the topic Trip Service reads, and of an envelope
\* only what DispatchService models.
Dispatch == INSTANCE DispatchService WITH
    Topics <- {"ride.requested"},
    log <- [t \in {"ride.requested"} |-> [i \in DOMAIN log[t] |-> log[t][i].rideId]],
    position <- dPosition, committed <- dCommitted, handling <- dHandling,
    attempt <- dAttempt, dlt <- dDlt, faults <- dFaults, MaxFaults <- MaxDFaults

SystemInit == Init /\ Dispatch!Init

\* Another fault or cancellation may come.
MoreTrouble ==
    Len(log["ride.cancelled"]) + Cardinality(lapsed) + faults + dFaults < MaxTroubles

\* What goes wrong in Trip Service or on its topics.
TripTrouble ==
    /\ MoreTrouble
    /\ \/ HandlerFault \/ ParkFault \/ Restart
       \/ \E t \in Topics \ {"ride.requested"} : \E i \in 1 .. Len(log[t]) : Duplicate(t, i)
       \/ \E r \in Rides : RequestCancel(r)

\* A step of Trip Service by itself, or of its callers.  (No offset is committed
\* here, by either service: a restart sees everything again, the most it may.)
TripAlone ==
    /\ \/ HttpNext
       \/ \E t \in Topics : Take(t)
       \/ HandlerNext
       \/ TripTrouble
    /\ UNCHANGED dispatchVars

\* A step of Dispatch Service that Trip Service does not see.
DispatchTakes == UNCHANGED vars /\ Dispatch!Take
HandlerAlone(m) ==
    /\ UNCHANGED vars
    /\ \/ Dispatch!CheckProcessed(m)
       \/ Dispatch!Search(m)
       \/ Dispatch!TryCandidate(m)
       \/ Dispatch!NoCandidateLeft(m)
       \/ Dispatch!MarkProcessed(m)
FaultAlone(m) ==
    MoreTrouble /\ UNCHANGED vars /\ (Dispatch!Restart(m) \/ Dispatch!Reassign(m))

\* The PATCH that marks the driver won.
DispatchSyncs(m) ==
    /\ \/ UNCHANGED vars
       \/ \E d \in Drivers : d = work[m].won /\ DispatchMarksReserved(d)
    /\ Dispatch!SyncDriver(m)

\* The answer of member m as Trip Service receives it.
AnswerArrives(m) ==
    \E r \in Rides :
        /\ r = work[m].ride
        /\ \/ work[m].won = None /\ DispatchRejects(r)
           \/ \E d \in Drivers : d = work[m].won /\ DispatchReserves(r, d)

\* Variant for the checks: the answer goes out before the driver is marked.
DispatchPublishesUnsynced(m) ==
    /\ work[m].pc = "sync"
    /\ AnswerArrives(m)
    /\ UNCHANGED <<dPosition, dCommitted, dHandling, dAttempt, dDlt, dFaults>>
    /\ UNCHANGED <<owner, reservations, lapsed, marked>>
    /\ Dispatch!PublishAnswer(m)
    /\ Dispatch!Goto(m, "mark")

DispatchPublishes(m) ==
    /\ work[m].pc = "publish"
    /\ AnswerArrives(m)
    /\ Dispatch!Publish(m)

\* A step of a handler fails; the answer may be on its topic all the same.
DispatchStepFails(m) ==
    /\ MoreTrouble
    /\ work[m].pc # "idle"
    /\ \/ UNCHANGED vars /\ UNCHANGED answers
       \/ work[m].pc = "publish" /\ AnswerArrives(m) /\ Dispatch!PublishAnswer(m)
    /\ Dispatch!StepFails(m)

\* Both consumers see a new ride.requested, and a copy of an old one.
RiderRequests(r) == RequestRide(r) /\ Dispatch!RequestRide(r)
RequestDuplicated(r, i) ==
    /\ MoreTrouble
    /\ r = log["ride.requested"][i].rideId
    /\ Duplicate("ride.requested", i)
    /\ Dispatch!Duplicate(r)

ReservationExpires(d) == MoreTrouble /\ UNCHANGED vars /\ Dispatch!ReservationExpires(d)

HandlerStep(m) == HandlerAlone(m) \/ DispatchSyncs(m) \/ DispatchPublishes(m)

SystemNext ==
    \/ TripAlone
    \/ DispatchTakes
    \/ \E m \in Members :
         \/ HandlerStep(m)
         \/ DispatchStepFails(m)
         \/ FaultAlone(m)
    \/ \E r \in Rides :
         \/ RiderRequests(r)
         \/ \E i \in 1 .. Len(log["ride.requested"]) : RequestDuplicated(r, i)
    \/ \E d \in Drivers : ReservationExpires(d)

SystemSpec == SystemInit /\ [][SystemNext]_systemVars

\* Both loops and all handlers keep running.
SystemFairness ==
    /\ WF_systemVars(\E t \in Topics : Take(t) /\ UNCHANGED dispatchVars)
    /\ WF_systemVars(HandlerNext /\ UNCHANGED dispatchVars)
    /\ WF_systemVars(DispatchTakes)
    /\ \A m \in Members : WF_systemVars(HandlerStep(m))

FairSystemSpec == SystemSpec /\ SystemFairness

-----------------------------------------------------------------------------
\* Properties

\* The composition implements Dispatch Service as specified by itself, so the
\* environment that module assumes (who patches a driver, when a reservation runs
\* out) is one Trip Service really is.  (Of Trip Service the same holds by the way
\* SystemNext is written: its steps are those of TripService.)
ImplementsDispatch == Dispatch!Spec

Assigned(r, d) == ride[r].driver = d /\ ride[r].status \notin {"COMPLETED", "CANCELLED"}

\* A driver is never on two rides that are under way, as long as its
\* reservation has not run out: SET NX in Redis, the answers on Kafka and the
\* conditional match in PostgreSQL together keep it so, through every retry,
\* redelivery and duplicate of either service.
NoDoubleBookingUnlessLapsed ==
    \A d \in Drivers \ lapsed : \A r1, r2 \in Rides :
        Assigned(r1, d) /\ Assigned(r2, d) => r1 = r2

\* A driver shown RESERVED is on the way to a rider, or a message says why
\* not: without faults, the only way to be left RESERVED for nobody is a
\* driver.reserved that found its ride cancelled and was parked.
AnswerPending(d) ==
    \E i \in DOMAIN log["driver.reserved"] :
        /\ log["driver.reserved"][i].driverId = d
        /\ i > position["driver.reserved"] \/ <<"driver.reserved", i>> \in dlt
ReservedIsExplained ==
    faults + dFaults = 0 =>
        \A d \in Drivers : mirror[d] = "RESERVED" =>
            \/ \E m \in Members : work[m].won = d /\ work[m].pc \in {"sync", "publish"}
            \/ AnswerPending(d)
            \/ \E r \in Rides : Assigned(r, d)
            \/ \E c \in Calls : call[c].pc = "sync" /\ call[c].driver = d

\* A requested ride does not stay in MATCHING for ever: Dispatch's answer
\* moves it, or a message about it is parked on a Dead Letter Topic.
RideSettles ==
    \A r \in Rides :
        IsRequested(r) ~>
            \/ ride[r].status \notin {None, "MATCHING"}
            \/ \E t \in Topics : \E i \in DOMAIN log[t] :
                 log[t][i].rideId = r /\ (<<t, i>> \in dlt \/ <<t, i>> \in dDlt)

=============================================================================
