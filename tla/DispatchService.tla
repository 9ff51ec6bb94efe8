--------------------------- MODULE DispatchService --------------------------
(***************************************************************************)
(* Dispatch Service: consumes ride.requested, ranks the nearby drivers,    *)
(* reserves one of them in Redis and answers with driver.reserved, or with *)
(* driver.rejected when it could reserve none.                             *)
(*                                                                         *)
(* It keeps nothing of its own: reservations (SET NX EX) and the record of *)
(* processed events (SET EX) are in Redis, driver status is a best-effort  *)
(* mirror in Driver Service, and answers go to Kafka.  None of these writes*)
(* is atomic with another, and an action is what happens between two       *)
(* awaits.                                                                 *)
(*                                                                         *)
(* The service has up to four replicas; the one partition of ride.requested*)
(* is assigned to one of them, the owner.  A handler does not send         *)
(* heartbeats and its calls have no timeout, so the broker can reassign    *)
(* the partition while the old owner is still working on its message.      *)
(***************************************************************************)
EXTENDS ConsumerLoop, RideStates, FiniteSets

CONSTANTS
    Rides, Drivers, None,
    Members,        \* replicas of the service
    CandidateLimit, \* DISPATCH_CANDIDATE_LIMIT, 5 in the code
    MaxLog,         \* bound: messages on ride.requested, copies included
    MaxFaults       \* bound: failures, restarts, reassignments, duplicates

RequestTopic == "ride.requested"

ASSUME DispatchAssumption ==
    /\ Topics = {RequestTopic}
    /\ None \notin Drivers \cup Rides
    /\ Members # {} /\ IsFiniteSet(Members)
    /\ CandidateLimit \in Nat \ {0}
    /\ MaxLog \in Nat /\ MaxFaults \in Nat

VARIABLES
    owner,          \* the member the partition is assigned to
    work,           \* what each member's handler is doing
    reservations,   \* Redis driver:{id}:reservation -> ride id or None
    lapsed,         \* history: the drivers whose reservation ever ran out
    marked,         \* Redis processed:dispatch-service:{eventId}
    mirror,         \* Driver Service's status column
    answers,        \* what was published on driver.reserved and driver.rejected
    faults          \* failures, restarts, reassignments and duplicates so far

redisVars == <<reservations, lapsed, marked>>
vars == <<log, consumerVars, owner, work, redisVars, mirror, answers, faults>>

\* A ride.requested envelope; every ride has one event id, and the ride names it.
Idle == [pc |-> "idle", ride |-> None, candidates |-> << >>, won |-> None]

Init ==
    /\ ConsumerInit
    /\ owner \in Members
    /\ work = [m \in Members |-> Idle]
    /\ reservations = [d \in Drivers |-> None]
    /\ lapsed = {}
    /\ marked = {}
    /\ mirror = [d \in Drivers |-> "AVAILABLE"]
    /\ answers = << >>
    /\ faults = 0

-----------------------------------------------------------------------------
\* The handler

At(m, pc) == work[m].pc = pc
Goto(m, pc) == work' = [work EXCEPT ![m].pc = pc]

\* Member m works on the message its loop holds, not on one it had taken
\* before it lost the partition.
Current(m) == m = owner /\ handling # NoTopic

\* The handler of member m returned.  What a member that lost the partition
\* resolves is nobody's offset any more: its commit is refused.
Return(m) ==
    /\ work' = [work EXCEPT ![m] = Idle]
    /\ IF Current(m) THEN HandlerReturns ELSE UNCHANGED <<log, consumerVars>>

\* Variant for the checks: the error is swallowed.
ThrowSwallowed(m) == Return(m)

\* The handler of member m threw; the loop calls it again, or gives up.  A
\* member that lost the partition may do either.
Throw(m) ==
    LET again == work' = [work EXCEPT ![m] = [Idle EXCEPT !.pc = "check", !.ride = work[m].ride]]
        stop  == work' = [work EXCEPT ![m] = Idle]
    IN IF Current(m)
       THEN HandlerThrows /\ IF attempt < MaxAttempts THEN again ELSE stop
       ELSE (again \/ stop) /\ UNCHANGED <<log, consumerVars>>

Take ==
    /\ Fetch(RequestTopic)
    /\ At(owner, "idle")
    /\ work' = [work EXCEPT ![owner] =
                  [Idle EXCEPT !.pc = "check",
                               !.ride = log[RequestTopic][position[RequestTopic] + 1]]]
    /\ UNCHANGED <<owner, redisVars, mirror, answers, faults>>

Commit == AutoCommit /\ UNCHANGED <<owner, work, redisVars, mirror, answers, faults>>

\* Variant for the checks: the event is marked as soon as it is seen to be new.
CheckProcessedMarks(m) ==
    /\ At(m, "check")
    /\ IF work[m].ride \in marked
       THEN Return(m) /\ UNCHANGED marked
       ELSE /\ Goto(m, "search") /\ UNCHANGED <<log, consumerVars>>
            /\ marked' = marked \cup {work[m].ride}
    /\ UNCHANGED <<owner, reservations, lapsed, mirror, answers, faults>>

\* idempotency.wasProcessed()
CheckProcessed(m) ==
    /\ At(m, "check")
    /\ IF work[m].ride \in marked
       THEN Return(m)
       ELSE Goto(m, "search") /\ UNCHANGED <<log, consumerVars>>
    /\ UNCHANGED <<owner, redisVars, mirror, answers, faults>>

\* geoIndex.findNearby(): some online drivers, nearest first, each once.
Rankings ==
    { s \in UNION { [1 .. n -> Drivers] : n \in 0 .. CandidateLimit } :
        \A i, j \in DOMAIN s : s[i] = s[j] => i = j }

Search(m) ==
    /\ At(m, "search")
    /\ \E ranking \in Rankings :
         work' = [work EXCEPT ![m].pc = "reserve", ![m].candidates = ranking]
    /\ UNCHANGED <<log, consumerVars, owner, redisVars, mirror, answers, faults>>

\* Variant for the checks: SET without NX always answers OK.
UnreservedWithoutNX(d) == TRUE

\* The NX of the command: it sets the key, and answers OK, only if there is none.
Unreserved(d) == reservations[d] = None

\* SET driver:{id}:reservation rideId NX: one atomic command.
tryReserve(d, r) ==
    reservations' = IF Unreserved(d)
                    THEN [reservations EXCEPT ![d] = r]
                    ELSE reservations

\* Variant for the checks: losing one candidate ends the handler.
TryCandidateGivesUp(m) ==
    /\ At(m, "reserve")
    /\ work[m].candidates # << >>
    /\ LET d == Head(work[m].candidates)
       IN /\ tryReserve(d, work[m].ride)
          /\ IF Unreserved(d)
             THEN /\ work' = [work EXCEPT ![m] =
                               [@ EXCEPT !.pc = "sync", !.candidates = << >>, !.won = d]]
                  /\ UNCHANGED <<log, consumerVars>>
             ELSE Return(m)
    /\ UNCHANGED <<owner, lapsed, marked, mirror, answers, faults>>

\* One turn of the loop over the candidates.
TryCandidate(m) ==
    /\ At(m, "reserve")
    /\ work[m].candidates # << >>
    /\ LET d == Head(work[m].candidates)
       IN /\ tryReserve(d, work[m].ride)
          /\ work' = [work EXCEPT ![m] =
                        IF Unreserved(d)
                        THEN [@ EXCEPT !.pc = "sync", !.candidates = << >>, !.won = d]
                        ELSE [@ EXCEPT !.candidates = Tail(work[m].candidates)]]
    /\ UNCHANGED <<log, consumerVars, owner, lapsed, marked, mirror, answers, faults>>

NoCandidateLeft(m) ==
    /\ At(m, "reserve")
    /\ work[m].candidates = << >>
    /\ Goto(m, "publish")
    /\ UNCHANGED <<log, consumerVars, owner, redisVars, mirror, answers, faults>>

\* syncDriverStatusBestEffort(): the outcome never changes what follows.
SyncDriver(m) ==
    /\ At(m, "sync")
    /\ \/ UNCHANGED mirror
       \/ /\ canTransitionDriverStatus(mirror[work[m].won], "RESERVED")
          /\ mirror' = [mirror EXCEPT ![work[m].won] = "RESERVED"]
    /\ Goto(m, "publish")
    /\ UNCHANGED <<log, consumerVars, owner, redisVars, answers, faults>>

\* Variant for the checks: no return after driver.reserved, so the code after
\* the loop publishes driver.rejected too.
PublishAnswerFallsThrough(m) ==
    LET answer(d) == [rideId |-> work[m].ride, driverId |-> d]
    IN answers' = IF work[m].won = None
                  THEN Append(answers, answer(None))
                  ELSE answers \o <<answer(work[m].won), answer(None)>>

\* driver.reserved with the driver won, driver.rejected without one.
PublishAnswer(m) ==
    answers' = Append(answers, [rideId |-> work[m].ride, driverId |-> work[m].won])

Publish(m) ==
    /\ At(m, "publish")
    /\ PublishAnswer(m)
    /\ Goto(m, "mark")
    /\ UNCHANGED <<log, consumerVars, owner, redisVars, mirror, faults>>

\* idempotency.markProcessed(), and the handler is done.
MarkProcessed(m) ==
    /\ At(m, "mark")
    /\ marked' = marked \cup {work[m].ride}
    /\ Return(m)
    /\ UNCHANGED <<owner, reservations, lapsed, mirror, answers, faults>>

-----------------------------------------------------------------------------
\* Time and faults

\* The TTL of a reservation runs out.  Nothing else removes one: release()
\* has no caller.
ReservationExpires(d) ==
    /\ reservations[d] # None
    /\ reservations' = [reservations EXCEPT ![d] = None]
    /\ lapsed' = lapsed \cup {d}
    /\ UNCHANGED <<log, consumerVars, owner, work, marked, mirror, answers, faults>>

Fault == faults < MaxFaults /\ faults' = faults + 1

\* A Redis command, the broker, or an open circuit fails a step that can
\* throw.  A send that fails may have been stored by the broker all the same.
StepFails(m) ==
    /\ Fault
    /\ work[m].pc \notin {"idle", "sync"}
    /\ Throw(m)
    /\ UNCHANGED answers \/ (At(m, "publish") /\ PublishAnswer(m))
    /\ UNCHANGED <<owner, redisVars, mirror>>

\* Member m is killed and restarted.
Restart(m) ==
    /\ Fault
    /\ work' = [work EXCEPT ![m] = Idle]
    /\ IF m = owner THEN ConsumerRestart ELSE UNCHANGED <<log, consumerVars>>
    /\ UNCHANGED <<owner, redisVars, mirror, answers>>

\* The partition goes to member m, which resumes from the committed offset.
Reassign(m) ==
    /\ Fault
    /\ m # owner
    /\ owner' = m
    /\ ConsumerRestart
    /\ UNCHANGED <<work, redisVars, mirror, answers>>

-----------------------------------------------------------------------------
\* Others

\* Trip Service tells Driver Service that a trip started or is over.
OthersPatch(d, status) ==
    /\ status \in {"ON_TRIP", "AVAILABLE"}
    /\ canTransitionDriverStatus(mirror[d], status)
    /\ mirror' = [mirror EXCEPT ![d] = status]
    /\ UNCHANGED <<log, consumerVars, owner, work, redisVars, answers, faults>>

\* Rider Service publishes ride.requested.
Requested == { log[RequestTopic][i] : i \in DOMAIN log[RequestTopic] }

RequestRide(r) ==
    /\ r \notin Requested
    /\ Len(log[RequestTopic]) < MaxLog
    /\ SendTo(RequestTopic, r)
    /\ UNCHANGED <<consumerVars, owner, work, redisVars, mirror, answers, faults>>

\* A retried send, or scripts/replay-dlq.ts.
Duplicate(r) ==
    /\ Fault
    /\ r \in Requested
    /\ Len(log[RequestTopic]) < MaxLog
    /\ SendTo(RequestTopic, r)
    /\ UNCHANGED <<consumerVars, owner, work, redisVars, mirror, answers>>

-----------------------------------------------------------------------------

HandlerStep(m) ==
    \/ CheckProcessed(m)
    \/ Search(m)
    \/ TryCandidate(m)
    \/ NoCandidateLeft(m)
    \/ SyncDriver(m)
    \/ Publish(m)
    \/ MarkProcessed(m)

Next ==
    \/ Take
    \/ Commit
    \/ \E m \in Members : HandlerStep(m) \/ StepFails(m) \/ Restart(m) \/ Reassign(m)
    \/ \E d \in Drivers : ReservationExpires(d)
    \/ \E d \in Drivers, status \in DriverStatus : OthersPatch(d, status)
    \/ \E r \in Rides : RequestRide(r) \/ Duplicate(r)

Spec == Init /\ [][Next]_vars

\* The owner's loop and every member's handler keep running.
Fairness ==
    /\ WF_vars(Take)
    /\ \A m \in Members : WF_vars(HandlerStep(m))

FairSpec == Spec /\ Fairness

-----------------------------------------------------------------------------
\* Properties

WorkStates ==
    [pc : {"idle", "check", "search", "reserve", "sync", "publish", "mark"},
     ride : Rides \cup {None}, candidates : Seq(Drivers), won : Drivers \cup {None}]

TypeOK ==
    /\ ConsumerTypeOK(Rides)
    /\ OffsetsOK
    /\ owner \in Members
    /\ work \in [Members -> WorkStates]
    /\ \A m \in Members : At(m, "idle") \/ work[m].ride \in Rides
    /\ reservations \in [Drivers -> Rides \cup {None}]
    /\ lapsed \subseteq Drivers
    /\ marked \subseteq Rides
    /\ mirror \in [Drivers -> DriverStatus]
    /\ answers \in Seq([rideId : Rides, driverId : Drivers \cup {None}])
    /\ faults \in 0 .. MaxFaults

Answered(r) == \E i \in DOMAIN answers : answers[i].rideId = r
AnswersFor(r) == { i \in DOMAIN answers : answers[i].rideId = r }

\* "Exactly one winner under concurrent ride.requested events targeting the
\* same driver" (dispatch.service.ts), as Kafka's readers see it: as
\* long as a reservation has not run out, one answer at most names its driver,
\* whatever members, rides, retries and redeliveries compete for the driver.
PromisedOnce ==
    \A i, j \in DOMAIN answers :
        i # j /\ answers[i].driverId = answers[j].driverId =>
            answers[i].driverId \in lapsed \cup {None}

\* A ride is marked processed only after Kafka has an answer for it, so no
\* crash between the two leaves a ride without any answer.
MarkedIsAnswered == \A r \in marked : Answered(r)

\* A committed ride.requested was answered or is on the Dead Letter Topic.
NothingDropped ==
    \A i \in 1 .. committed[RequestTopic] :
        \/ Answered(log[RequestTopic][i])
        \/ <<RequestTopic, i>> \in dlt

\* Without a fault a ride gets one answer; check-then-mark lets each fault
\* cost at most one more.
AnswersBounded == \A r \in Rides : Cardinality(AnswersFor(r)) <= 1 + faults

\* Every request is answered in the end, or parked.
EventuallyAnswered ==
    \A r \in Rides :
        r \in Requested ~>
            \/ Answered(r)
            \/ \E i \in 1 .. MaxLog : /\ i \in DOMAIN log[RequestTopic]
                                      /\ log[RequestTopic][i] = r
                                      /\ <<RequestTopic, i>> \in dlt

\* "Only sequential redelivery, which check-then-mark handles correctly"
\* (RideRequestedConsumer): redelivery never makes a second answer.
OneAnswerPerRide == \A r \in Rides : Cardinality(AnswersFor(r)) <= 1

=============================================================================
