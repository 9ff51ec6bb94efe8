----------------------------- MODULE DriverApp -----------------------------
(***************************************************************************)
(* The driver's web app (useDriverStore and the page that polls), with the *)
(* part of the backend it talks to: the rides of one driver in Trip        *)
(* Service and the driver's row in Driver Service.                         *)
(*                                                                         *)
(* Every call is a request in flight.  Where it stands is its pc: at the   *)
(* service ("sent"), in Driver Service's read-check-write of the status    *)
(* column ("patch", "patchWrite"), on its way back ("answered"), or in a   *)
(* second await of the app ("hydrate", "resync").  The app keeps what it   *)
(* captured before an await, answers come back in any order, and a poll    *)
(* starts every four seconds whether the last one is back or not.          *)
(*                                                                         *)
(* Dispatch looks at neither the rides nor the row: it takes a driver for  *)
(* free as long as a heartbeat and no reservation of his is in Redis.      *)
(* Both run out after thirty seconds, whatever he and his ride are doing,  *)
(* so without a clock they rule nothing out: he may be reserved while      *)
(* OFFLINE, and again in the middle of a ride.                             *)
(***************************************************************************)
EXTENDS RideStates, Naturals, FiniteSets

CONSTANTS
    Rides,          \* rides Dispatch may match to this driver, numbered as they are created
    Polls, Taps,    \* calls of the page and its timer, and of buttons, that may be in flight
    None,
    MaxFaults,      \* bound: calls that fail on the way
    Load            \* bound: calls of the page in flight and failures, together

\* What the driver may tap, and what the two other parties ask for.
Toggles == {"goOnline", "goOffline"}
RideTaps == {"accept", "decline", "arrived", "start", "complete"}
OtherOps == {"match", "cancel"}

ASSUME DriverAppAssumption ==
    /\ Rides \subseteq Nat \ {0}
    /\ \A S \in SUBSET Rides : S # {} => \E r \in S : \A x \in S : x <= r
    /\ None \notin Rides
    /\ None \notin RideStatus \cup DriverStatus \cup {"ONLINE", "BUSY"}
    /\ None \notin Toggles \cup RideTaps \cup OtherOps
    /\ None \notin [id : Rides, status : RideStatus]
    /\ {"rider", "dispatch"} \cap (Polls \cup Taps) = {}
    /\ MaxFaults \in Nat /\ Load \in Nat

\* "rider" and "dispatch" are the two other parties that change the same rides
\* and the same row.
Callers == Polls \cup Taps \cup {"rider", "dispatch"}

VARIABLES
    trip,       \* Trip Service: ride -> status, MATCHING until it is this driver's
    asked,      \* Dispatch: the last ride it has reserved this driver for
    promised,   \* the rides whose driver.reserved Trip Service has not consumed
    row,        \* Driver Service: the driver's status
    status,     \* the app's store: OFFLINE, ONLINE or BUSY
    activeTrip, \* the app's store: the ride it shows and the status it shows, or None
    calls,      \* the calls in flight
    blind,      \* history: the status shown is a BUSY that arrived at a screen without a ride
    raced,      \* history: two PATCHes overlapped or overtook each other, or a toggle
                \* was written during a ride
    unmarked,   \* history: Driver Service has refused Dispatch's RESERVED
    faults

vars == <<trip, asked, promised, row, status, activeTrip, calls, blind, raced, unmarked, faults>>
matchVars == <<asked, promised>>
backendVars == <<trip, row, matchVars>>
screenVars == <<status, activeTrip>>
historyVars == <<blind, raced, unmarked>>

\* The statuses of a ride that is assigned and not over.
Under == {"MATCHED", "DRIVER_ARRIVING", "DRIVER_ARRIVED", "IN_PROGRESS"}

Idle == [op |-> None, pc |-> "idle", ride |-> None, got |-> None]
Syncing == [Idle EXCEPT !.pc = "resync"]

\* A page just opened, between two rides or in the middle of one: it shows
\* nothing, and syncStatusFromBackend() is on its way.
Init ==
    /\ \/ /\ trip = [r \in Rides |-> "MATCHING"]
          /\ row \in {"OFFLINE", "AVAILABLE"}
          /\ asked = 0
       \/ \E r \in Rides, s \in Under :
             /\ asked = r
             /\ trip = [x \in Rides |-> IF x = r THEN s ELSE "MATCHING"]
             /\ row = IF s = "IN_PROGRESS" THEN "ON_TRIP" ELSE "RESERVED"
    /\ promised = {}
    /\ status = "OFFLINE"
    /\ activeTrip = None
    /\ \E m \in Polls :
         /\ m = CHOOSE j \in Polls : TRUE
         /\ calls = [k \in Callers |-> IF k = m THEN Syncing ELSE Idle]
    /\ blind = FALSE /\ raced = FALSE /\ unmarked = FALSE
    /\ faults = 0

-----------------------------------------------------------------------------
\* Calls

At(k, pc) == calls[k].pc = pc

\* The bound: one call more in flight, or one more failure.
HasRoom == Cardinality({k \in Polls \cup Taps : ~At(k, "idle")}) + faults < Load

Goto(k, pc) == calls' = [calls EXCEPT ![k].pc = pc]
End(k) == calls' = [calls EXCEPT ![k] = Idle]
Resync(k) == calls' = [calls EXCEPT ![k] = Syncing]
Got(k, pc, value) == calls' = [calls EXCEPT ![k] = [@ EXCEPT !.pc = pc, !.got = value]]
Send(k, op, pc, r) == calls' = [calls EXCEPT ![k] = [op |-> op, pc |-> pc, ride |-> r, got |-> None]]

\* What a ride operation asks of Trip Service, and then of Driver Service.
Target(op) ==
    CASE op = "accept"   -> "DRIVER_ARRIVING"
      [] op = "arrived"  -> "DRIVER_ARRIVED"
      [] op = "start"    -> "IN_PROGRESS"
      [] op = "complete" -> "COMPLETED"
      [] op = "match"    -> "MATCHED"
      [] OTHER           -> "CANCELLED"

PatchTo(op) ==
    CASE op = "start"     -> "ON_TRIP"
      [] op = "match"     -> "RESERVED"
      [] op = "goOffline" -> "OFFLINE"
      [] OTHER            -> "AVAILABLE"

\* findActiveByDriver(): of the rides assigned to the driver that are not over,
\* the one created last.
Active == { r \in Rides : trip[r] \in Under }
Latest == CHOOSE r \in Active : \A x \in Active : x <= r
ActiveTrip == IF Active = {} THEN None ELSE [id |-> Latest, status |-> trip[Latest]]

-----------------------------------------------------------------------------
\* The services

serviceFrame == UNCHANGED screenVars

\* The consumer's transaction has updated the ride and not committed yet: a
\* request for the same row waits.
Locked(r) == ~At("rider", "idle") /\ calls["rider"].ride = r

\* Variant for the checks: start does not tell Driver Service.
ServeUnsynced(k) ==
    /\ At(k, "sent") /\ calls[k].op \in RideTaps /\ ~Locked(calls[k].ride)
    /\ IF canTransitionRideStatus(trip[calls[k].ride], Target(calls[k].op))
       THEN /\ trip' = [trip EXCEPT ![calls[k].ride] = Target(calls[k].op)]
            /\ IF calls[k].op \in {"accept", "arrived", "start"}
               THEN Got(k, "answered", "ok")
               ELSE Goto(k, "patch")
       ELSE UNCHANGED trip /\ Got(k, "answered", "refused")
    /\ UNCHANGED <<row, matchVars, historyVars, faults>> /\ serviceFrame

\* A ride operation of Trip Service, one step here (how requests for one ride
\* race is TripService's matter).  What the table forbids is a 409; start,
\* complete and cancel go on to PATCH the driver before they answer.
Serve(k) ==
    /\ At(k, "sent") /\ calls[k].op \in RideTaps /\ ~Locked(calls[k].ride)
    /\ IF canTransitionRideStatus(trip[calls[k].ride], Target(calls[k].op))
       THEN /\ trip' = [trip EXCEPT ![calls[k].ride] = Target(calls[k].op)]
            /\ IF calls[k].op \in {"accept", "arrived"}
               THEN Got(k, "answered", "ok")
               ELSE Goto(k, "patch")
       ELSE UNCHANGED trip /\ Got(k, "answered", "refused")
    /\ UNCHANGED <<row, matchVars, historyVars, faults>> /\ serviceFrame

\* A PATCH is over, whatever came of it: Dispatch publishes driver.reserved, the
\* cancellation goes on to its commit, the others answer; only the driver's own
\* toggle tells failure.
Patched(k, outcome) ==
    /\ CASE calls[k].op = "match"  -> End(k)
         [] calls[k].op = "cancel" -> Goto(k, "commit")
         [] OTHER -> Got(k, "answered", IF calls[k].op \in Toggles THEN outcome ELSE "ok")
    /\ promised' = IF calls[k].op = "match" THEN promised \cup {calls[k].ride} ELSE promised

\* A PATCH for the row is on its way from some of the callers.
Owed(from) == \E k \in from : calls[k].pc \in {"patch", "patchWrite"}

\* The driver has a ride, or is about to have one or to lose one.
Busy(from) == Active # {} \/ promised # {} \/ Owed(from)

\* The PATCH of a complete gets there before the one of the ride's start.
Overtakes(k) ==
    /\ calls[k].op = "complete"
    /\ \E j \in Callers : At(j, "patch") /\ calls[j].op = "start" /\ calls[j].ride = calls[k].ride

\* DriversService.updateStatus(): findById and the transition table ...
PatchRead(k) ==
    /\ At(k, "patch")
    /\ IF canTransitionDriverStatus(row, PatchTo(calls[k].op))
       THEN Goto(k, "patchWrite") /\ UNCHANGED <<promised, unmarked>>
       ELSE Patched(k, "refused") /\ unmarked' = (unmarked \/ calls[k].op = "match")
    /\ raced' = (raced \/ Overtakes(k) \/ \E j \in Callers \ {k} : At(j, "patchWrite"))
    /\ UNCHANGED <<trip, asked, row, blind, faults>> /\ serviceFrame

\* ... and the update, by id alone.
PatchWrite(k) ==
    /\ At(k, "patchWrite")
    /\ row' = PatchTo(calls[k].op)
    /\ Patched(k, "ok")
    /\ raced' = (raced \/ (calls[k].op \in Toggles /\ Busy(Callers \ {k})))
    /\ UNCHANGED <<trip, asked, blind, unmarked, faults>> /\ serviceFrame

\* GET driver, for the status.
ReadStatus(k) ==
    /\ At(k, "resync")
    /\ Got(k, "resynced", row)
    /\ UNCHANGED <<backendVars, historyVars, faults>> /\ serviceFrame

\* A call fails on the way: a status read or a toggle leaves the app as it is, a
\* PATCH of a service is forgotten.  A poll that fails does nothing at all.
CallFails(k) ==
    /\ faults < MaxFaults /\ faults' = faults + 1 /\ HasRoom
    /\ \/ At(k, "patch") /\ Patched(k, "refused")
       \/ At(k, "resync") /\ End(k) /\ UNCHANGED promised
    /\ UNCHANGED <<trip, asked, row, historyVars>> /\ serviceFrame

-----------------------------------------------------------------------------
\* The other parties

\* Dispatch Service takes the requests in turn; it reserves this driver for one
\* and marks the row.
DispatchReserves(r) ==
    /\ At("dispatch", "idle") /\ asked < r
    /\ asked' = r
    /\ Send("dispatch", "match", "patch", r)
    /\ UNCHANGED <<trip, promised, row, historyVars, faults>> /\ serviceFrame

\* Trip Service consumes a driver.reserved, unless it is busy with a cancellation:
\* a ride that is not waiting any more is not matched.
MatchArrives(r) ==
    /\ r \in promised /\ At("rider", "idle")
    /\ promised' = promised \ {r}
    /\ trip' = IF canTransitionRideStatus(trip[r], "MATCHED")
               THEN [trip EXCEPT ![r] = "MATCHED"] ELSE trip
    /\ UNCHANGED <<asked, row, calls, historyVars, faults>> /\ serviceFrame

\* It consumes the rider's ride.cancelled.  With a driver, it PATCHes the row
\* inside the transaction ...
RiderCancels(r) ==
    /\ At("rider", "idle") /\ canTransitionRideStatus(trip[r], "CANCELLED")
    /\ IF r \in Active
       THEN Send("rider", "cancel", "patch", r) /\ UNCHANGED trip
       ELSE trip' = [trip EXCEPT ![r] = "CANCELLED"] /\ UNCHANGED calls
    /\ UNCHANGED <<row, matchVars, historyVars, faults>> /\ serviceFrame

\* ... and commits.
CancelCommits ==
    /\ At("rider", "commit")
    /\ trip' = [trip EXCEPT ![calls["rider"].ride] = "CANCELLED"]
    /\ End("rider")
    /\ UNCHANGED <<row, matchVars, historyVars, faults>> /\ serviceFrame

-----------------------------------------------------------------------------
\* The app

appFrame == UNCHANGED <<backendVars, historyVars, faults>>

\* Polls are alike: one that starts takes the first free place.
Free(k) == At(k, "idle") /\ k = CHOOSE j \in Polls : At(j, "idle")

\* The interval of the page: GET the driver's active trip.  The answer is what
\* Trip Service has when the request gets there.
Poll(k) ==
    /\ Free(k) /\ HasRoom
    /\ Got(k, "found", ActiveTrip)
    /\ UNCHANGED screenVars /\ appFrame

\* toggleOnline(): not while BUSY.
Toggle(k) ==
    /\ k \in Taps /\ At(k, "idle") /\ HasRoom
    /\ status # "BUSY"
    /\ Send(k, IF status = "ONLINE" THEN "goOffline" ELSE "goOnline", "patch", None)
    /\ UNCHANGED screenVars /\ appFrame

\* The buttons of DriverTripCard, each shown for one status of the ride.
Shown(op) ==
    CASE op \in {"accept", "decline"} -> "MATCHED"
      [] op = "arrived"               -> "DRIVER_ARRIVING"
      [] op = "start"                 -> "DRIVER_ARRIVED"
      [] OTHER                        -> "IN_PROGRESS"

Tap(k, op) ==
    /\ k \in Taps /\ At(k, "idle") /\ HasRoom
    /\ activeTrip # None /\ activeTrip.status = Shown(op)
    /\ Send(k, op, "sent", activeTrip.id)
    /\ UNCHANGED screenVars /\ appFrame

ShowsRide(r) == activeTrip # None /\ activeTrip.id = r

\* Variant for the checks: the screen is cleared and never synced again.
PollFindsNoneUnsynced(k) ==
    /\ calls[k].got = None
    /\ activeTrip' = None
    /\ End(k)
    /\ UNCHANGED status

\* pollActiveTrip(), the answer: no ride - clear the screen and read the
\* status; the ride shown - take over its status; another ride - hydrate.
PollFindsNone(k) ==
    /\ calls[k].got = None
    /\ activeTrip' = None
    /\ IF activeTrip = None THEN End(k) ELSE Resync(k)
    /\ UNCHANGED status

\* Variant for the checks: the ride shown keeps the status it has.
PollFindsShownKeeps(k) ==
    /\ calls[k].got # None
    /\ ShowsRide(calls[k].got.id)
    /\ End(k)
    /\ UNCHANGED screenVars

PollFindsShown(k) ==
    /\ calls[k].got # None
    /\ ShowsRide(calls[k].got.id)
    /\ activeTrip' = calls[k].got
    /\ End(k)
    /\ UNCHANGED status

PollFindsOther(k) ==
    /\ calls[k].got # None
    /\ ~ShowsRide(calls[k].got.id)
    /\ Goto(k, "hydrate")
    /\ UNCHANGED screenVars

PollAnswered(k) ==
    /\ At(k, "found")
    /\ PollFindsNone(k) \/ PollFindsShown(k) \/ PollFindsOther(k)
    /\ appFrame

\* Addresses and the rider's contact have arrived: the ride the poll had found
\* is shown, without another look at the store.
Hydrated(k) ==
    /\ At(k, "hydrate")
    /\ activeTrip' = calls[k].got
    /\ status' = "BUSY" /\ blind' = FALSE
    /\ End(k)
    /\ UNCHANGED <<backendVars, raced, unmarked, faults>>

\* A status arrived: BACKEND_TO_UI_STATUS.
uiStatus(s) ==
    CASE s = "AVAILABLE"              -> "ONLINE"
      [] s \in {"RESERVED", "ON_TRIP"} -> "BUSY"
      [] OTHER                         -> "OFFLINE"

StatusArrives(k) ==
    /\ At(k, "resynced")
    /\ status' = uiStatus(calls[k].got)
    /\ End(k)
    /\ blind' = (status' = "BUSY" /\ activeTrip = None)
    /\ UNCHANGED <<activeTrip, raced, unmarked, backendVars, faults>>

\* A tap was answered.  What is shown is the ride captured at the tap; decline
\* and complete clear the screen and read the status.  A refusal shows nothing.
TapAnswered(k) ==
    /\ At(k, "answered") /\ calls[k].op \in RideTaps
    /\ IF calls[k].got = "refused"
       THEN End(k) /\ UNCHANGED activeTrip
       ELSE IF calls[k].op \in {"decline", "complete"}
       THEN Resync(k) /\ activeTrip' = None
       ELSE End(k) /\ activeTrip' = [id |-> calls[k].ride, status |-> Target(calls[k].op)]
    /\ UNCHANGED status /\ appFrame

ToggleAnswered(k) ==
    /\ At(k, "answered") /\ calls[k].op \in Toggles
    /\ status' = IF calls[k].got = "refused" THEN status
                 ELSE IF calls[k].op = "goOnline" THEN "ONLINE" ELSE "OFFLINE"
    /\ End(k)
    /\ UNCHANGED activeTrip /\ appFrame

-----------------------------------------------------------------------------

ServiceStep(k) == Serve(k) \/ PatchRead(k) \/ PatchWrite(k) \/ ReadStatus(k)
AppStep(k) ==
    \/ PollAnswered(k) \/ Hydrated(k) \/ StatusArrives(k) \/ TapAnswered(k) \/ ToggleAnswered(k)

Next ==
    \/ \E k \in Callers : ServiceStep(k) \/ AppStep(k) \/ CallFails(k)
    \/ \E r \in Rides : DispatchReserves(r) \/ MatchArrives(r) \/ RiderCancels(r)
    \/ CancelCommits
    \/ \E k \in Polls : Poll(k)
    \/ \E k \in Taps : Toggle(k) \/ \E op \in RideTaps : Tap(k, op)

Spec == Init /\ [][Next]_vars

\* The timer keeps polling, and some poll or other goes on.  None has to come
\* back, nor any other call; nobody has to tap, cancel or dispatch.
Fairness == WF_vars(\E k \in Polls : Poll(k) \/ ServiceStep(k) \/ AppStep(k))

FairSpec == Spec /\ Fairness

-----------------------------------------------------------------------------
\* Properties

Shows == [id : Rides, status : RideStatus] \cup {None}

TypeOK ==
    /\ trip \in [Rides -> RideStatus]
    /\ asked \in Nat /\ promised \subseteq Rides
    /\ row \in DriverStatus
    /\ status \in {"OFFLINE", "ONLINE", "BUSY"}
    /\ activeTrip \in Shows
    /\ calls = [k \in Callers |-> [op |-> calls[k].op, pc |-> calls[k].pc,
                                   ride |-> calls[k].ride, got |-> calls[k].got]]
    /\ \A k \in Callers :
         /\ calls[k].op \in RideTaps \cup Toggles \cup OtherOps \cup {None}
         /\ calls[k].pc \in {"idle", "sent", "patch", "patchWrite", "commit", "answered",
                             "found", "hydrate", "resync", "resynced"}
         /\ calls[k].ride \in Rides \cup {None}
    /\ blind \in BOOLEAN /\ raced \in BOOLEAN /\ unmarked \in BOOLEAN
    /\ faults \in 0 .. MaxFaults

\* "Next poll reconciles" (acceptTrip, arriveAtPickup): however late answers
\* overtake each other and whatever ride they bring back for a moment, the
\* screen ends up showing the ride the backend has.
ScreenReconciles == <>[](activeTrip = ActiveTrip)

\* Driver Service shows a driver RESERVED from the match to the pickup and
\* ON_TRIP on the way, whenever no PATCH is on its way and no cancellation about
\* to commit.  Not so once Dispatch's own PATCH was refused, and it matched the
\* ride all the same: the driver was OFFLINE by then, or on a ride that outlived
\* his reservation.  Nor once a PATCH failed or overlapped another between its
\* check and its write, a toggle was written on a screen that did not know of the
\* ride, or the PATCH of a start, overtaken by the complete's, landed on the next.
RowFollowsTrip ==
    ~Owed(Callers) /\ ~At("rider", "commit") /\ ~raced /\ ~unmarked /\ faults = 0 =>
        \A r \in Active : row = IF trip[r] = "IN_PROGRESS" THEN "ON_TRIP" ELSE "RESERVED"

\* toggleOnline() does nothing while BUSY, so a BUSY screen without a ride is a
\* driver locked out until the page is opened again.  The clearing poll, decline
\* and complete rule it out, unless the status they (or the opening page) read
\* still said RESERVED or ON_TRIP, or could not be read.
LockedOutOnlyIfBlind ==
    status = "BUSY" /\ activeTrip = None /\ faults = 0
    /\ (\A k \in Callers : At(k, "idle")) => blind

=============================================================================
