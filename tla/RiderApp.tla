------------------------------ MODULE RiderApp ------------------------------
(***************************************************************************)
(* The rider's web app once a ride is requested (RiderPage, useRideStore), *)
(* with what it talks to: Rider Service, which only publishes, and the     *)
(* rides of Trip Service.                                                  *)
(*                                                                         *)
(* The page polls the ride it shows every four seconds, and again each     *)
(* time the ride or its status changes: React then cleans the effect up    *)
(* and the polls it had started are "stopped".  A poll looks at that flag  *)
(* once, after its first await; the answers to its second and third one    *)
(* are applied to whatever the store shows by then.  The driver's app in   *)
(* another tab of the same browser is heard through the BroadcastChannel.  *)
(***************************************************************************)
EXTENDS RideStates, Naturals, FiniteSets

CONSTANTS
    MaxRides,       \* bound: rides the rider requests, each with a driver of its own
    Polls,          \* polls that may be in flight
    Load,           \* bound: rides requested and polls in flight, together, when one
                    \* more of them or a cancellation begins
    Tab,            \* rides whose driver is another tab of this browser
    Told,           \* bound: the steps of that driver which it posts
    None

Rides == 1 .. MaxRides

ASSUME RiderAppAssumption ==
    /\ MaxRides \in Nat
    /\ Told \subseteq RideStatus
    /\ None \notin Rides /\ None \notin RideStatus
    /\ {"create", "cancel"} \cap Polls = {}

Callers == Polls \cup {"create", "cancel"}

VARIABLES
    trip,       \* Trip Service: ride -> status, None until ride.requested is consumed
    matched,    \* rides whose row has a driver's id
    asked,      \* rides whose ride.requested was published
    cancels,    \* rides with a ride.cancelled on its way to Trip Service
    parked,     \* rides whose ride.cancelled the table refused: it is in the Dead Letter Topic
    step,       \* the page: choosing a ride or following one
    ride,       \* useRideStore.activeRide: what the screen shows, or None
    calls,      \* the calls in flight
    told,       \* the message of the driver's tab on its way, or None
    stray       \* history: the end on the screen was brought by a call for another ride

vars == <<trip, matched, asked, cancels, parked, step, ride, calls, told, stray>>
backendVars == <<trip, matched, asked, cancels, parked>>

Idle == [pc |-> "idle", ride |-> None, live |-> FALSE, got |-> None]

Init ==
    /\ trip = [r \in Rides |-> None]
    /\ matched = {} /\ asked = {} /\ cancels = {} /\ parked = {}
    /\ step = "SELECT_RIDE"
    /\ ride = None
    /\ calls = [k \in Callers |-> Idle]
    /\ told = None
    /\ stray = FALSE

\* Variant for the checks: the polling ends with the pickup.
TerminalAtPickup == {"IN_PROGRESS", "COMPLETED", "CANCELLED"}

\* TERMINAL_STATUSES
Terminal == {"COMPLETED", "CANCELLED"}

-----------------------------------------------------------------------------
\* Trip Service, its consumer, and the driver

\* handleRideRequested(): the ride is there, and MATCHING in the same handler.
TripAppears(r) ==
    /\ r \in asked /\ trip[r] = None
    /\ trip' = [trip EXCEPT ![r] = "MATCHING"]
    /\ UNCHANGED <<matched, asked, cancels, parked, step, ride, calls, told, stray>>

\* The driver's tab posts what it did once its call is back.
DriverTells(r, s) ==
    IF r \in Tab /\ told = None /\ s \in Told THEN told' \in {None, [ride |-> r, status |-> s]}
    ELSE UNCHANGED told

\* The ride moves on.  The driver it was matched with stays in its row, however
\* it ends: transition() never takes driverId away.
TripMoves(r, s) ==
    /\ trip[r] # None /\ canTransitionRideStatus(trip[r], s)
    /\ trip' = [trip EXCEPT ![r] = s]
    /\ matched' = IF s = "MATCHED" THEN matched \cup {r} ELSE matched
    /\ DriverTells(r, s)
    /\ UNCHANGED <<asked, cancels, parked, step, ride, calls, stray>>

\* handleRideCancelled(): a ride that is not there yet, or that the table does
\* not let go, sends the event to the Dead Letter Topic.
CancelConsumed(r) ==
    /\ r \in cancels
    /\ cancels' = cancels \ {r}
    /\ IF canTransitionRideStatus(trip[r], "CANCELLED")
       THEN trip' = [trip EXCEPT ![r] = "CANCELLED"] /\ UNCHANGED parked
       ELSE parked' = parked \cup {r} /\ UNCHANGED trip
    /\ UNCHANGED <<matched, asked, step, ride, calls, told, stray>>

-----------------------------------------------------------------------------
\* The store, and the effect that polls

ShowsRide(r) == ride # None /\ ride.id = r

Key(x) == IF x = None THEN None ELSE <<x.id, x.status>>

\* The store changes to x while the calls are c.  The polling effect depends on
\* the ride's id and status: when either changes, its polls are stopped.
Show(x, c) ==
    /\ ride' = x
    /\ calls' = IF Key(x) = Key(ride) THEN c
                ELSE [k \in Callers |-> [c[k] EXCEPT !.live = FALSE]]

Ended(k) == [calls EXCEPT ![k] = Idle]
End(k) == calls' = Ended(k)
At(k, pc) == calls[k].pc = pc

\* A poll looks at its effect's flag before its second await, never after it.
GoesToContact(k) == calls' = [calls EXCEPT ![k].pc = "contact", ![k].live = FALSE]

\* updateRideStatus() and assignDriver(): whatever ride the store has.
WithStatus(x, s) == IF x = None THEN None ELSE [x EXCEPT !.status = s]
WithDriver(x, d) == IF x = None THEN None ELSE [x EXCEPT !.driver = d, !.status = "MATCHED"]

\* cancelActiveRide(), likewise.
cancelActiveRide(x) == WithStatus(x, "CANCELLED")

\* Status s, which is ride r's, is written to whatever the store shows.
NoteStray(r, s) == stray' = (s \in Terminal /\ ride # None /\ ~ShowsRide(r))

\* Polls are alike: one that starts takes the first free place.
Free(k) == At(k, "idle") /\ k = CHOOSE j \in Polls : At(j, "idle")

\* The bound: one poll more in flight, or one more ride.
HasRoom == Cardinality(asked) + Cardinality({k \in Polls : ~At(k, "idle")}) < Load

-----------------------------------------------------------------------------
\* Requesting and cancelling

\* Rider Service has published what the page asked for; its 202 is on its way.
Publish(k, r) == calls' = [calls EXCEPT ![k] = [Idle EXCEPT !.pc = "answered", !.ride = r]]

\* handleRequestRide(), past the login gate; the button is disabled while a
\* request is on its way, not while a ride is active.
Confirm(r) ==
    /\ step = "SELECT_RIDE" /\ At("create", "idle")
    /\ r \notin asked /\ 1 .. r - 1 \subseteq asked /\ HasRoom
    /\ asked' = asked \cup {r}
    /\ Publish("create", r)
    /\ UNCHANGED <<trip, matched, cancels, parked, step, ride, told, stray>>

\* The answer is lost: an error is shown, nothing else changes.  (A request that
\* is lost is as if it had not been made.)
CallFails(k) ==
    /\ k \in {"create", "cancel"} /\ At(k, "answered")
    /\ End(k)
    /\ UNCHANGED <<backendVars, step, ride, told, stray>>

\* createRide() builds the ride the screen starts with.
Fresh(r) == [id |-> r, status |-> "REQUESTED", driver |-> None, otp |-> None]

RideCreated ==
    /\ At("create", "answered")
    /\ Show(Fresh(calls["create"].ride), Ended("create"))
    /\ step' = "ACTIVE_RIDE"
    /\ stray' = FALSE
    /\ UNCHANGED <<backendVars, told>>

\* The card on the screen, by the status of the ride.  FindingDriverCard stays
\* until the driver accepts; DriverMatchedCard shows the driver and the code.
FindingDriverCard == {"REQUESTED", "MATCHING", "MATCHED"}
DriverMatchedCard == {"DRIVER_ARRIVING", "DRIVER_ARRIVED"}
TripCompletedCard == {"COMPLETED"}

OnScreen(card) == step = "ACTIVE_RIDE" /\ ride # None /\ ride.status \in card

\* handleCancel(): a button of the two cards that come before the pickup.
Cancel ==
    /\ OnScreen(FindingDriverCard) \/ OnScreen(DriverMatchedCard)
    /\ At("cancel", "idle") /\ HasRoom
    /\ cancels' = cancels \cup {ride.id}
    /\ Publish("cancel", ride.id)
    /\ UNCHANGED <<trip, matched, asked, parked, step, ride, told, stray>>

\* cancelActiveRide() takes the ride the store has by now.
CancelAnswered ==
    /\ At("cancel", "answered")
    /\ Show(cancelActiveRide(ride), Ended("cancel"))
    /\ step' = "SELECT_RIDE"
    /\ NoteStray(calls["cancel"].ride, "CANCELLED")
    /\ UNCHANGED <<backendVars, told>>

BackToChoices ==
    /\ step = "ACTIVE_RIDE"
    /\ step' = "SELECT_RIDE"
    /\ UNCHANGED <<backendVars, ride, calls, told, stray>>

\* "Book Another Ride": resetRide().
NewRide ==
    /\ OnScreen(TripCompletedCard)
    /\ Show(None, calls)
    /\ step' = "SELECT_RIDE"
    /\ stray' = FALSE
    /\ UNCHANGED <<backendVars, told>>

-----------------------------------------------------------------------------
\* Polling

\* The effect starts a poll; GET /trips/:id, which fails until Trip Service has
\* the ride, answers what Trip Service has when the request gets there.
Poll(k) ==
    /\ Free(k) /\ HasRoom
    /\ ride # None /\ ride.status \notin Terminal
    /\ trip[ride.id] # None
    /\ calls' = [calls EXCEPT ![k] =
            [pc |-> "found", ride |-> ride.id, live |-> TRUE, got |-> trip[ride.id]]]
    /\ UNCHANGED <<backendVars, step, ride, told, stray>>

\* What follows the driver's part of a poll: the status if it differs, then the
\* code once the driver has accepted.
AfterStatus(k) ==
    IF calls[k].got \in {"DRIVER_ARRIVING", "DRIVER_ARRIVED"} /\ ride # None /\ ride.otp = None
    THEN [calls EXCEPT ![k] = [Idle EXCEPT !.pc = "otp", !.ride = calls[k].ride]]
    ELSE Ended(k)

\* Variant for the checks: a poll does not ask whether its effect was stopped.
PollIsStaleNever(k) == FALSE

\* The effect was cleaned up, or the store shows another ride.
PollIsStale(k) == ~calls[k].live \/ ~ShowsRide(calls[k].ride)

\* The answer named a driver.  A ride cancelled before its match has none.
GotDriver(k) ==
    /\ calls[k].got \notin {"REQUESTED", "MATCHING"}
    /\ calls[k].ride \in matched

\* Variant for the checks: any driver on the screen will do.
NeedsFirstContact(k) == GotDriver(k) /\ calls[k].got # "MATCHED" /\ ride.driver = None

\* A driver the screen does not know.  MATCHED, which he has yet to accept, is the
\* one status that does not name him; CANCELLED does.
NeedsContact(k) == GotDriver(k) /\ calls[k].got # "MATCHED" /\ ride.driver # calls[k].ride

PollFound(k) ==
    /\ At(k, "found")
    /\ \/ PollIsStale(k) /\ End(k) /\ UNCHANGED <<ride, stray>>
       \/ /\ ~PollIsStale(k) /\ ride # None
          /\ IF NeedsContact(k) THEN GoesToContact(k) /\ UNCHANGED <<ride, stray>>
             ELSE Show(WithStatus(ride, calls[k].got), AfterStatus(k)) /\ stray' = FALSE
    /\ UNCHANGED <<backendVars, step, told>>

\* getDriverContact() is back: assignDriver() and the status the poll had read,
\* in one go, on the ride the store has by now; neither the flag nor the ride's
\* id is looked at again.
ContactArrives(k) ==
    /\ At(k, "contact")
    /\ Show(WithStatus(WithDriver(ride, calls[k].ride), calls[k].got), AfterStatus(k))
    /\ NoteStray(calls[k].ride, calls[k].got)
    /\ UNCHANGED <<backendVars, step, told>>

\* Variant for the checks: the code is not compared with the ride shown.
OtpIsForShown(k) == ride # None

OtpIsWanted(k) == ShowsRide(calls[k].ride)

\* getTripOtp() is back, with the code or, once the trip has begun, with null.
OtpArrives(k) ==
    /\ At(k, "otp")
    /\ \/ OtpIsWanted(k) /\ ride' = [ride EXCEPT !.otp = calls[k].ride]
       \/ UNCHANGED ride
    /\ End(k)
    /\ UNCHANGED <<backendVars, step, told, stray>>

-----------------------------------------------------------------------------
\* The driver's tab

\* When it is shown a match, and when it accepts, the driver's app posts two
\* messages in a row: "driver.assigned", applied to any ride, and the status,
\* applied only to the ride it names.  Later steps are told by the status alone.
HearDriver ==
    /\ told # None
    /\ LET x == IF told.status \in {"MATCHED", "DRIVER_ARRIVING"}
                THEN WithDriver(ride, told.ride) ELSE ride
       IN  /\ Show(IF ShowsRide(told.ride) THEN WithStatus(x, told.status) ELSE x, calls)
           /\ stray' = (stray /\ ride' = ride)
    /\ told' = None
    /\ UNCHANGED <<backendVars, step>>

-----------------------------------------------------------------------------

PollStep(k) == PollFound(k) \/ ContactArrives(k) \/ OtpArrives(k)

Next ==
    \/ \E r \in Rides : \/ TripAppears(r) \/ CancelConsumed(r) \/ Confirm(r)
                        \/ \E s \in RideStatus : TripMoves(r, s)
    \/ \E k \in {"create", "cancel"} : CallFails(k)
    \/ RideCreated \/ Cancel \/ CancelAnswered \/ BackToChoices \/ NewRide
    \/ \E k \in Polls : Poll(k) \/ PollStep(k)
    \/ HearDriver

Spec == Init /\ [][Next]_vars

\* The timer keeps polling, some poll or other goes on, and cancellations are consumed.
\* Nothing else has to happen: no other call has to come back, nobody has to tap,
\* and a ride may stay where it is.
Fairness ==
    /\ WF_vars(\E k \in Polls : Poll(k) \/ PollStep(k))
    /\ WF_vars(\E r \in Rides : CancelConsumed(r))

FairSpec == Spec /\ Fairness

-----------------------------------------------------------------------------
\* Properties

\* Types, what a call in flight is for, and that only a poll is ever stopped.
Call == [pc : {"idle", "answered", "found", "contact", "otp"},
         ride : Rides \cup {None}, live : BOOLEAN, got : RideStatus \cup {None}]
Screen == [id : Rides, status : RideStatus, driver : Rides \cup {None}, otp : Rides \cup {None}]

TypeOK ==
    /\ trip \in [Rides -> RideStatus \cup {None}]
    /\ matched \subseteq Rides /\ asked \subseteq Rides
    /\ cancels \subseteq asked /\ parked \subseteq asked
    /\ step \in {"SELECT_RIDE", "ACTIVE_RIDE"}
    /\ ride \in Screen \cup {None}
    /\ calls \in [Callers -> Call]
    /\ \A k \in Callers :
         /\ calls[k].pc = "answered" => calls[k].ride \in asked
         /\ calls[k].pc \in {"found", "contact", "otp"} =>
              k \in Polls /\ calls[k].ride \in Rides
         /\ calls[k].pc \in {"found", "contact"} => calls[k].got \in RideStatus
         /\ calls[k].live => k \in Polls
    /\ told \in [ride : Rides, status : Told] \cup {None}
    /\ stray \in BOOLEAN

\* The code the rider reads out to the driver is the code of the ride on the
\* screen, whatever other rides were requested while it was being fetched.
CodeIsOfRide == ride # None /\ ride.otp # None => ride.otp = ride.id

\* COMPLETED and CANCELLED end the polling, so they must not be shown of a ride
\* that goes on.  CANCELLED is shown as soon as Rider Service has published the
\* cancellation: the ride is cancelled, or will be, or the event is in the Dead
\* Letter Topic and the driver is still coming.  The one exception (stray): a
\* contact or a cancellation that is answered after the rider has requested
\* another ride puts the end of the ride it was for on the new one.
EndIsTrue ==
    ride # None /\ ~stray =>
        /\ ride.status = "COMPLETED" => trip[ride.id] = "COMPLETED"
        /\ ride.status = "CANCELLED" =>
             trip[ride.id] = "CANCELLED" \/ ride.id \in cancels \cup parked

\* However polls, their second answers and the messages of the driver's tab
\* overtake each other, the screen ends up with the status of the ride, unless
\* what it was left with is an end: another ride's (stray), or that of a
\* cancellation which was refused.
ScreenCatchesUp ==
    <>[](\/ ride = None \/ stray
         \/ trip[ride.id] \in {None, ride.status}
         \/ ride.status = "CANCELLED" /\ ride.id \in parked)

\* The driver, too, is written to whatever ride the store has, by a contact and by
\* the driver's tab.  Once Trip Service has the ride, a card that shows a driver
\* ends up with the driver of its ride.
DriverSettles ==
    <>[](/\ ride # None /\ trip[ride.id] # None
         /\ ride.status \in DriverMatchedCard \cup {"IN_PROGRESS"}
         => ride.driver = ride.id)

=============================================================================
