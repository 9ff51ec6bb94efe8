---------------------------- MODULE RiderAppProofs ----------------------------
(***************************************************************************)
(* Theorems about RiderApp, for any number of rides and of polls in        *)
(* flight: types, and that the code and the end shown are those of the     *)
(* ride shown.                                                             *)
(***************************************************************************)
EXTENDS RiderApp, TLAPS

Polling == {"found", "contact", "otp"}

\* The end s of ride r is no news to Trip Service, or will be one.
EndKnown(r, s) ==
    /\ s = "COMPLETED" => trip[r] = "COMPLETED"
    /\ s = "CANCELLED" => trip[r] = "CANCELLED" \/ r \in cancels \cup parked

\* A call in flight names a ride that was asked for, and what it will write to the
\* screen may be shown of that ride.
CallIsFor(k, x) ==
    /\ x \in Call
    /\ x.pc = "answered" => x.ride \in asked
    /\ x.pc \in Polling =>
         k \in Polls /\ x.ride \in Rides
    /\ x.pc \in {"found", "contact"} => x.got \in RideStatus /\ EndKnown(x.ride, x.got)
    /\ x.live => k \in Polls
    /\ k = "cancel" /\ x.pc = "answered" => EndKnown(x.ride, "CANCELLED")

CallsAreFor(c) == c \in [Callers -> Call] /\ \A k \in Callers : CallIsFor(k, c[k])

\* What the screen may show, given whether its end is another ride's.
MayShow(x, isStray) ==
    x # None =>
      /\ x \in Screen /\ x.id \in asked
      /\ x.otp # None => x.otp = x.id
      /\ ~isStray => EndKnown(x.id, x.status)

MayTell(m) ==
    m # None => m \in [ride : Rides, status : Told] /\ EndKnown(m.ride, m.status)

BackendTyped ==
    /\ trip \in [Rides -> RideStatus \cup {None}]
    /\ matched \subseteq Rides
    /\ asked \subseteq Rides /\ cancels \subseteq asked /\ parked \subseteq asked

RiderInv ==
    /\ BackendTyped
    /\ step \in {"SELECT_RIDE", "ACTIVE_RIDE"} /\ stray \in BOOLEAN
    /\ CallsAreFor(calls)
    /\ MayShow(ride, stray)
    /\ MayTell(told)

LEMMA InvImplies == RiderInv => TypeOK /\ CodeIsOfRide /\ EndIsTrue
<1> SUFFICES ASSUME RiderInv PROVE TypeOK /\ CodeIsOfRide /\ EndIsTrue
  OBVIOUS
<1> USE DEF RiderInv
<1>1. TypeOK
  <2>1. calls \in [Callers -> Call] /\ \A k \in Callers : CallIsFor(k, calls[k])
    BY DEF CallsAreFor
  <2>2. ASSUME NEW k \in Callers
        PROVE  /\ calls[k].pc = "answered" => calls[k].ride \in asked
               /\ calls[k].pc \in {"found", "contact", "otp"} =>
                    k \in Polls /\ calls[k].ride \in Rides
               /\ calls[k].pc \in {"found", "contact"} => calls[k].got \in RideStatus
               /\ calls[k].live => k \in Polls
    BY <2>1 DEF CallIsFor, Polling
  <2>3. ride \in Screen \cup {None} /\ told \in [ride : Rides, status : Told] \cup {None}
    BY DEF MayShow, MayTell
  <2> QED BY <2>1, <2>2, <2>3 DEF TypeOK, BackendTyped
<1>2. CodeIsOfRide
  BY DEF CodeIsOfRide, MayShow
<1>3. EndIsTrue
  BY DEF EndIsTrue, MayShow, EndKnown
<1> QED BY <1>1, <1>2, <1>3

-----------------------------------------------------------------------------
\* The calls

LEMMA IdleIsFor == ASSUME NEW k PROVE CallIsFor(k, Idle)
BY RiderAppAssumption DEF CallIsFor, Idle, Call, Polling

\* One call changes, the others stay what they are for.
LEMMA OneCall ==
    ASSUME CallsAreFor(calls), NEW k \in Callers, NEW x, CallIsFor(k, x)
    PROVE  CallsAreFor([calls EXCEPT ![k] = x])
<1>1. x \in Call
  BY DEF CallIsFor
<1>2. calls \in [Callers -> Call] /\ \A e \in Callers : CallIsFor(e, calls[e])
  BY DEF CallsAreFor
<1>3. /\ [calls EXCEPT ![k] = x] \in [Callers -> Call]
      /\ [calls EXCEPT ![k] = x][k] = x
      /\ \A e \in Callers : e # k => [calls EXCEPT ![k] = x][e] = calls[e]
  BY <1>1, <1>2
<1>4. ASSUME NEW e \in Callers PROVE CallIsFor(e, [calls EXCEPT ![k] = x][e])
  <2>1. CASE e = k
    BY <1>3, <2>1
  <2>2. CASE e # k
    BY <1>2, <1>3, <2>2
  <2> QED BY <2>1, <2>2
<1> QED BY <1>3, <1>4 DEF CallsAreFor

LEMMA EndedIsFor == ASSUME CallsAreFor(calls), NEW k \in Callers PROVE CallsAreFor(Ended(k))
BY IdleIsFor, OneCall DEF Ended

\* A poll that is stopped is for the same ride still.
LEMMA StoppedIsFor ==
    ASSUME NEW k, NEW x, CallIsFor(k, x)
    PROVE  CallIsFor(k, [x EXCEPT !.live = FALSE])
<1> DEFINE y == [x EXCEPT !.live = FALSE]
<1>1. x \in Call
  BY DEF CallIsFor
<1>2. y \in Call /\ y.pc = x.pc /\ y.ride = x.ride /\ y.got = x.got /\ y.live = FALSE
  BY <1>1 DEF Call
<1> HIDE DEF y
<1>3. CallIsFor(k, y)
  BY <1>2 DEF CallIsFor
<1> QED BY <1>3 DEF y

LEMMA ShowKeepsCalls ==
    ASSUME NEW x, NEW c, CallsAreFor(c), Show(x, c)
    PROVE  ride' = x /\ CallsAreFor(calls')
<1>1. c \in [Callers -> Call] /\ \A k \in Callers : CallIsFor(k, c[k])
  BY DEF CallsAreFor
<1>2. CASE calls' = c
  BY <1>2 DEF Show
<1>3. CASE calls' = [k \in Callers |-> [c[k] EXCEPT !.live = FALSE]]
  <2>1. \A k \in Callers : CallIsFor(k, calls'[k])
    BY <1>1, <1>3, StoppedIsFor
  <2>2. \A k \in Callers : calls'[k] \in Call
    BY <2>1 DEF CallIsFor
  <2>3. calls' \in [Callers -> Call]
    BY <1>3, <2>2
  <2> QED BY <2>1, <2>3 DEF CallsAreFor, Show
<1> QED BY <1>2, <1>3 DEF Show

\* What a poll in flight becomes when it goes on to its next await.
LEMMA ContactIsFor ==
    ASSUME CallsAreFor(calls), NEW k \in Callers, At(k, "found"), GoesToContact(k)
    PROVE  CallsAreFor(calls')
<1> DEFINE x == calls[k]
           y == [x EXCEPT !.pc = "contact", !.live = FALSE]
<1>1. calls \in [Callers -> Call] /\ CallIsFor(k, x) /\ x \in Call /\ x.pc = "found"
  BY DEF CallsAreFor, At
<1>2. y \in Call /\ y.pc = "contact" /\ y.ride = x.ride /\ y.got = x.got /\ y.live = FALSE
  BY <1>1 DEF Call
<1>3. CallIsFor(k, y)
  <2> HIDE DEF y
  <2> QED BY <1>1, <1>2 DEF CallIsFor, Polling
<1>4. calls' = [calls EXCEPT ![k] = y]
  BY <1>1 DEF GoesToContact
<1> HIDE DEF y
<1> QED BY <1>3, <1>4, OneCall

LEMMA AfterStatusIsFor ==
    ASSUME CallsAreFor(calls), NEW k \in Callers, calls[k].pc \in Polling
    PROVE  CallsAreFor(AfterStatus(k))
<1> DEFINE y == [Idle EXCEPT !.pc = "otp", !.ride = calls[k].ride]
<1>1. k \in Polls /\ calls[k].ride \in Rides
  BY DEF CallsAreFor, CallIsFor
<1>2. y \in Call /\ y.pc = "otp" /\ y.ride = calls[k].ride /\ y.live = FALSE
  <2>1. Idle \in Call /\ Idle.live = FALSE
    BY RiderAppAssumption DEF Idle, Call
  <2> QED BY <1>1, <2>1 DEF Call
<1> HIDE DEF y
<1>3. CallIsFor(k, y)
  BY <1>1, <1>2 DEF CallIsFor, Polling
<1>4. CallsAreFor([calls EXCEPT ![k] = y])
  BY <1>3, OneCall
<1> QED BY <1>4, EndedIsFor DEF AfterStatus, y

-----------------------------------------------------------------------------
\* The rides

\* What is known of an end stays known, for the calls, the screen and the tab.
KnownStays ==
    /\ asked \subseteq asked'
    /\ \A r \in Rides, s \in {"COMPLETED", "CANCELLED"} : EndKnown(r, s) => EndKnown(r, s)'

LEMMA KnownStaysKnownOf ==
    KnownStays => \A r \in Rides : \A s : EndKnown(r, s) => EndKnown(r, s)'
<1> SUFFICES ASSUME KnownStays, NEW r \in Rides, NEW s, EndKnown(r, s) PROVE EndKnown(r, s)'
  OBVIOUS
<1>1. CASE s \in {"COMPLETED", "CANCELLED"}
  BY <1>1 DEF KnownStays
<1>2. CASE s \notin {"COMPLETED", "CANCELLED"}
  BY <1>2 DEF EndKnown
<1> QED BY <1>1, <1>2

LEMMA EndIsEnd ==
    ASSUME NEW from, NEW to, canTransitionRideStatus(from, to)
    PROVE  from \in RideStatus \ {"COMPLETED", "CANCELLED"} /\ to \in RideStatus
BY DEF canTransitionRideStatus, RideTransitions, RideStatus

\* Ride r, which had not ended, becomes s, and no cancellation is forgotten.
MovesTo(r, s) ==
    /\ trip[r] \notin {"COMPLETED", "CANCELLED"}
    /\ trip' = [trip EXCEPT ![r] = s]
    /\ UNCHANGED asked
    /\ \A q \in cancels \cup parked : q \in cancels' \cup parked' \/ (q = r /\ s = "CANCELLED")

LEMMA MoveKeepsKnown ==
    ASSUME BackendTyped, NEW r \in Rides, NEW s \in RideStatus, MovesTo(r, s)
    PROVE  KnownStays
<1>1. \A q \in Rides : trip'[q] = IF q = r THEN s ELSE trip[q]
  BY DEF BackendTyped, MovesTo
<1> QED BY <1>1 DEF KnownStays, EndKnown, MovesTo

-----------------------------------------------------------------------------
\* The steps

LEMMA InitInv == Init => RiderInv
<1> SUFFICES ASSUME Init PROVE RiderInv
  OBVIOUS
<1>1. CallsAreFor(calls)
  <2>1. calls = [k \in Callers |-> Idle] /\ Idle \in Call
    BY IdleIsFor DEF Init, CallIsFor
  <2> QED BY <2>1, IdleIsFor DEF CallsAreFor
<1> QED BY <1>1 DEF Init, RiderInv, BackendTyped, MayShow, MayTell

\* A step that leaves the screen and the calls alone, and forgets no end.
LEMMA OutsideStep ==
    ASSUME RiderInv, KnownStays, BackendTyped', UNCHANGED <<step, ride, calls, stray>>,
           MayTell(told)'
    PROVE  RiderInv'
<1> USE DEF RiderInv
<1>1. CallsAreFor(calls)'
  <2>1. \A k \in Callers : CallIsFor(k, calls[k])
    BY DEF CallsAreFor
  <2>2. ASSUME NEW k \in Callers PROVE CallIsFor(k, calls[k])'
    <3>1. calls[k].ride \in Rides /\ EndKnown(calls[k].ride, calls[k].got)
          => EndKnown(calls[k].ride, calls[k].got)'
      BY KnownStaysKnownOf
    <3>2. calls[k].ride \in Rides /\ EndKnown(calls[k].ride, "CANCELLED")
          => EndKnown(calls[k].ride, "CANCELLED")'
      BY KnownStaysKnownOf
    <3> QED BY <2>1, <3>1, <3>2 DEF CallIsFor, Polling, KnownStays, BackendTyped
  <2> QED BY <2>2 DEF CallsAreFor
<1>2. MayShow(ride, stray)'
  <2> SUFFICES ASSUME ride # None PROVE MayShow(ride, stray)'
    BY DEF MayShow
  <2>1. ride \in Screen /\ ride.id \in Rides
    BY DEF MayShow, Screen
  <2>2. EndKnown(ride.id, ride.status) => EndKnown(ride.id, ride.status)'
    BY <2>1, KnownStaysKnownOf
  <2> QED BY <2>2 DEF MayShow, KnownStays
<1> QED BY <1>1, <1>2

\* A step of the page that leaves the rides alone.
LEMMA PageStep ==
    ASSUME RiderInv, UNCHANGED backendVars, step' \in {"SELECT_RIDE", "ACTIVE_RIDE"},
           stray' \in BOOLEAN, CallsAreFor(calls'), MayShow(ride', stray'), MayTell(told')
    PROVE  RiderInv'
<1>1. /\ UNCHANGED <<trip, matched, asked, cancels, parked>>
      /\ BackendTyped'
  BY DEF RiderInv, BackendTyped, backendVars
<1>2. CallsAreFor(calls)'
  BY <1>1 DEF CallsAreFor, CallIsFor, EndKnown
<1>3. MayShow(ride, stray)' /\ MayTell(told)'
  BY <1>1 DEF MayShow, MayTell, EndKnown
<1> QED BY <1>1, <1>2, <1>3 DEF RiderInv

LEMMA TripAppearsInv == ASSUME RiderInv, NEW r \in Rides, TripAppears(r) PROVE RiderInv'
<1> USE RiderAppAssumption DEF TripAppears
<1>1. BackendTyped /\ "MATCHING" \in RideStatus /\ trip[r] \notin {"COMPLETED", "CANCELLED"}
  BY DEF RiderInv, RideStatus
<1>2. KnownStays
  <2>1. MovesTo(r, "MATCHING")
    BY <1>1 DEF MovesTo
  <2> QED BY <1>1, <2>1, MoveKeepsKnown
<1>3. BackendTyped'
  BY <1>1 DEF BackendTyped
<1>4. MayTell(told)'
  BY <1>2, KnownStaysKnownOf DEF RiderInv, MayTell
<1> QED BY <1>2, <1>3, <1>4, OutsideStep

LEMMA TripMovesInv ==
    ASSUME RiderInv, NEW r \in Rides, NEW s \in RideStatus, TripMoves(r, s)
    PROVE  RiderInv'
<1>1. BackendTyped /\ trip[r] \notin {"COMPLETED", "CANCELLED"}
  BY EndIsEnd DEF RiderInv, TripMoves
<1>2. KnownStays
  <2>1. MovesTo(r, s)
    BY <1>1 DEF TripMoves, MovesTo
  <2> QED BY <1>1, <2>1, MoveKeepsKnown
<1>3. BackendTyped' /\ trip'[r] = s
  BY <1>1 DEF BackendTyped, TripMoves
<1>4. MayTell(told)'
  <2>1. CASE UNCHANGED told
    BY <1>2, <2>1, KnownStaysKnownOf DEF RiderInv, MayTell
  <2>2. CASE s \in Told /\ told' \in {None, [ride |-> r, status |-> s]}
    BY <1>3, <2>2 DEF MayTell, EndKnown
  <2> QED BY <2>1, <2>2 DEF TripMoves, DriverTells
<1> QED BY <1>2, <1>3, <1>4, OutsideStep DEF TripMoves

LEMMA CancelConsumedInv ==
    ASSUME RiderInv, NEW r \in Rides, CancelConsumed(r)
    PROVE  RiderInv'
<1> USE DEF CancelConsumed
<1>1. BackendTyped /\ "CANCELLED" \in RideStatus
  BY DEF RiderInv, RideStatus
<1>2. KnownStays
  <2>1. CASE canTransitionRideStatus(trip[r], "CANCELLED")
    <3>1. trip[r] \notin {"COMPLETED", "CANCELLED"}
      BY <2>1, EndIsEnd
    <3>2. MovesTo(r, "CANCELLED")
      BY <2>1, <3>1 DEF MovesTo
    <3> QED BY <1>1, <3>2, MoveKeepsKnown
  <2>2. CASE ~canTransitionRideStatus(trip[r], "CANCELLED")
    BY <2>2 DEF KnownStays, EndKnown
  <2> QED BY <2>1, <2>2
<1>3. BackendTyped'
  BY <1>1 DEF BackendTyped
<1>4. MayTell(told)'
  BY <1>2, KnownStaysKnownOf DEF RiderInv, MayTell
<1> QED BY <1>2, <1>3, <1>4, OutsideStep

LEMMA PagesAreCallers == {"create", "cancel"} \subseteq Callers /\ Polls \subseteq Callers
BY DEF Callers

\* What the invariant says of the page before it takes a step.
LEMMA PageBefore ==
    ASSUME RiderInv
    PROVE  /\ asked \subseteq Rides /\ stray \in BOOLEAN /\ step \in {"SELECT_RIDE", "ACTIVE_RIDE"}
           /\ CallsAreFor(calls) /\ MayShow(ride, stray) /\ MayTell(told)
           /\ ride # None => ride \in Screen /\ ride.id \in asked /\ ride.id \in Rides
BY DEF RiderInv, BackendTyped, MayShow, Screen

\* A poll whose answer is still to be looked at.
LEMMA PollBefore ==
    ASSUME CallsAreFor(calls), NEW k \in Callers, calls[k].pc \in {"found", "contact"}
    PROVE  /\ calls[k].ride \in Rides /\ calls[k].got \in RideStatus
           /\ EndKnown(calls[k].ride, calls[k].got)
BY DEF CallsAreFor, CallIsFor, Polling

\* The screen with another status, which is an end of its own ride or none, or
\* is known to be another ride's.
LEMMA StatusMayShow ==
    ASSUME NEW x, NEW isStray, NEW goesStray, NEW s \in RideStatus, MayShow(x, isStray),
           x # None /\ ~goesStray => EndKnown(x.id, s)
    PROVE  MayShow(WithStatus(x, s), goesStray)
<1> SUFFICES ASSUME x # None PROVE MayShow(WithStatus(x, s), goesStray)
  BY DEF MayShow, WithStatus
<1> DEFINE y == [x EXCEPT !.status = s]
<1>1. x \in Screen
  BY DEF MayShow
<1>2. y \in Screen /\ y.id = x.id /\ y.otp = x.otp /\ y.status = s
  BY <1>1 DEF Screen
<1>3. WithStatus(x, s) = y
  BY DEF WithStatus
<1> HIDE DEF y
<1> QED BY <1>2, <1>3 DEF MayShow

\* assignDriver() shows no end.
LEMMA DriverMayShow ==
    ASSUME NEW x, NEW isStray, NEW goesStray, NEW d \in Rides, MayShow(x, isStray)
    PROVE  MayShow(WithDriver(x, d), goesStray)
<1> SUFFICES ASSUME x # None PROVE MayShow(WithDriver(x, d), goesStray)
  BY DEF MayShow, WithDriver
<1> DEFINE y == [x EXCEPT !.driver = d, !.status = "MATCHED"]
<1>1. x \in Screen
  BY DEF MayShow
<1>2. y \in Screen /\ y.id = x.id /\ y.otp = x.otp /\ y.status = "MATCHED"
  BY <1>1 DEF Screen, RideStatus
<1>3. WithDriver(x, d) = y
  BY DEF WithDriver
<1> HIDE DEF y
<1> QED BY <1>2, <1>3 DEF MayShow, EndKnown

\* A request, its call, and nothing else.
LEMMA AskedCall ==
    ASSUME NEW r
    PROVE  LET x == [Idle EXCEPT !.pc = "answered", !.ride = r]
           IN  r \in Rides => x \in Call /\ x.pc = "answered" /\ x.ride = r /\ ~x.live
<1>1. Idle \in Call /\ ~Idle.live
  BY RiderAppAssumption DEF Idle, Call
<1> QED BY <1>1 DEF Call

LEMMA ConfirmInv == ASSUME RiderInv, NEW r \in Rides, Confirm(r) PROVE RiderInv'
<1> DEFINE x == [Idle EXCEPT !.pc = "answered", !.ride = r]
<1>1. /\ calls \in [Callers -> Call] /\ \A k \in Callers : CallIsFor(k, calls[k])
      /\ asked \subseteq Rides /\ UNCHANGED <<trip, matched, cancels, parked, step, ride, told, stray>>
      /\ asked' = asked \cup {r}
  BY PageBefore DEF CallsAreFor, Confirm
<1>2. x \in Call /\ x.pc = "answered" /\ x.ride = r /\ ~x.live
  BY AskedCall
<1>3. calls' = [calls EXCEPT !["create"] = x]
  BY DEF Confirm, Publish
<1> HIDE DEF x
<1>4. CallsAreFor(calls)'
  <2>1. calls' \in [Callers -> Call] /\ calls'["create"] = x
        /\ \A k \in Callers : k # "create" => calls'[k] = calls[k]
    BY <1>1, <1>2, <1>3, PagesAreCallers
  <2>2. ASSUME NEW k \in Callers PROVE CallIsFor(k, calls[k])'
    <3>1. CASE k = "create"
      BY <1>1, <1>2, <2>1, <3>1 DEF CallIsFor, Polling
    <3>2. CASE k # "create"
      BY <1>1, <2>1, <3>2 DEF CallIsFor, EndKnown
    <3> QED BY <3>1, <3>2
  <2> QED BY <2>1, <2>2 DEF CallsAreFor
<1>5. MayShow(ride, stray)' /\ MayTell(told)'
  BY <1>1 DEF RiderInv, MayShow, MayTell, EndKnown
<1> QED BY <1>1, <1>4, <1>5 DEF RiderInv, BackendTyped

LEMMA CallFailsInv ==
    ASSUME RiderInv, NEW k \in {"create", "cancel"}, CallFails(k) PROVE RiderInv'
<1>1. CallsAreFor(calls')
  BY PageBefore, PagesAreCallers, EndedIsFor DEF CallFails, End
<1> QED BY <1>1, PageBefore, PageStep DEF CallFails

LEMMA RideCreatedInv == ASSUME RiderInv, RideCreated PROVE RiderInv'
<1> DEFINE x == Fresh(calls["create"].ride)
<1>1. calls["create"].ride \in asked
  BY PageBefore, PagesAreCallers DEF RideCreated, At, CallsAreFor, CallIsFor
<1>2. MayShow(x, FALSE)
  BY <1>1, PageBefore DEF Fresh, MayShow, Screen, RideStatus, EndKnown
<1>3. CallsAreFor(Ended("create"))
  BY PageBefore, PagesAreCallers, EndedIsFor
<1>4. Show(x, Ended("create")) /\ UNCHANGED <<backendVars, told>> /\ step' = "ACTIVE_RIDE"
      /\ stray' = FALSE
  BY DEF RideCreated
<1> HIDE DEF x
<1>5. ride' = x /\ CallsAreFor(calls')
  BY <1>3, <1>4, ShowKeepsCalls
<1> QED BY <1>2, <1>4, <1>5, PageBefore, PageStep

LEMMA CancelInv == ASSUME RiderInv, Cancel PROVE RiderInv'
<1> DEFINE x == [Idle EXCEPT !.pc = "answered", !.ride = ride.id]
<1>1. /\ calls \in [Callers -> Call] /\ \A k \in Callers : CallIsFor(k, calls[k])
      /\ ride.id \in asked /\ ride.id \in Rides /\ asked \subseteq Rides
      /\ UNCHANGED <<trip, matched, asked, parked, step, ride, told, stray>>
      /\ cancels' = cancels \cup {ride.id}
  BY PageBefore DEF CallsAreFor, Cancel, OnScreen
<1>2. x \in Call /\ x.pc = "answered" /\ x.ride = ride.id /\ ~x.live
  BY <1>1, AskedCall
<1>3. calls' = [calls EXCEPT !["cancel"] = x]
  BY DEF Cancel, Publish
<1> HIDE DEF x
<1>4. CallsAreFor(calls)'
  <2>1. calls' \in [Callers -> Call] /\ calls'["cancel"] = x
        /\ \A k \in Callers : k # "cancel" => calls'[k] = calls[k]
    BY <1>1, <1>2, <1>3, PagesAreCallers
  <2>2. ASSUME NEW k \in Callers PROVE CallIsFor(k, calls[k])'
    <3>1. CASE k = "cancel"
      BY <1>1, <1>2, <2>1, <3>1 DEF CallIsFor, Polling, EndKnown
    <3>2. CASE k # "cancel"
      BY <1>1, <2>1, <3>2 DEF CallIsFor, EndKnown
    <3> QED BY <3>1, <3>2
  <2> QED BY <2>1, <2>2 DEF CallsAreFor
<1>5. MayShow(ride, stray)' /\ MayTell(told)'
  BY <1>1 DEF RiderInv, MayShow, MayTell, EndKnown
<1>6. BackendTyped'
  BY <1>1 DEF RiderInv, BackendTyped
<1> QED BY <1>1, <1>4, <1>5, <1>6 DEF RiderInv

LEMMA CancelAnsweredInv == ASSUME RiderInv, CancelAnswered PROVE RiderInv'
<1> DEFINE x == WithStatus(ride, "CANCELLED")
<1>1. EndKnown(calls["cancel"].ride, "CANCELLED")
  BY PageBefore, PagesAreCallers DEF CancelAnswered, At, CallsAreFor, CallIsFor
<1>2. stray' = ("CANCELLED" \in Terminal /\ ride # None /\ ~ShowsRide(calls["cancel"].ride))
  BY DEF CancelAnswered, NoteStray
<1>3. stray' \in BOOLEAN /\ (ride # None /\ ~stray' => ride.id = calls["cancel"].ride)
  BY <1>2 DEF ShowsRide, Terminal
<1>4. MayShow(x, stray')
  BY <1>1, <1>3, PageBefore, StatusMayShow DEF RideStatus
<1>5. CallsAreFor(Ended("cancel"))
  BY PageBefore, PagesAreCallers, EndedIsFor
<1>6. Show(x, Ended("cancel")) /\ UNCHANGED <<backendVars, told>> /\ step' = "SELECT_RIDE"
  BY DEF CancelAnswered, cancelActiveRide
<1> HIDE DEF x
<1>7. ride' = x /\ CallsAreFor(calls')
  BY <1>5, <1>6, ShowKeepsCalls
<1> QED BY <1>3, <1>4, <1>6, <1>7, PageBefore, PageStep

LEMMA BackInv == ASSUME RiderInv, BackToChoices PROVE RiderInv'
BY PageBefore, PageStep DEF BackToChoices

LEMMA NewRideInv == ASSUME RiderInv, NewRide PROVE RiderInv'
<1>1. ride' = None /\ CallsAreFor(calls')
  BY PageBefore, ShowKeepsCalls DEF NewRide
<1>2. MayShow(ride', stray')
  BY <1>1 DEF MayShow
<1> QED BY <1>1, <1>2, PageBefore, PageStep DEF NewRide

LEMMA PollInv == ASSUME RiderInv, NEW k \in Polls, Poll(k) PROVE RiderInv'
<1> DEFINE x == [pc |-> "found", ride |-> ride.id, live |-> TRUE, got |-> trip[ride.id]]
<1>1. /\ ride # None /\ ride.status \notin Terminal /\ ride.id \in Rides
      /\ trip[ride.id] \in RideStatus
  BY PageBefore DEF Poll, RiderInv, BackendTyped
<1>2. EndKnown(ride.id, trip[ride.id])
  BY DEF EndKnown
<1>3. x \in Call
  BY <1>1 DEF Call
<1>4. CallIsFor(k, x)
  <2>1. x.pc = "found" /\ x.ride = ride.id /\ x.got = trip[ride.id]
    OBVIOUS
  <2> HIDE DEF x
  <2>2. k # "cancel" \/ x.pc # "answered"
    BY <2>1
  <2> QED BY <1>1, <1>2, <1>3, <2>1 DEF CallIsFor, Polling
<1>5. calls' = [calls EXCEPT ![k] = x]
  BY DEF Poll
<1> HIDE DEF x
<1>6. CallsAreFor(calls')
  BY <1>4, <1>5, PageBefore, PagesAreCallers, OneCall
<1> QED BY <1>6, PageBefore, PageStep DEF Poll

LEMMA PollFoundInv == ASSUME RiderInv, NEW k \in Polls, PollFound(k) PROVE RiderInv'
<1>1. k \in Callers /\ calls[k].pc = "found" /\ At(k, "found") /\ calls[k].pc \in Polling
  BY PagesAreCallers DEF PollFound, At, Polling
<1>2. calls[k].got \in RideStatus /\ EndKnown(calls[k].ride, calls[k].got)
  BY <1>1, PageBefore, PollBefore
<1>3. CallsAreFor(calls') /\ MayShow(ride', stray') /\ stray' \in BOOLEAN
  <2>1. CASE PollIsStale(k) /\ End(k) /\ UNCHANGED <<ride, stray>>
    BY <1>1, <2>1, PageBefore, EndedIsFor DEF End
  <2>2. CASE GoesToContact(k) /\ UNCHANGED <<ride, stray>>
    BY <1>1, <2>2, PageBefore, ContactIsFor
  <2>3. CASE ~PollIsStale(k) /\ Show(WithStatus(ride, calls[k].got), AfterStatus(k)) /\ stray' = FALSE
    <3> DEFINE x == WithStatus(ride, calls[k].got)
    <3>1. ride # None => ride.id = calls[k].ride
      BY <2>3 DEF PollIsStale, ShowsRide
    <3>2. MayShow(x, FALSE)
      BY <1>2, <3>1, PageBefore, StatusMayShow
    <3>3. CallsAreFor(AfterStatus(k))
      BY <1>1, PageBefore, AfterStatusIsFor
    <3> HIDE DEF x
    <3>4. ride' = x /\ CallsAreFor(calls')
      BY <2>3, <3>3, ShowKeepsCalls DEF x
    <3> QED BY <2>3, <3>2, <3>4
  <2> QED BY <2>1, <2>2, <2>3 DEF PollFound
<1> QED BY <1>3, PageBefore, PageStep DEF PollFound

LEMMA ContactArrivesInv == ASSUME RiderInv, NEW k \in Polls, ContactArrives(k) PROVE RiderInv'
<1> DEFINE w == WithDriver(ride, calls[k].ride)
           x == WithStatus(w, calls[k].got)
<1>1. k \in Callers /\ calls[k].pc = "contact" /\ calls[k].pc \in Polling
  BY PagesAreCallers DEF ContactArrives, At, Polling
<1>2. /\ calls[k].got \in RideStatus /\ calls[k].ride \in Rides
      /\ EndKnown(calls[k].ride, calls[k].got)
  BY <1>1, PageBefore, PollBefore
<1>3. stray' = (calls[k].got \in Terminal /\ ride # None /\ ~ShowsRide(calls[k].ride))
  BY DEF ContactArrives, NoteStray
<1>4. MayShow(w, FALSE)
  BY <1>2, PageBefore, DriverMayShow
<1>5. w # None => ride # None /\ w.id = ride.id
  <2> SUFFICES ASSUME ride # None PROVE w.id = ride.id
    BY DEF WithDriver
  <2>1. ride \in Screen
    BY PageBefore
  <2> QED BY <2>1 DEF WithDriver, Screen
<1>6. w # None /\ ~stray' => EndKnown(w.id, calls[k].got)
  <2> HIDE DEF w
  <2>1. CASE calls[k].got \in Terminal
    BY <1>2, <1>3, <1>5, <2>1 DEF ShowsRide
  <2>2. CASE calls[k].got \notin Terminal
    BY <2>2 DEF EndKnown, Terminal
  <2> QED BY <2>1, <2>2
<1>7. MayShow(x, stray')
  <2> HIDE DEF w
  <2> QED BY <1>2, <1>4, <1>6, StatusMayShow
<1>8. CallsAreFor(AfterStatus(k))
  BY <1>1, PageBefore, AfterStatusIsFor
<1>9. Show(x, AfterStatus(k)) /\ UNCHANGED <<backendVars, step, told>>
  BY DEF ContactArrives
<1> HIDE DEF x
<1>10. ride' = x /\ CallsAreFor(calls')
  BY <1>8, <1>9, ShowKeepsCalls
<1> QED BY <1>3, <1>7, <1>9, <1>10, PageBefore, PageStep

LEMMA OtpArrivesInv == ASSUME RiderInv, NEW k \in Polls, OtpArrives(k) PROVE RiderInv'
<1>1. k \in Callers /\ calls[k].pc \in Polling
  BY PagesAreCallers DEF OtpArrives, At, Polling
<1>2. CallsAreFor(calls')
  BY <1>1, PageBefore, EndedIsFor DEF OtpArrives, End
<1>3. MayShow(ride', stray)
  <2>1. CASE UNCHANGED ride
    BY <2>1, PageBefore
  <2>2. CASE OtpIsWanted(k) /\ ride' = [ride EXCEPT !.otp = calls[k].ride]
    <3>1. ride # None /\ ride.id = calls[k].ride /\ ride \in Screen
      BY <2>2, PageBefore DEF OtpIsWanted, ShowsRide
    <3>2. /\ ride' \in Screen /\ ride'.id = ride.id /\ ride'.driver = ride.driver
          /\ ride'.status = ride.status /\ ride'.otp = ride.id
      BY <2>2, <3>1 DEF Screen
    <3> QED BY <3>1, <3>2, PageBefore DEF MayShow
  <2> QED BY <2>1, <2>2 DEF OtpArrives
<1> QED BY <1>2, <1>3, PageBefore, PageStep DEF OtpArrives

LEMMA HearDriverInv == ASSUME RiderInv, HearDriver PROVE RiderInv'
<1> DEFINE x == IF told.status \in {"MATCHED", "DRIVER_ARRIVING"}
                THEN WithDriver(ride, told.ride) ELSE ride
           y == IF ShowsRide(told.ride) THEN WithStatus(x, told.status) ELSE x
<1>1. told.ride \in Rides /\ told.status \in RideStatus /\ EndKnown(told.ride, told.status)
  BY PageBefore, RiderAppAssumption DEF HearDriver, MayTell
<1>2. stray' = (stray /\ ride' = ride)
  BY DEF HearDriver
<1>3. Show(y, calls) /\ told' = None /\ UNCHANGED <<backendVars, step>>
  BY DEF HearDriver
<1>4. x = ride \/ MayShow(x, FALSE)
  BY <1>1, PageBefore, DriverMayShow
<1>5. x # None => ride # None /\ x.id = ride.id
  <2>1. CASE x = ride
    BY <2>1
  <2>2. CASE x # ride
    <3>1. x = WithDriver(ride, told.ride)
      BY <2>2
    <3>2. ride # None /\ ride \in Screen
      BY <2>2, <3>1, PageBefore DEF WithDriver
    <3> QED BY <3>1, <3>2 DEF WithDriver, Screen
  <2> QED BY <2>1, <2>2
<1> HIDE DEF x
<1>6. y = ride \/ MayShow(y, FALSE)
  <2>1. CASE ShowsRide(told.ride)
    <3>1. x # None => EndKnown(x.id, told.status)
      BY <1>1, <1>5, <2>1 DEF ShowsRide
    <3>2. MayShow(x, FALSE) \/ MayShow(x, stray)
      BY <1>4, PageBefore
    <3> QED BY <1>1, <2>1, <3>1, <3>2, StatusMayShow
  <2>2. CASE ~ShowsRide(told.ride)
    BY <1>4, <2>2
  <2> QED BY <2>1, <2>2
<1> HIDE DEF y
<1>7. ride' = y /\ CallsAreFor(calls') /\ MayShow(ride', stray') /\ stray' \in BOOLEAN
  <2>1. ride' = y /\ CallsAreFor(calls')
    BY <1>3, PageBefore, ShowKeepsCalls
  <2>2. CASE y = ride
    BY <1>2, <2>1, <2>2, PageBefore
  <2>3. CASE MayShow(y, FALSE)
    BY <1>2, <2>1, <2>3, PageBefore DEF MayShow
  <2> QED BY <1>6, <2>1, <2>2, <2>3
<1>8. MayTell(told')
  BY <1>3 DEF MayTell
<1> QED BY <1>3, <1>7, <1>8, PageBefore, PageStep

LEMMA NextInv == RiderInv /\ [Next]_vars => RiderInv'
<1> SUFFICES ASSUME RiderInv, [Next]_vars PROVE RiderInv'
  OBVIOUS
<1>1. CASE UNCHANGED vars
  BY <1>1, PageBefore, PageStep DEF vars, backendVars
<1>2. CASE Next
  BY <1>2, TripAppearsInv, TripMovesInv, CancelConsumedInv, ConfirmInv, CallFailsInv,
     RideCreatedInv, CancelInv, CancelAnsweredInv, BackInv, NewRideInv, PollInv,
     PollFoundInv, ContactArrivesInv, OtpArrivesInv, HearDriverInv DEF Next, PollStep
<1> QED BY <1>1, <1>2

LEMMA AlwaysInv == Spec => []RiderInv
BY InitInv, NextInv, PTL DEF Spec

\* Types hold, and a poll is for a ride there is.
THEOREM TypeCorrect == Spec => []TypeOK
BY AlwaysInv, InvImplies, PTL

\* The code the rider reads out is that of the ride on the screen, whatever
\* arrives in whatever order.
THEOREM CodeIsAlwaysOfRide == Spec => []CodeIsOfRide
BY AlwaysInv, InvImplies, PTL

\* No ride that goes on is shown as completed, nor as cancelled while nobody knows
\* of its cancellation, unless the end shown is another ride's.
THEOREM EndIsAlwaysTrue == Spec => []EndIsTrue
BY AlwaysInv, InvImplies, PTL

=============================================================================
