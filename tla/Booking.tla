------------------------------ MODULE Booking ------------------------------
(***************************************************************************)
(* The rider's page before a ride is requested: where the pickup comes     *)
(* from, the search for a place by its name, the vehicle offered, and the  *)
(* login that stands between the Confirm button and the request.           *)
(*                                                                         *)
(* Five things run at their own pace and meet in one store: the rider's    *)
(* taps, the detection of the current position (started by the page when   *)
(* it opens, and by a button), the search for the text typed as pickup and *)
(* the lookup of a vehicle near it (effects that run again when the text   *)
(* or the pickup changes, and clean up after themselves), and the calls of *)
(* the session.  The destination's own search is another copy of the one   *)
(* of the pickup; its text and its results are not kept here.              *)
(***************************************************************************)
EXTENDS FiniteSets

CONSTANTS
    Places,         \* where a ride may begin or end
    Detections,     \* detections that may be in flight
    None

ASSUME BookingAssumption == None \notin Places

VARIABLES
    pickup, destination,    \* useBookingStore
    text, open,     \* the pickup's input: the place named, None if too short; its dropdown
    timer, flights, \* the search for the text: its debounce timer, the texts in flight
    results,        \* the text whose results are shown, or None
    estimate,   \* useBookingStore.nearbyVehicle: the place it was looked up for, or None
    lookup,     \* the lookup in flight that counts: the place it is for, or None
    stale,      \* a cancelled lookup still in flight, or None
    loading,    \* RideOptionsList: its isLoading
    failed,     \* RideOptionsList: its loadError
    detection,  \* the detections in flight
    step,       \* the page: choosing a ride or following one
    gate,       \* the login overlay: what the screen showed at Confirm, or None
    call,       \* POST /rides in flight: what it asks for, or None
    user,       \* useAuthStore: the role of the session, or None
    auth,       \* the call of the session in flight
    registered, \* Rider Service has an account for this rider
    chosen      \* history: the pickup is one the rider took from the dropdown, and no
                \* detection has been asked for since

placeVars == <<pickup, destination, chosen>>
searchVars == <<text, open, timer, flights, results>>
offerVars == <<estimate, lookup, stale, loading, failed>>
sessionVars == <<user, auth, registered>>
vars == <<placeVars, searchVars, offerVars, detection, step, gate, call, sessionVars>>

Point == Places \cup {None}

-----------------------------------------------------------------------------
\* The vehicle offered: an effect of the pickup, while the choices are shown

\* The pickup becomes p.  If the choices are shown and p is another place, the
\* lookup in flight is cancelled and one for p begins; without a pickup none
\* does, and nobody resets isLoading.  (One cancelled lookup is kept track of.)
PickupBecomes(p) ==
    /\ pickup' = p
    /\ IF p = pickup \/ step = "ACTIVE_RIDE" THEN UNCHANGED offerVars
       ELSE /\ stale' = IF lookup = None THEN stale ELSE lookup
            /\ lookup' = p
            /\ IF p = None THEN UNCHANGED <<loading, failed>>
               ELSE loading' = TRUE /\ failed' = FALSE
            /\ UNCHANGED estimate

\* Variant for the checks: isLoading is reset by a lookup that finds somebody.
LookupAnsweredInThen ==
    /\ lookup # None
    /\ \/ estimate' = lookup /\ loading' = FALSE /\ UNCHANGED failed
       \/ estimate' = None /\ UNCHANGED <<loading, failed>>
       \/ failed' = TRUE /\ UNCHANGED <<loading, estimate>>
    /\ lookup' = None
    /\ UNCHANGED <<placeVars, searchVars, stale, detection, step, gate, call, sessionVars>>

\* findNearbyVehicle() is back: somebody near the place, nobody, or an error,
\* which leaves the vehicle that was shown before.
LookupAnswered ==
    /\ lookup # None
    /\ \/ estimate' \in {lookup, None} /\ UNCHANGED failed
       \/ failed' = TRUE /\ UNCHANGED estimate
    /\ loading' = FALSE
    /\ lookup' = None
    /\ UNCHANGED <<placeVars, searchVars, stale, detection, step, gate, call, sessionVars>>

\* Variant for the checks: the answer is not asked whether it was cancelled.
StaleAnsweredApplied ==
    /\ stale # None
    /\ estimate' = stale /\ stale' = None
    /\ UNCHANGED <<placeVars, searchVars, lookup, loading, failed>>
    /\ UNCHANGED <<detection, step, gate, call, sessionVars>>

StaleAnswered ==
    /\ stale # None
    /\ stale' = None
    /\ UNCHANGED <<placeVars, searchVars, estimate, lookup, loading, failed>>
    /\ UNCHANGED <<detection, step, gate, call, sessionVars>>

-----------------------------------------------------------------------------
\* Choosing places

\* Variant for the checks: the page can be used behind the overlay.
ChoosingBehindGate == step = "SELECT_RIDE"

\* The inputs and the choices are shown, and the overlay does not cover them.
Choosing == step = "SELECT_RIDE" /\ gate = None
choiceFrame == UNCHANGED <<detection, step, gate, call, sessionVars>>

\* Variant for the checks: the search of the last text is not aborted.
InputBecomesUnaborted(t, o) ==
    /\ text' = t /\ open' = o
    /\ IF t = text /\ o = open THEN UNCHANGED <<timer, flights, results>>
       ELSE /\ timer' = (o /\ t # None)
            /\ results' = IF o /\ t = None THEN None ELSE results
            /\ UNCHANGED flights

\* The pickup's input: the text becomes t, the dropdown open or not.  The effect
\* of usePlaceSearch drops the search of the last text, be it waiting or in
\* flight, and while the dropdown is open waits for the next one.
InputBecomes(t, o) ==
    /\ text' = t /\ open' = o
    /\ IF t = text /\ o = open THEN UNCHANGED <<timer, flights, results>>
       ELSE /\ flights' = {}
            /\ timer' = (o /\ t # None)
            /\ results' = IF o /\ t = None THEN None ELSE results

inputFrame == UNCHANGED <<placeVars, offerVars>> /\ choiceFrame

\* The input has the focus, or has lost it; the rider types, or clears the text.
Focus == Choosing /\ ~open /\ InputBecomes(text, TRUE) /\ inputFrame
Blur == open /\ InputBecomes(text, FALSE) /\ inputFrame
Type(t) == Choosing /\ t # text /\ InputBecomes(t, open) /\ inputFrame

\* The debounce time is over, and searchPlaces() asks for the text there is.
SearchBegins ==
    /\ timer
    /\ timer' = FALSE
    /\ flights' = flights \cup {text}
    /\ UNCHANGED <<text, open, results>> /\ inputFrame

\* Places of that name; or none, or an error.  (isSearching, which only tells
\* "Searching" from "No matches", is left out.)
SearchAnswered(q) ==
    /\ q \in flights
    /\ flights' = flights \ {q}
    /\ results' \in {q, None}
    /\ UNCHANGED <<text, open, timer>> /\ inputFrame

\* From the popular places, while the text is too short to search, or from the
\* results.
SelectPickup(p) ==
    /\ Choosing /\ open
    /\ text = None \/ p = results
    /\ PickupBecomes(p)
    /\ InputBecomes(p, FALSE)
    /\ chosen' = TRUE
    /\ UNCHANGED destination /\ choiceFrame

SelectDest(p) ==
    /\ Choosing
    /\ destination' = p
    /\ UNCHANGED <<pickup, chosen, searchVars, offerVars>> /\ choiceFrame

\* The store swaps the two points, set or not, and the inputs their texts: that of
\* the destination is the place it names, or whatever was typed there since.
Swap ==
    /\ Choosing
    /\ PickupBecomes(destination)
    /\ \E t \in Point : InputBecomes(t, open)
    /\ destination' = pickup
    /\ chosen' = FALSE
    /\ choiceFrame

-----------------------------------------------------------------------------
\* Detecting the position

Rest == [pc |-> "idle", place |-> None]
detectFrame == UNCHANGED <<step, gate, call, sessionVars>>

\* "Use my current location", in the dropdown.  The button is disabled while its
\* own component is detecting; a component that was shown before may still be.
Detect(d) ==
    /\ Choosing /\ open /\ detection[d].pc = "idle"
    /\ detection' = [detection EXCEPT ![d].pc = "locating"]
    /\ chosen' = FALSE
    /\ UNCHANGED <<pickup, destination, searchVars, offerVars>> /\ detectFrame

\* The position, or an error; then any driver online, or none.
Located(d) ==
    /\ \/ /\ detection[d].pc \in {"locating", "seeding"}
          /\ \E p \in Places : detection' = [detection EXCEPT ![d] = [pc |-> "naming", place |-> p]]
       \/ /\ detection[d].pc = "locating"
          /\ detection' = [detection EXCEPT ![d].pc = "seeding"]
       \/ /\ detection[d].pc = "seeding"
          /\ detection' = [detection EXCEPT ![d] = Rest]
    /\ UNCHANGED <<placeVars, searchVars, offerVars>> /\ detectFrame

\* reverseGeocode() is back, with an address or without.  Whatever the rider has
\* done meanwhile, and whichever step is shown, the store takes the position.
\* So does the input, if it is still the one the detection was started for; the
\* position of a driver leaves the dropdown as it is.
Detected(d) ==
    /\ detection[d].pc = "naming"
    /\ PickupBecomes(detection[d].place)
    /\ \/ step = "SELECT_RIDE" /\ \E o \in {open, FALSE} : InputBecomes(detection[d].place, o)
       \/ UNCHANGED searchVars
    /\ detection' = [detection EXCEPT ![d] = Rest]
    /\ UNCHANGED <<destination, chosen>>
    /\ gate' = IF gate = None THEN None ELSE [gate EXCEPT !.moved = TRUE]
    /\ UNCHANGED <<step, call, sessionVars>>

-----------------------------------------------------------------------------
\* Confirming

\* The button's "disabled"; the overlay covers it.
CanConfirm == Choosing /\ call = None /\ ~loading /\ estimate # None

Shown == [pickup |-> pickup, destination |-> destination, moved |-> FALSE]

\* handleRequestRide(), with a session of that role, for a Confirm that saw g:
\* createRide() sends what the store has now.
Request(g, role) ==
    IF pickup = None \/ destination = None THEN UNCHANGED call
    ELSE call' = [pickup |-> pickup, destination |-> destination, role |-> role, for |-> g]

\* Without a session the overlay is shown, whether the places are set or not.
Confirm ==
    /\ CanConfirm
    /\ IF user = None THEN gate' = Shown /\ UNCHANGED call
       ELSE Request(Shown, user) /\ UNCHANGED gate
    /\ UNCHANGED <<placeVars, searchVars, offerVars, detection, step, sessionVars>>

\* "Keep browsing without logging in".
CloseGate ==
    /\ gate # None
    /\ gate' = None
    /\ UNCHANGED <<placeVars, searchVars, offerVars, detection, step, call, sessionVars>>

\* ROLE_POLICIES: POST /rides is for riders.
Permitted(role) == role = "RIDER"

\* Accepted, and the ride is followed, its inputs and offers unmounted; or refused
\* by the gateway or Rider Service, or lost.
RequestAnswered ==
    /\ call # None
    /\ call' = None
    /\ \/ /\ Permitted(call.role)
          /\ step' = "ACTIVE_RIDE"
          /\ lookup' = None /\ loading' = FALSE /\ failed' = FALSE
          /\ stale' = IF lookup = None THEN stale ELSE lookup
          /\ InputBecomes(None, FALSE)
          /\ UNCHANGED estimate
       \/ UNCHANGED <<step, searchVars, offerVars>>
    /\ UNCHANGED <<placeVars, detection, gate, sessionVars>>

\* The choices are shown again, with an input that names the pickup there is, and
\* the effect runs for it.  (A new input detects the position if there is no pickup;
\* a ride was requested with one, and nothing takes it away.)
BackToChoices ==
    /\ step = "ACTIVE_RIDE"
    /\ step' = "SELECT_RIDE"
    /\ text' = pickup /\ results' = None
    /\ lookup' = pickup /\ loading' = (pickup # None)
    /\ UNCHANGED <<open, timer, flights>>
    /\ UNCHANGED <<placeVars, estimate, stale, failed, detection, gate, call, sessionVars>>

-----------------------------------------------------------------------------
\* The session

sessionFrame == UNCHANGED <<placeVars, searchVars, offerVars, detection, step>>

\* The form is shown, and its button is enabled.
FormReady == gate # None /\ auth = "idle"

\* The form of the overlay, in one of its two modes: log in, or register and then
\* log in.
Submit(what) ==
    /\ FormReady
    /\ auth' = what
    /\ UNCHANGED <<user, registered, gate, call>> /\ sessionFrame

\* Rider Service takes phone and e-mail once, and lets in who has an account.
MayRegister == ~registered
MayLogIn == registered

\* POST /riders: an account, whose answer may be lost, or a conflict.  The form
\* logs in when it has heard of the account.
Registered ==
    /\ auth = "register"
    /\ registered' = TRUE
    /\ auth' \in IF MayRegister THEN {"login", "idle"} ELSE {"idle"}
    /\ UNCHANGED <<user, gate, call>> /\ sessionFrame

\* POST /riders/login.  If the overlay is still open the page closes it and asks
\* for the ride at once.
LoggedIn ==
    /\ auth = "login" /\ MayLogIn
    /\ user' = "RIDER" /\ auth' = "idle"
    /\ IF gate = None THEN UNCHANGED call ELSE Request(gate, "RIDER")
    /\ gate' = None
    /\ UNCHANGED registered /\ sessionFrame

\* No such account, another password, or no answer.
AuthFails ==
    /\ auth # "idle"
    /\ auth' = "idle"
    /\ UNCHANGED <<user, registered, gate, call>> /\ sessionFrame

\* A session lives in the browser until logout(), whatever its token is worth.
Logout ==
    /\ user # None /\ gate = None
    /\ user' = None
    /\ UNCHANGED <<auth, registered, gate, call>> /\ sessionFrame

-----------------------------------------------------------------------------

\* The page has just been opened: it detects the position.
Init ==
    /\ pickup = None /\ destination = None
    /\ text = None /\ open = FALSE
    /\ timer = FALSE /\ flights = {} /\ results = None
    /\ estimate = None /\ lookup = None /\ stale = None
    /\ loading = FALSE /\ failed = FALSE
    /\ \E m \in Detections :
         detection = [d \in Detections |-> IF d = m THEN [Rest EXCEPT !.pc = "locating"] ELSE Rest]
    /\ step = "SELECT_RIDE"
    /\ gate = None /\ call = None
    /\ user \in {None, "RIDER", "DRIVER"}
    /\ auth = "idle"
    /\ registered \in IF user = "RIDER" THEN {TRUE} ELSE BOOLEAN
    /\ chosen = FALSE

Next ==
    \/ \E p \in Places : SelectPickup(p) \/ SelectDest(p)
    \/ Swap \/ Focus \/ Blur \/ SearchBegins
    \/ \E t \in Point : Type(t) \/ SearchAnswered(t)
    \/ \E d \in Detections : Detect(d) \/ Located(d) \/ Detected(d)
    \/ LookupAnswered \/ StaleAnswered
    \/ Confirm \/ CloseGate \/ RequestAnswered \/ BackToChoices
    \/ \E what \in {"login", "register"} : Submit(what)
    \/ Registered \/ LoggedIn \/ AuthFails \/ Logout

Spec == Init /\ [][Next]_vars

-----------------------------------------------------------------------------
\* Properties

TypeOK ==
    /\ {pickup, destination, text, results, estimate, lookup, stale} \subseteq Point
    /\ {open, timer, loading, failed, registered, chosen} \subseteq BOOLEAN
    /\ flights \subseteq Places
    /\ \A d \in Detections :
         /\ detection[d].pc \in {"idle", "locating", "seeding", "naming"}
         /\ detection[d].place \in Point
    /\ step \in {"SELECT_RIDE", "ACTIVE_RIDE"}
    /\ auth \in {"idle", "login", "register"}
    /\ user \in {None, "RIDER", "DRIVER"} /\ (user = "RIDER" => registered)
    /\ gate # None => user = None /\ step = "SELECT_RIDE"

\* What is requested is what the screen showed when the rider tapped Confirm,
\* with any login, registration or failure in between; unless a detection ended
\* behind the overlay and moved the pickup.
RequestIsAsConfirmed ==
    call # None =>
        /\ call.destination = call.for.destination
        /\ call.pickup = call.for.pickup \/ call.for.moved

\* The places offered for a text, once its search is over, are those found for
\* it, never those of a text typed before: each search is dropped, waiting or in
\* flight, when the text changes.
ResultsAreForText ==
    open /\ text # None /\ ~timer /\ flights = {} => results \in {text, None}

\* The vehicle that can be confirmed was looked up for the pickup shown, not for
\* an earlier one, unless the lookup failed and the page says so.
EstimateIsForPickup ==
    CanConfirm /\ pickup # None => estimate = pickup \/ failed

\* While the page says "Finding drivers" a lookup that will end it is in flight, or
\* the pickup is gone: a lookup that is cancelled resets nothing when it is back,
\* so the one that took its place must.
LoadingHasLookup == loading /\ pickup # None => lookup # None

\* "never clobber an explicit choice" (LocationSearchInputs): a detection does
\* not replace a pickup the rider has chosen.
ExplicitChoiceKept ==
    [][\A d \in Detections : chosen /\ Detected(d) => pickup' = pickup]_vars

=============================================================================
