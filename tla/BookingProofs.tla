---------------------------- MODULE BookingProofs ----------------------------
(***************************************************************************)
(* Theorems about Booking, for any number of places and of detections in   *)
(* flight: what the four effects of the page leave on the screen belongs   *)
(* together, and what is requested is what was confirmed.                  *)
(***************************************************************************)
EXTENDS Booking, TLAPS

\* Every step does one of these to the pickup and the vehicle offered.
OfferStep ==
    \/ UNCHANGED <<pickup, offerVars, step>>
    \/ \E p : PickupBecomes(p) /\ UNCHANGED step
    \/ LookupAnswered \/ StaleAnswered \/ RequestAnswered \/ BackToChoices

LEMMA NextIsOfferStep == [Next]_vars => OfferStep
<1> SUFFICES ASSUME [Next]_vars PROVE OfferStep
  OBVIOUS
<1> USE DEF OfferStep
<1>1. ASSUME NEW p \in Places, SelectPickup(p) PROVE OfferStep
  BY <1>1 DEF SelectPickup, choiceFrame
<1>2. CASE Swap
  BY <1>2 DEF Swap, choiceFrame
<1>3. ASSUME NEW d \in Detections, Detected(d) PROVE OfferStep
  BY <1>3 DEF Detected
<1>4. ASSUME NEW p \in Places, SelectDest(p) PROVE OfferStep
  BY <1>4 DEF SelectDest, choiceFrame
<1>5. ASSUME NEW t \in Point, Type(t) \/ SearchAnswered(t) PROVE OfferStep
  BY <1>5 DEF Type, SearchAnswered, inputFrame, choiceFrame, placeVars
<1>6. CASE Focus \/ Blur \/ SearchBegins
  BY <1>6 DEF Focus, Blur, SearchBegins, inputFrame, choiceFrame, placeVars
<1>7. ASSUME NEW d \in Detections, Detect(d) \/ Located(d) PROVE OfferStep
  BY <1>7 DEF Detect, Located, placeVars, detectFrame
<1>8. CASE Confirm \/ CloseGate
  BY <1>8 DEF Confirm, CloseGate, placeVars
<1>9. ASSUME NEW what \in {"login", "register"}, Submit(what) PROVE OfferStep
  BY <1>9 DEF Submit, sessionFrame, placeVars
<1>10. CASE Registered \/ LoggedIn \/ AuthFails \/ Logout
  BY <1>10 DEF Registered, LoggedIn, AuthFails, Logout, sessionFrame, placeVars
<1>11. CASE UNCHANGED vars
  BY <1>11 DEF vars, placeVars
<1> QED BY <1>1, <1>2, <1>3, <1>4, <1>5, <1>6, <1>7, <1>8, <1>9, <1>10, <1>11 DEF Next

\* A lookup that counts is for the pickup, and while one is not in flight the
\* vehicle shown is the pickup's, or an error is.
OfferInv ==
    /\ step \in {"SELECT_RIDE", "ACTIVE_RIDE"}
    /\ step = "ACTIVE_RIDE" => ~loading
    /\ step = "SELECT_RIDE" => lookup \in {None, pickup}
    /\ loading /\ pickup # None => lookup # None
    /\ step = "SELECT_RIDE" /\ pickup # None /\ estimate # None /\ ~loading
       => estimate = pickup \/ failed

LEMMA OfferInitInv == Init => OfferInv
BY DEF Init, OfferInv

LEMMA OfferNextInv == OfferInv /\ [Next]_vars => OfferInv'
<1> SUFFICES ASSUME OfferInv, OfferStep PROVE OfferInv'
  BY NextIsOfferStep
<1> USE DEF OfferInv
<1>1. CASE UNCHANGED <<pickup, offerVars, step>>
  BY <1>1 DEF offerVars
<1>2. ASSUME NEW p, PickupBecomes(p), UNCHANGED step PROVE OfferInv'
  <2>1. CASE p = pickup \/ step = "ACTIVE_RIDE"
    BY <1>2, <2>1 DEF PickupBecomes, offerVars
  <2>2. CASE p # pickup /\ step # "ACTIVE_RIDE" /\ p = None
    BY <1>2, <2>2 DEF PickupBecomes
  <2>3. CASE p # pickup /\ step # "ACTIVE_RIDE" /\ p # None
    BY <1>2, <2>3 DEF PickupBecomes
  <2> QED BY <2>1, <2>2, <2>3
<1>3. CASE LookupAnswered
  BY <1>3 DEF LookupAnswered, placeVars
<1>4. CASE StaleAnswered
  BY <1>4 DEF StaleAnswered, placeVars
<1>5. CASE RequestAnswered
  <2>1. /\ UNCHANGED <<pickup, estimate>>
        /\ \/ step' = "ACTIVE_RIDE" /\ lookup' = None /\ loading' = FALSE
           \/ UNCHANGED <<step, lookup, loading, failed>>
    BY <1>5 DEF RequestAnswered, placeVars, offerVars
  <2> QED BY <2>1
<1>6. CASE BackToChoices
  <2>1. /\ step' = "SELECT_RIDE" /\ lookup' = pickup /\ UNCHANGED <<pickup, estimate, failed>>
        /\ loading' = (pickup # None)
    BY <1>6 DEF BackToChoices, placeVars
  <2>2. CASE pickup = None
    BY <2>1, <2>2
  <2>3. CASE pickup # None
    <3>1. loading' = TRUE
      BY <2>1, <2>3
    <3> QED BY <2>1, <2>3, <3>1
  <2> QED BY <2>2, <2>3
<1> QED BY <1>1, <1>2, <1>3, <1>4, <1>5, <1>6 DEF OfferStep

\* The vehicle that can be confirmed was looked up for the pickup shown.
THEOREM EstimateIsAlwaysForPickup == Spec => []EstimateIsForPickup
<1>1. OfferInv => EstimateIsForPickup
  BY DEF OfferInv, EstimateIsForPickup, CanConfirm, Choosing
<1> QED BY <1>1, OfferInitInv, OfferNextInv, PTL DEF Spec

\* The page never says "Finding drivers" with nobody there to end it.
THEOREM LoadingAlwaysHasLookup == Spec => []LoadingHasLookup
<1>1. OfferInv => LoadingHasLookup
  BY DEF OfferInv, LoadingHasLookup
<1> QED BY <1>1, OfferInitInv, OfferNextInv, PTL DEF Spec

-----------------------------------------------------------------------------
\* The search

\* Every step does one of these to the text and what was searched for it.
SearchStep ==
    \/ UNCHANGED searchVars /\ (UNCHANGED step \/ step' # "ACTIVE_RIDE")
    \/ \E t, o : /\ InputBecomes(t, o)
                 /\ step' = "ACTIVE_RIDE" => t = None \/ (t = text /\ UNCHANGED step)
    \/ SearchBegins
    \/ \E q : SearchAnswered(q)
    \/ BackToChoices

LEMMA NextIsSearchStep == OfferInv /\ [Next]_vars => SearchStep
<1> SUFFICES ASSUME OfferInv, [Next]_vars PROVE SearchStep
  OBVIOUS
<1> USE DEF SearchStep
<1>1. ASSUME NEW p \in Places, SelectPickup(p) PROVE SearchStep
  BY <1>1 DEF SelectPickup, choiceFrame, Choosing
<1>2. CASE Swap
  BY <1>2 DEF Swap, choiceFrame, Choosing
<1>3. ASSUME NEW d \in Detections, Detected(d) PROVE SearchStep
  BY <1>3 DEF Detected
<1>4. ASSUME NEW p \in Places, SelectDest(p) PROVE SearchStep
  BY <1>4 DEF SelectDest, choiceFrame
<1>5. ASSUME NEW t \in Point, Type(t) \/ SearchAnswered(t) PROVE SearchStep
  BY <1>5 DEF Type, inputFrame, choiceFrame, Choosing
<1>6. CASE Focus \/ Blur \/ SearchBegins
  BY <1>6 DEF Focus, Blur, inputFrame, choiceFrame, Choosing
<1>7. ASSUME NEW d \in Detections, Detect(d) \/ Located(d) PROVE SearchStep
  BY <1>7 DEF Detect, Located, detectFrame
<1>8. CASE Confirm \/ CloseGate \/ LookupAnswered \/ StaleAnswered
  BY <1>8 DEF Confirm, CloseGate, LookupAnswered, StaleAnswered
<1>9. ASSUME NEW what \in {"login", "register"}, Submit(what) PROVE SearchStep
  BY <1>9 DEF Submit, sessionFrame
<1>10. CASE Registered \/ LoggedIn \/ AuthFails \/ Logout
  BY <1>10 DEF Registered, LoggedIn, AuthFails, Logout, sessionFrame
<1>11. CASE RequestAnswered \/ BackToChoices
  BY <1>11 DEF RequestAnswered
<1>12. CASE UNCHANGED vars
  BY <1>12 DEF vars
<1> QED BY <1>1, <1>2, <1>3, <1>4, <1>5, <1>6, <1>7, <1>8, <1>9, <1>10, <1>11, <1>12 DEF Next

\* What is in flight is for the text there is, and while a ride is followed, with
\* the input unmounted, there is no text.
SearchInv ==
    /\ flights \subseteq {text} \ {None}
    /\ timer => text # None
    /\ step = "ACTIVE_RIDE" => text = None
    /\ ResultsAreForText

LEMMA SearchInitInv == Init => SearchInv
BY DEF Init, SearchInv, ResultsAreForText

LEMMA SearchNextInv == OfferInv /\ SearchInv /\ [Next]_vars => SearchInv'
<1> SUFFICES ASSUME OfferInv, SearchInv, SearchStep PROVE SearchInv'
  BY NextIsSearchStep
<1> USE DEF SearchInv, ResultsAreForText
<1>1. CASE UNCHANGED searchVars /\ (UNCHANGED step \/ step' # "ACTIVE_RIDE")
  BY <1>1 DEF searchVars
<1>2. ASSUME NEW t, NEW o, InputBecomes(t, o),
             step' = "ACTIVE_RIDE" => t = None \/ (t = text /\ UNCHANGED step)
      PROVE  SearchInv'
  <2>1. CASE t = text /\ o = open
    BY <1>2, <2>1 DEF InputBecomes
  <2>2. CASE ~(t = text /\ o = open)
    <3>1. text' = t /\ open' = o /\ flights' = {} /\ timer' = (o /\ t # None)
      BY <1>2, <2>2 DEF InputBecomes
    <3>2. (timer' => text' # None) /\ (open' /\ text' # None => timer')
      BY <3>1
    <3>3. step' = "ACTIVE_RIDE" => text' = None
      BY <1>2, <3>1
    <3> QED BY <3>1, <3>2, <3>3
  <2> QED BY <2>1, <2>2
<1>3. CASE SearchBegins
  BY <1>3 DEF SearchBegins, inputFrame, choiceFrame
<1>4. ASSUME NEW q, SearchAnswered(q) PROVE SearchInv'
  BY <1>4 DEF SearchAnswered, inputFrame, choiceFrame
<1>5. CASE BackToChoices
  BY <1>5 DEF BackToChoices
<1> QED BY <1>1, <1>2, <1>3, <1>4, <1>5 DEF SearchStep

\* The places offered for a text, once its search is over, are those found for it.
THEOREM ResultsAreAlwaysForText == Spec => []ResultsAreForText
<1>1. SearchInv => ResultsAreForText
  BY DEF SearchInv
<1> QED BY <1>1, OfferInitInv, OfferNextInv, SearchInitInv, SearchNextInv, PTL DEF Spec

-----------------------------------------------------------------------------
\* The request

\* What the overlay covers is what the store has, but for a pickup that a detection
\* moved; and what was asked for is what the overlay, or the screen, had.
AsSeen(g, p, d) == g.destination = d /\ (g.pickup = p \/ g.moved)

GateInv ==
    /\ gate # None => /\ gate = [pickup |-> gate.pickup, destination |-> gate.destination,
                                 moved |-> gate.moved]
                      /\ AsSeen(gate, pickup, destination)
    /\ call # None => AsSeen(call.for, call.pickup, call.destination)

LEMMA GateInitInv == Init => GateInv
BY DEF Init, GateInv

\* Requesting with a Confirm that saw g.
LEMMA RequestIsAsSeen ==
    ASSUME GateInv, NEW g, AsSeen(g, pickup, destination), NEW role, Request(g, role)
    PROVE  call' # None => AsSeen(call'.for, call'.pickup, call'.destination)
<1>1. CASE UNCHANGED call
  BY <1>1 DEF GateInv
<1>2. CASE call' = [pickup |-> pickup, destination |-> destination, role |-> role, for |-> g]
  BY <1>2 DEF AsSeen
<1> QED BY <1>1, <1>2 DEF Request

LEMMA GateNextInv == GateInv /\ [Next]_vars => GateInv'
<1> SUFFICES ASSUME GateInv, [Next]_vars PROVE GateInv'
  OBVIOUS
<1> DEFINE quiet == UNCHANGED <<pickup, destination, gate, call>>
           unseen == gate = None /\ UNCHANGED <<gate, call>>
<1>Q. quiet \/ unseen => GateInv'
  BY DEF GateInv, AsSeen
<1> HIDE DEF quiet, unseen
<1>1. ASSUME NEW p \in Places, SelectPickup(p) \/ SelectDest(p) PROVE GateInv'
  BY <1>1, <1>Q DEF SelectPickup, SelectDest, Choosing, choiceFrame, unseen
<1>2. CASE Swap
  BY <1>2, <1>Q DEF Swap, Choosing, choiceFrame, unseen
<1>3. ASSUME NEW d \in Detections, Detected(d) PROVE GateInv'
  <2>1. UNCHANGED <<destination, call>>
        /\ gate' = IF gate = None THEN None ELSE [gate EXCEPT !.moved = TRUE]
    BY <1>3 DEF Detected
  <2>2. CASE gate = None
    BY <2>1, <2>2 DEF GateInv, AsSeen
  <2>3. CASE gate # None
    <3>1. gate' = [pickup |-> gate.pickup, destination |-> gate.destination, moved |-> TRUE]
      BY <2>1, <2>3 DEF GateInv
    <3>2. gate'.moved /\ gate'.destination = destination
          /\ gate' = [pickup |-> gate'.pickup, destination |-> gate'.destination,
                      moved |-> gate'.moved]
      BY <2>3, <3>1 DEF GateInv, AsSeen
    <3> QED BY <2>1, <3>2 DEF GateInv, AsSeen
  <2> QED BY <2>2, <2>3
<1>4. ASSUME NEW t \in Point, Type(t) \/ SearchAnswered(t) PROVE GateInv'
  BY <1>4, <1>Q DEF Type, SearchAnswered, inputFrame, choiceFrame, placeVars, quiet
<1>5. CASE Focus \/ Blur \/ SearchBegins
  BY <1>5, <1>Q DEF Focus, Blur, SearchBegins, inputFrame, choiceFrame, placeVars, quiet
<1>6. ASSUME NEW d \in Detections, Detect(d) \/ Located(d) PROVE GateInv'
  BY <1>6, <1>Q DEF Detect, Located, placeVars, detectFrame, quiet
<1>7. CASE LookupAnswered \/ StaleAnswered \/ BackToChoices
  BY <1>7, <1>Q DEF LookupAnswered, StaleAnswered, BackToChoices, placeVars, quiet
<1>8. CASE Confirm
  <2>1. gate = None /\ UNCHANGED <<pickup, destination>>
    BY <1>8 DEF Confirm, CanConfirm, Choosing, placeVars
  <2>2. AsSeen(Shown, pickup, destination)
        /\ Shown = [pickup |-> Shown.pickup, destination |-> Shown.destination,
                    moved |-> Shown.moved]
    BY DEF AsSeen, Shown
  <2>3. CASE gate' = Shown /\ UNCHANGED call
    BY <2>1, <2>2, <2>3 DEF GateInv
  <2>4. CASE Request(Shown, user) /\ UNCHANGED gate
    BY <2>1, <2>2, <2>4, RequestIsAsSeen DEF GateInv
  <2> QED BY <1>8, <2>3, <2>4 DEF Confirm
<1>9. CASE CloseGate \/ RequestAnswered
  <2>1. UNCHANGED <<pickup, destination>> /\ gate' \in {gate, None} /\ call' \in {call, None}
    BY <1>9 DEF CloseGate, RequestAnswered, placeVars
  <2> QED BY <2>1 DEF GateInv
<1>10. CASE LoggedIn
  <2>1. gate' = None /\ UNCHANGED <<pickup, destination>>
    BY <1>10 DEF LoggedIn, sessionFrame, placeVars
  <2>2. CASE UNCHANGED call
    BY <2>1, <2>2 DEF GateInv
  <2>3. CASE gate # None /\ Request(gate, "RIDER")
    BY <2>1, <2>3, RequestIsAsSeen DEF GateInv
  <2> QED BY <1>10, <2>2, <2>3 DEF LoggedIn
<1>11. ASSUME NEW what \in {"login", "register"}, Submit(what) PROVE GateInv'
  BY <1>11, <1>Q DEF Submit, sessionFrame, placeVars, quiet
<1>12. CASE Registered \/ AuthFails \/ Logout \/ UNCHANGED vars
  BY <1>12, <1>Q DEF Registered, AuthFails, Logout, sessionFrame, placeVars, vars, quiet
<1> QED BY <1>1, <1>2, <1>3, <1>4, <1>5, <1>6, <1>7, <1>8, <1>9, <1>10, <1>11, <1>12 DEF Next

\* What is requested is what the screen showed when the rider tapped Confirm.
THEOREM RequestIsAlwaysAsConfirmed == Spec => []RequestIsAsConfirmed
<1>1. GateInv => RequestIsAsConfirmed
  BY DEF GateInv, AsSeen, RequestIsAsConfirmed
<1> QED BY <1>1, GateInitInv, GateNextInv, PTL DEF Spec

=============================================================================
