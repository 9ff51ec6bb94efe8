---------------------------- MODULE NearbyProofs ----------------------------
(***************************************************************************)
(* Theorems about Nearby, for any number of drivers and every limit: its   *)
(* type invariant, that a driver whose heartbeat lives is listed unless a  *)
(* lookup took it for stale, and that the gateway's window holds.          *)
(***************************************************************************)
EXTENDS Nearby, FiniteSetTheorems, TLAPS

Lookup == [pc : {"idle", "search", "position", "check", "evict", "answered"},
           kind : Kinds, found : SUBSET Drivers, live : SUBSET Drivers]

\* What a lookup has found is still some set of drivers.
LEMMA FoundIsDrivers ==
    ASSUME NEW S \in SUBSET Drivers, NEW k
    PROVE  First(S, k) \subseteq Drivers
BY DEF First

LEMMA IdleIsLookup == ASSUME NEW k \in Kinds PROVE Idle(k) \in Lookup
BY DEF Idle, Lookup

LEMMA RestIsLookup == ASSUME NEW c \in Callers PROVE Rest(c) \in Lookup
<1>1. (IF c = "page" THEN "near" ELSE "dispatch") \in Kinds
  BY DEF Kinds
<1> QED BY <1>1, IdleIsLookup DEF Rest

LEMMA DoneIsLookup ==
    ASSUME NEW c \in Callers, look[c].kind \in Kinds, NEW S \in SUBSET Drivers
    PROVE  Done(c, S) \in Lookup /\ Done(c, S).pc = "answered"
<1>1. Idle(look[c].kind) \in Lookup
  BY IdleIsLookup
<1> QED BY <1>1 DEF Done, Lookup

LEMMA OnwardIsLookup == ASSUME NEW c \in Callers PROVE Onward(c) \in Lookup /\ Onward(c).pc = "idle"
<1>1. /\ Idle("wide") \in Lookup /\ Idle("vehicle") \in Lookup /\ Rest(c) \in Lookup
      /\ Rest(c).pc = "idle" /\ Idle("wide").pc = "idle" /\ Idle("vehicle").pc = "idle"
  <2>1. Idle("wide") \in Lookup /\ Idle("vehicle") \in Lookup /\ Rest(c) \in Lookup
    BY IdleIsLookup, RestIsLookup DEF Kinds
  <2> QED BY <2>1 DEF Rest, Idle
<1> QED BY <1>1 DEF Onward

\* A lookup that moves on leaves the others where they are.
LEMMA GotToIsLookup ==
    ASSUME look \in [Callers -> Lookup], NEW c \in Callers, NEW x \in Lookup, GotTo(c, x)
    PROVE  /\ look' \in [Callers -> Lookup]
           /\ look'[c] = x
           /\ \A e \in Callers : e # c => look'[e] = look[e]
BY DEF GotTo

-----------------------------------------------------------------------------
\* The gateway's window

\* The count of the open window is what got through, so a limit on the one is a
\* limit on the other.
WindowInv ==
    /\ window \in [count : Nat, open : BOOLEAN, through : Nat]
    /\ window.open => window.through = window.count
    /\ ~window.open => window.through = 0
    /\ window.through <= RateLimit

LEMMA WindowInitInv == Init => WindowInv
BY NearbyAssumption DEF Init, WindowInv

LEMMA WindowNextInv == WindowInv /\ [Next]_vars => WindowInv'
<1> SUFFICES ASSUME WindowInv, [Next]_vars PROVE WindowInv'
  OBVIOUS
<1> USE NearbyAssumption DEF WindowInv
<1>1. CASE UNCHANGED window
  BY <1>1
<1>2. CASE canActivate
  <2>1. CASE window.open
    <3>1. window.count < RateLimit /\ window.through = window.count /\ window.count + 1 \in Nat
      BY <1>2, <2>1 DEF canActivate
    <3>2. window' = [count |-> window.count + 1, open |-> TRUE, through |-> window.count + 1]
      BY <1>2, <2>1, <3>1 DEF canActivate
    <3> QED BY <3>1, <3>2
  <2>2. CASE ~window.open
    <3>1. window'.count = 1 /\ window'.open = TRUE /\ window'.through = 1
      BY <1>2, <2>2 DEF canActivate
    <3> QED BY <1>2, <2>2, <3>1 DEF canActivate
  <2> QED BY <2>1, <2>2
<1>3. CASE WindowEnds
  <2>1. window' = [count |-> window.count, open |-> FALSE, through |-> 0]
    BY <1>3 DEF WindowEnds
  <2> QED BY <2>1
<1>4. CASE Sweep
  BY <1>4 DEF Sweep
<1>5. UNCHANGED window \/ canActivate \/ WindowEnds \/ Sweep
  <2>1. ASSUME NEW d \in Drivers, GoOnline(d) \/ GoOffline(d) \/ Ping(d) \/ HeartbeatLapses(d)
        PROVE  UNCHANGED window
    BY <2>1 DEF GoOnline, GoOffline, Ping, upsertLocation, HeartbeatLapses
  <2>2. ASSUME NEW c \in Callers, Start(c) PROVE UNCHANGED window \/ canActivate
    BY <2>2 DEF Start
  <2>3. ASSUME NEW c \in Callers, LookStep(c) PROVE UNCHANGED window
    BY <2>3 DEF LookStep, Search, Position, Check, Evict, Answer, Fails
  <2>4. Refused \/ CoolDown \/ RedisChanges \/ UNCHANGED vars => UNCHANGED window
    BY DEF Refused, CoolDown, RedisChanges, vars
  <2>5. GetVehicle => canActivate
    BY DEF GetVehicle
  <2> QED BY <2>1, <2>2, <2>3, <2>4, <2>5 DEF Next
<1> QED BY <1>1, <1>2, <1>3, <1>4, <1>5

\* No more than the limit get through in a window, however the sweep falls.
THEOREM WindowAlwaysHolds == Spec => []WindowHolds
<1>1. WindowInv => WindowHolds
  BY DEF WindowInv, WindowHolds
<1> QED BY <1>1, WindowInitInv, WindowNextInv, PTL DEF Spec

-----------------------------------------------------------------------------
\* Types

LookTyped == look \in [Callers -> Lookup]
IndexTyped == online \subseteq Drivers /\ geo \subseteq Drivers /\ fresh \subseteq Drivers
              /\ raced \subseteq fresh
BreakerTyped ==
    /\ breaker \in [state : {"CLOSED", "OPEN", "HALF_OPEN"}, failures : 0 .. Threshold,
                    cooled : BOOLEAN]
    /\ breaker.state = "CLOSED" => breaker.failures < Threshold

RestTyped == redisUp \in BOOLEAN /\ window \in [count : Nat, open : BOOLEAN, through : Nat]
Parts == LookTyped /\ IndexTyped /\ BreakerTyped /\ RestTyped

LEMMA TypeParts == (TypeOK <=> Parts) /\ (TypeOK' <=> Parts')
BY DEF TypeOK, Parts, LookTyped, Lookup, IndexTyped, BreakerTyped, RestTyped

LEMMA SuccessTyped == BreakerTyped /\ onSuccess => BreakerTyped'
BY NearbyAssumption DEF BreakerTyped, onSuccess

LEMMA FailureTyped == BreakerTyped /\ onFailure => BreakerTyped'
<1> SUFFICES ASSUME BreakerTyped, onFailure PROVE BreakerTyped'
  OBVIOUS
<1> DEFINE n == breaker.failures + 1
           trips == breaker.state = "HALF_OPEN" \/ n >= Threshold
<1>1. n \in Nat /\ n = breaker.failures + 1 /\ breaker.failures \in Nat /\ breaker.state \in {"CLOSED", "OPEN", "HALF_OPEN"} /\ Threshold \in Nat
  BY NearbyAssumption DEF BreakerTyped
<1>2. breaker' = [state    |-> IF trips THEN "OPEN" ELSE breaker.state,
                  failures |-> IF n < Threshold THEN n ELSE Threshold,
                  cooled   |-> FALSE]
  BY DEF onFailure
<1>3. CASE trips
  <2>1. (IF n < Threshold THEN n ELSE Threshold) \in 0 .. Threshold
    BY <1>1
  <2> HIDE DEF n, trips
  <2> QED BY <1>2, <1>3, <2>1 DEF BreakerTyped
<1>4. CASE ~trips
  <2>0. ~(n >= Threshold)
    BY <1>4
  <2>1. n < Threshold
    <3> HIDE DEF n, trips
    <3> QED BY <1>1, <2>0
  <2>2. breaker' = [state |-> breaker.state, failures |-> n, cooled |-> FALSE]
    <3> HIDE DEF n, trips
    <3> QED BY <1>2, <1>4, <2>1
  <2> QED BY <1>1, <2>1, <2>2 DEF BreakerTyped
<1> QED BY <1>3, <1>4

\* A step of a lookup keeps its caller's lookup, and the breaker, well typed.
LEMMA LookStepTyped ==
    ASSUME LookTyped, IndexTyped, BreakerTyped, NEW c \in Callers, LookStep(c)
    PROVE  LookTyped' /\ IndexTyped' /\ BreakerTyped' /\ UNCHANGED <<redisUp, window>>
<1> USE DEF LookTyped
<1>0. look[c] \in Lookup /\ look[c].found \subseteq Drivers /\ look[c].live \subseteq Drivers
      /\ look[c].kind \in Kinds
  BY DEF Lookup
<1>B. UNCHANGED breaker => BreakerTyped'
  BY DEF BreakerTyped
<1>N. /\ Noted(c, onSuccess) => BreakerTyped'
      /\ Noted(c, onFailure) => BreakerTyped'
  BY <1>B, SuccessTyped, FailureTyped DEF Noted
<1>1. CASE Search(c)
  <2> DEFINE found == First(geo \cap Radius(look[c].kind), look[c].kind)
             next == IF look[c].kind = "any" THEN "position" ELSE "check"
             x == [look[c] EXCEPT !.pc = IF found = {} THEN "answered" ELSE next,
                                  !.found = found, !.live = found]
  <2>1. found \subseteq Drivers
    BY FoundIsDrivers DEF IndexTyped
  <2>2. GotTo(c, x)
    BY <1>1 DEF Search
  <2>3. x \in Lookup
    <3> HIDE DEF found
    <3> QED BY <1>0, <2>1 DEF Lookup
  <2> HIDE DEF x
  <2>4. LookTyped'
    BY <2>2, <2>3, GotToIsLookup
  <2> QED BY <1>1, <1>B, <2>4 DEF Search, indexVars, IndexTyped
<1>P. CASE Position(c)
  <2> DEFINE x == [look[c] EXCEPT !.pc = "check", !.live = look[c].found \cap geo]
  <2>1. x \in Lookup
    BY <1>0 DEF Lookup
  <2>2. GotTo(c, x)
    BY <1>P DEF Position
  <2> HIDE DEF x
  <2>3. LookTyped'
    BY <2>1, <2>2, GotToIsLookup
  <2> QED BY <1>P, <1>B, <2>3 DEF Position, indexVars, IndexTyped
<1>2. CASE Check(c)
  <2>1. Live(c) \subseteq Drivers
    BY <1>0 DEF Live
  <2>2. Done(c, Live(c)) \in Lookup
    BY <1>0, <2>1, DoneIsLookup
  <2>3. [look[c] EXCEPT !.pc = "evict", !.live = Live(c)] \in Lookup
    BY <1>0, <2>1 DEF Lookup
  <2>4. LookTyped'
    BY <1>2, <2>2, <2>3, GotToIsLookup DEF Check
  <2> QED BY <1>2, <1>B, <2>4 DEF Check, IndexTyped
<1>3. CASE Evict(c)
  <2>1. Done(c, look[c].live) \in Lookup
    BY <1>0, DoneIsLookup
  <2>2. LookTyped'
    BY <1>3, <2>1, GotToIsLookup DEF Evict
  <2> QED BY <1>3, <1>B, <2>2 DEF Evict, IndexTyped
<1>4. CASE Answer(c)
  <2>1. Onward(c) \in Lookup
    BY OnwardIsLookup
  <2>2. LookTyped'
    BY <1>4, <2>1, GotToIsLookup DEF Answer
  <2> QED BY <1>4, <1>N, <2>2 DEF Answer, indexVars, IndexTyped
<1>5. CASE Fails(c)
  <2>1. LookTyped'
    BY <1>5, RestIsLookup, GotToIsLookup DEF Fails
  <2> QED BY <1>5, <1>N, <2>1 DEF Fails, indexVars, IndexTyped
<1> QED BY <1>1, <1>P, <1>2, <1>3, <1>4, <1>5 DEF LookStep

LEMMA StartTyped ==
    ASSUME LookTyped, BreakerTyped, NEW c \in Callers, Start(c)
    PROVE  LookTyped' /\ BreakerTyped' /\ UNCHANGED <<indexVars, redisUp>>
<1> USE DEF LookTyped
<1>0. look[c] \in Lookup
  OBVIOUS
<1>1. PICK k \in Asks(look[c].kind) : GotTo(c, [look[c] EXCEPT !.pc = "search", !.kind = k])
  BY DEF Start
<1>2. k \in Kinds
  BY <1>0 DEF Asks, Kinds, Lookup
<1>3. [look[c] EXCEPT !.pc = "search", !.kind = k] \in Lookup
  BY <1>0, <1>2 DEF Lookup
<1>4. LookTyped'
  BY <1>1, <1>3, GotToIsLookup
<1>5. BreakerTyped'
  <2>1. CASE UNCHANGED breaker
    BY <2>1 DEF BreakerTyped
  <2>2. CASE breaker' = [breaker EXCEPT !.state = getState]
    BY <2>2 DEF BreakerTyped, getState
  <2> QED BY <2>1, <2>2 DEF Start
<1> QED BY <1>4, <1>5 DEF Start

LEMMA TypeInit == Init => TypeOK
<1> SUFFICES ASSUME Init PROVE TypeOK
  OBVIOUS
<1>1. LookTyped
  BY RestIsLookup DEF Init, LookTyped
<1>2. IndexTyped /\ BreakerTyped /\ redisUp \in BOOLEAN
  BY NearbyAssumption DEF Init, IndexTyped, BreakerTyped
<1> QED BY <1>1, <1>2, WindowInitInv, TypeParts DEF WindowInv, Parts, RestTyped

LEMMA TypeNext == TypeOK /\ WindowInv /\ [Next]_vars => TypeOK'
<1> SUFFICES ASSUME LookTyped, IndexTyped, BreakerTyped, RestTyped, WindowInv, [Next]_vars
             PROVE  LookTyped' /\ IndexTyped' /\ BreakerTyped' /\ RestTyped'
  BY TypeParts DEF Parts
<1>W. RestTyped'
  <2>1. redisUp' = ~redisUp \/ UNCHANGED redisUp
    BY DEF Next, GoOnline, GoOffline, Ping, upsertLocation, HeartbeatLapses, Start, LookStep, Search,
           Position, GetVehicle, Check, Evict, Answer, Fails, Refused, CoolDown, WindowEnds, Sweep, RedisChanges, vars
  <2>2. redisUp' \in BOOLEAN
    BY <2>1 DEF RestTyped
  <2> QED BY <2>2, WindowNextInv DEF WindowInv, RestTyped
<1>L. UNCHANGED look => LookTyped'
  BY DEF LookTyped
<1>X. UNCHANGED indexVars => IndexTyped'
  BY DEF IndexTyped, indexVars
<1>B. UNCHANGED breaker => BreakerTyped'
  BY DEF BreakerTyped
<1> DEFINE Kept == LookTyped' /\ IndexTyped' /\ BreakerTyped'
<1>1. ASSUME NEW d \in Drivers, GoOnline(d) \/ GoOffline(d) \/ Ping(d) \/ HeartbeatLapses(d)
      PROVE  Kept
  <2>1. look' = look /\ breaker' = breaker
    BY <1>1 DEF GoOnline, GoOffline, Ping, upsertLocation, HeartbeatLapses
  <2>2. IndexTyped'
    BY <1>1 DEF GoOnline, GoOffline, Ping, upsertLocation, HeartbeatLapses, IndexTyped
  <2> QED BY <2>1, <2>2, <1>L, <1>B
<1>2. ASSUME NEW c \in Callers, Start(c) PROVE Kept
  BY <1>2, <1>X, StartTyped
<1>3. ASSUME NEW c \in Callers, LookStep(c) PROVE Kept
  BY <1>3, LookStepTyped
<1>4. CASE Refused \/ GetVehicle
  <2>1. Rest("page") \in Lookup /\ "page" \in Callers
    BY RestIsLookup DEF Callers
  <2>2. LookTyped'
    BY <1>4, <2>1, GotToIsLookup DEF Refused, GetVehicle, LookTyped
  <2> QED BY <1>4, <1>X, <1>B, <1>W, <2>2 DEF Refused, GetVehicle
<1>5. CASE CoolDown
  <2>1. BreakerTyped'
    BY <1>5 DEF CoolDown, BreakerTyped
  <2> QED BY <1>5, <2>1, <1>L, <1>X, <1>W DEF CoolDown
<1>6. CASE WindowEnds \/ Sweep \/ RedisChanges \/ UNCHANGED vars
  <2>1. UNCHANGED <<indexVars, look, breaker>>
    BY <1>6 DEF WindowEnds, Sweep, RedisChanges, vars, indexVars
  <2> QED BY <2>1, <1>L, <1>X, <1>B, <1>W
<1> QED BY <1>1, <1>2, <1>3, <1>4, <1>5, <1>6, <1>W DEF Next

-----------------------------------------------------------------------------
\* Who can be found

\* A driver about to be removed who has a heartbeat is known to be raced.
DoomedIsRaced == \A c \in Callers : Doomed(c) \cap fresh \subseteq raced

ListedInv == TypeOK /\ WindowInv /\ DoomedIsRaced /\ FreshIsListed

LEMMA ListedInitInv == Init => ListedInv
BY TypeInit, WindowInitInv DEF Init, ListedInv, DoomedIsRaced, FreshIsListed

\* A lookup that did not move dooms nobody else.
LEMMA DoomedStays ==
    ASSUME NEW c \in Callers, look'[c] = look[c]
    PROVE  Doomed(c)' = Doomed(c)
BY DEF Doomed, At

LEMMA ListedNextInv == ListedInv /\ [Next]_vars => ListedInv'
<1> SUFFICES ASSUME ListedInv, [Next]_vars PROVE DoomedIsRaced' /\ FreshIsListed'
  BY TypeNext, WindowNextInv DEF ListedInv
<1>T. LookTyped /\ IndexTyped
  BY TypeParts DEF ListedInv, Parts
<1>I. DoomedIsRaced /\ FreshIsListed
  BY DEF ListedInv
\* A lookup at rest, searching or answered dooms nobody.
<1>M. ASSUME NEW c \in Callers, NEW x \in Lookup, GotTo(c, x), x.pc # "evict", UNCHANGED indexVars
      PROVE  DoomedIsRaced' /\ FreshIsListed'
  <2>1. look'[c] = x /\ \A e \in Callers : e # c => look'[e] = look[e]
    BY <1>M, <1>T, GotToIsLookup DEF LookTyped
  <2>2. Doomed(c)' = {} /\ \A e \in Callers : e # c => Doomed(e)' = Doomed(e)
    BY <1>M, <2>1, DoomedStays DEF Doomed, At
  <2> QED BY <1>I, <1>M, <2>2 DEF indexVars, DoomedIsRaced, FreshIsListed
<1>R. \A c \in Callers : look[c] \in Lookup /\ Rest(c) \in Lookup /\ Rest(c).pc = "idle"
  BY <1>T, RestIsLookup DEF LookTyped, Rest, Idle
<1>1. CASE UNCHANGED <<look, fresh, geo, raced>>
  BY <1>1, <1>I, DoomedStays DEF DoomedIsRaced, FreshIsListed
<1>2. ASSUME NEW d \in Drivers, Ping(d) PROVE DoomedIsRaced' /\ FreshIsListed'
  <2>1. \A c \in Callers : Doomed(c)' = Doomed(c)
    BY <1>2, DoomedStays DEF Ping, upsertLocation
  <2>2. CASE \E c \in Callers : d \in Doomed(c)
    BY <1>2, <1>I, <2>1, <2>2 DEF Ping, upsertLocation, DoomedIsRaced, FreshIsListed
  <2>3. CASE ~ \E c \in Callers : d \in Doomed(c)
    BY <1>2, <1>I, <2>1, <2>3 DEF Ping, upsertLocation, DoomedIsRaced, FreshIsListed
  <2> QED BY <2>2, <2>3
<1>3. ASSUME NEW d \in Drivers, HeartbeatLapses(d) PROVE DoomedIsRaced' /\ FreshIsListed'
  <2>1. \A c \in Callers : Doomed(c)' = Doomed(c)
    BY <1>3, DoomedStays DEF HeartbeatLapses
  <2> QED BY <1>3, <1>I, <2>1 DEF HeartbeatLapses, DoomedIsRaced, FreshIsListed
<1>4. ASSUME NEW c \in Callers, Start(c) PROVE DoomedIsRaced' /\ FreshIsListed'
  <2>1. PICK k \in Asks(look[c].kind) : GotTo(c, [look[c] EXCEPT !.pc = "search", !.kind = k])
    BY <1>4 DEF Start
  <2>2. [look[c] EXCEPT !.pc = "search", !.kind = k] \in Lookup
    BY <1>R DEF Lookup, Asks, Kinds
  <2>3. [look[c] EXCEPT !.pc = "search", !.kind = k].pc = "search"
    BY <1>R DEF Lookup
  <2> QED BY <1>4, <1>M, <2>1, <2>2, <2>3 DEF Start
<1>5. ASSUME NEW c \in Callers, Search(c) PROVE DoomedIsRaced' /\ FreshIsListed'
  <2> DEFINE found == First(geo \cap Radius(look[c].kind), look[c].kind)
             next == IF look[c].kind = "any" THEN "position" ELSE "check"
             x == [look[c] EXCEPT !.pc = IF found = {} THEN "answered" ELSE next,
                                  !.found = found, !.live = found]
  <2>1. found \subseteq Drivers
    BY <1>T, FoundIsDrivers DEF IndexTyped
  <2>2. x \in Lookup /\ x.pc # "evict"
    <3> HIDE DEF found
    <3> QED BY <1>R, <2>1 DEF Lookup
  <2>3. GotTo(c, x) /\ UNCHANGED indexVars
    BY <1>5 DEF Search
  <2> HIDE DEF x
  <2> QED BY <1>M, <2>2, <2>3
<1>P. ASSUME NEW c \in Callers, Position(c) PROVE DoomedIsRaced' /\ FreshIsListed'
  <2> DEFINE x == [look[c] EXCEPT !.pc = "check", !.live = look[c].found \cap geo]
  <2>1. x \in Lookup /\ x.pc # "evict"
    BY <1>R DEF Lookup
  <2>2. GotTo(c, x) /\ UNCHANGED indexVars
    BY <1>P DEF Position
  <2> HIDE DEF x
  <2> QED BY <1>M, <2>1, <2>2
<1>6. ASSUME NEW c \in Callers, Check(c) PROVE DoomedIsRaced' /\ FreshIsListed'
  <2> DEFINE x == IF Live(c) = look[c].found THEN Done(c, Live(c))
                  ELSE [look[c] EXCEPT !.pc = "evict", !.live = Live(c)]
  <2>1. Live(c) \subseteq Drivers /\ look[c].kind \in Kinds
    BY <1>R DEF Live, Lookup
  <2>2. x \in Lookup /\ (x.pc = "evict" => x.found = look[c].found /\ x.live = Live(c))
    <3>1. Done(c, Live(c)) \in Lookup /\ Done(c, Live(c)).pc = "answered"
      BY <2>1, DoneIsLookup
    <3> QED BY <1>R, <2>1, <3>1 DEF Lookup
  <2>3. look'[c] = x /\ \A e \in Callers : e # c => look'[e] = look[e]
    <3>1. GotTo(c, x)
      BY <1>6 DEF Check
    <3> HIDE DEF x
    <3> QED BY <2>2, <3>1, <1>T, GotToIsLookup DEF LookTyped
  <2>4. Doomed(c)' \subseteq look[c].found \ Live(c) /\ \A e \in Callers : e # c => Doomed(e)' = Doomed(e)
    <3> HIDE DEF x
    <3> QED BY <2>2, <2>3, DoomedStays DEF Doomed, At
  <2> QED BY <1>6, <1>I, <2>4 DEF Check, DoomedIsRaced, FreshIsListed
<1>7. ASSUME NEW c \in Callers, Evict(c) PROVE DoomedIsRaced' /\ FreshIsListed'
  <2>1. Done(c, look[c].live) \in Lookup /\ Done(c, look[c].live).pc = "answered"
    <3>1. look[c].kind \in Kinds /\ look[c].live \subseteq Drivers
      BY <1>R DEF Lookup
    <3> QED BY <3>1, DoneIsLookup
  <2>2. look'[c].pc = "answered" /\ \A e \in Callers : e # c => look'[e] = look[e]
    BY <1>7, <2>1, <1>T, GotToIsLookup DEF Evict, LookTyped
  <2>3. Doomed(c)' = {} /\ \A e \in Callers : e # c => Doomed(e)' = Doomed(e)
    BY <2>2, DoomedStays DEF Doomed, At
  <2> QED BY <1>7, <1>I, <2>3 DEF Evict, DoomedIsRaced, FreshIsListed
<1>8. ASSUME NEW c \in Callers, Answer(c) \/ Fails(c) PROVE DoomedIsRaced' /\ FreshIsListed'
  <2>1. \E x \in {Onward(c), Rest(c)} : GotTo(c, x)
    BY <1>8 DEF Answer, Fails
  <2> QED BY <1>8, <1>M, <1>R, <2>1, OnwardIsLookup DEF Answer, Fails
<1>9. CASE Refused \/ GetVehicle
  <2>1. "page" \in Callers
    BY DEF Callers
  <2> QED BY <1>9, <1>M, <1>R, <2>1 DEF Refused, GetVehicle
<1>10. ASSUME NEW d \in Drivers, GoOnline(d) \/ GoOffline(d)
       PROVE  UNCHANGED <<look, fresh, geo, raced>>
  BY <1>10 DEF GoOnline, GoOffline
<1>11. CoolDown \/ WindowEnds \/ Sweep \/ RedisChanges \/ UNCHANGED vars
       => UNCHANGED <<look, fresh, geo, raced>>
  BY DEF CoolDown, WindowEnds, Sweep, RedisChanges, indexVars, vars
<1> QED BY <1>1, <1>2, <1>3, <1>4, <1>5, <1>P, <1>6, <1>7, <1>8, <1>9, <1>10, <1>11 DEF Next, LookStep

\* Types hold, and the circuit is open once the failures reach the threshold.
THEOREM TypeCorrect == Spec => []TypeOK
<1>1. ListedInv => TypeOK
  BY DEF ListedInv
<1> QED BY <1>1, ListedInitInv, ListedNextInv, PTL DEF Spec

\* A driver whose heartbeat lives is listed, but for those a lookup took for stale
\* while they pinged or while Redis was failing.
THEOREM FreshDriversAreListed == Spec => []FreshIsListed
<1>1. ListedInv => FreshIsListed
  BY DEF ListedInv
<1> QED BY <1>1, ListedInitInv, ListedNextInv, PTL DEF Spec

=============================================================================
