------------------------------- MODULE Nearby -------------------------------
(***************************************************************************)
(* How online drivers are found.  Driver apps ping Location Service, which *)
(* keeps a geo set that never expires and a heartbeat key that does.  A    *)
(* lookup takes the nearest members of the set, COUNT limiting it before   *)
(* anything is known of their heartbeats, then asks for the heartbeats,    *)
(* then removes the members without one: three trips to Redis, with other  *)
(* lookups and pings in between.                                           *)
(*                                                                         *)
(* The rider's page looks up through the gateway, which counts requests    *)
(* in a fixed window: drivers near the pickup, then in a wider radius, and *)
(* the vehicle of the one it found; or any driver, for the map to start    *)
(* at.  Dispatch looks up through its circuit breaker, within a radius     *)
(* smaller than either of the page's.                                      *)
(*                                                                         *)
(* A Redis pipeline that fails does not throw: its results hold the errors *)
(* and nobody looks at those of a ping.  A single command does throw.      *)
(***************************************************************************)
EXTENDS Naturals, FiniteSets

CONSTANTS
    MaxDrivers,      \* bound: drivers, numbered by their distance from the pickup
    DispatchReach,   \* how many of them are within Dispatch's radius
    PageReach,       \* and within the first radius the rider's page asks for
    CandidateLimit,  \* COUNT of Dispatch's lookup; the rider's page asks for one
    Threshold,       \* failureThreshold of the circuit breaker
    RateLimit        \* public-read requests the gateway lets through in a window

Drivers == 1 .. MaxDrivers
Callers == {"page", "dispatch"}
Kinds == {"near", "wide", "vehicle", "any", "dispatch"}

ASSUME NearbyAssumption ==
    /\ MaxDrivers \in Nat /\ PageReach \in 0 .. MaxDrivers /\ DispatchReach \in 0 .. PageReach
    /\ CandidateLimit \in Nat \ {0} /\ Threshold \in Nat \ {0} /\ RateLimit \in Nat \ {0}

VARIABLES
    online,     \* drivers whose app pings
    geo,        \* members of the geo set
    fresh,      \* drivers whose heartbeat key has not expired
    raced,      \* history: drivers with a heartbeat that a lookup wrongly takes for stale
    look,       \* caller -> its lookup
    redisUp,
    breaker,    \* Dispatch's redisBreaker
    window      \* the gateway's public-read bucket for the rider's address

vars == <<online, geo, fresh, raced, look, redisUp, breaker, window>>
indexVars == <<online, geo, fresh, raced>>

Idle(kind) == [pc |-> "idle", kind |-> kind, found |-> {}, live |-> {}]
Rest(c) == Idle(IF c = "page" THEN "near" ELSE "dispatch")

Init ==
    /\ online = {} /\ geo = {} /\ fresh = {} /\ raced = {}
    /\ look = [c \in Callers |-> Rest(c)]
    /\ redisUp = TRUE
    /\ breaker = [state |-> "CLOSED", failures |-> 0, cooled |-> FALSE]
    /\ window = [count |-> 0, open |-> FALSE, through |-> 0]

At(c, pc) == look[c].pc = pc

-----------------------------------------------------------------------------
\* Drivers

GoOnline(d) ==
    /\ d \notin online
    /\ online' = online \cup {d}
    /\ UNCHANGED <<geo, fresh, raced, look, redisUp, breaker, window>>

GoOffline(d) ==
    /\ d \in online
    /\ online' = online \ {d}
    /\ UNCHANGED <<geo, fresh, raced, look, redisUp, breaker, window>>

\* The drivers a lookup has found without a heartbeat, about to be removed.
Doomed(c) == IF At(c, "evict") THEN look[c].found \ look[c].live ELSE {}

\* GEOADD and the heartbeat, in one pipeline.  (When Redis is down the request is
\* acknowledged like any other, and nothing changes.)
upsertLocation(d) ==
    /\ redisUp
    /\ geo' = geo \cup {d}
    /\ fresh' = fresh \cup {d}
    /\ raced' = IF \E c \in Callers : d \in Doomed(c) THEN raced \cup {d} ELSE raced \ {d}
    /\ UNCHANGED <<online, look, redisUp, breaker, window>>

\* The dashboard of a driver who is online sends a position every time it gets
\* one, and the last one again every 15 seconds.
Ping(d) == d \in online /\ upsertLocation(d)

\* The heartbeat key expires after 30 seconds: the driver has stopped pinging, or
\* the pings have been lost on Redis.
HeartbeatLapses(d) ==
    /\ d \in fresh
    /\ d \in online => ~redisUp
    /\ fresh' = fresh \ {d}
    /\ raced' = raced \ {d}
    /\ UNCHANGED <<online, geo, look, redisUp, breaker, window>>

-----------------------------------------------------------------------------
\* The circuit breaker of Dispatch

\* Variant for the checks: the circuit stays open.
getStateStuck == breaker.state

getState ==
    IF breaker.state = "OPEN" /\ breaker.cooled THEN "HALF_OPEN" ELSE breaker.state

onSuccess == breaker' = [state |-> "CLOSED", failures |-> 0, cooled |-> FALSE]

\* (The count is capped at the threshold, past which it tells nothing.)
onFailure ==
    LET n == breaker.failures + 1
    IN  breaker' = [state    |-> IF breaker.state = "HALF_OPEN" \/ n >= Threshold
                                 THEN "OPEN" ELSE breaker.state,
                    failures |-> IF n < Threshold THEN n ELSE Threshold,
                    cooled   |-> FALSE]

\* How a lookup of caller c ends is noted by the breaker, if it is Dispatch's.
Noted(c, note) == IF c = "dispatch" THEN note ELSE UNCHANGED breaker

\* resetTimeoutMs has passed since the circuit opened.
CoolDown ==
    /\ breaker.state = "OPEN" /\ ~breaker.cooled
    /\ breaker' = [breaker EXCEPT !.cooled = TRUE]
    /\ UNCHANGED <<indexVars, look, redisUp, window>>

-----------------------------------------------------------------------------
\* The gateway's fixed window for public-read requests of one address

\* canActivate(): the request opens a window or is counted in it.  "through"
\* counts the same by the clock alone.
canActivate ==
    /\ ~window.open \/ window.count < RateLimit
    /\ window' = [count |-> IF window.open THEN window.count + 1 ELSE 1, open |-> TRUE,
                  through |-> window.through + 1]

\* A minute has passed since the window opened.
WindowEnds ==
    /\ window.through > 0
    /\ window' = [window EXCEPT !.open = FALSE, !.through = 0]
    /\ UNCHANGED <<indexVars, look, redisUp, breaker>>

\* Variant for the checks: the sweep does not look at resetAt.
SweepAll ==
    /\ window' = [window EXCEPT !.count = 0, !.open = FALSE]
    /\ UNCHANGED <<indexVars, look, redisUp, breaker>>

\* The sweep every five minutes forgets a window that is over.
Sweep ==
    /\ ~window.open
    /\ window' = [window EXCEPT !.count = 0]
    /\ UNCHANGED <<indexVars, look, redisUp, breaker>>

-----------------------------------------------------------------------------
\* Lookups

GotTo(c, x) == look' = [look EXCEPT ![c] = x]

\* The page asks for drivers near a pickup, or for any.
Asks(kind) == IF kind = "near" THEN {"near", "any"} ELSE {kind}

\* The gateway lets the page's request through, or the circuit Dispatch's.
Start(c) ==
    /\ At(c, "idle") /\ look[c].kind # "vehicle"
    /\ IF c = "dispatch"
       THEN /\ getState # "OPEN"
            /\ breaker' = [breaker EXCEPT !.state = getState]
            /\ UNCHANGED window
       ELSE canActivate /\ UNCHANGED breaker
    /\ \E k \in Asks(look[c].kind) : GotTo(c, [look[c] EXCEPT !.pc = "search", !.kind = k])
    /\ UNCHANGED <<indexVars, redisUp>>

\* The first "limit" members of S: GEOSEARCH ... ASC COUNT, or for "any online"
\* ZRANGE, whose order has nothing to do with the pickup (here, the reverse).
First(S, kind) ==
    LET Before(d) == { e \in S : IF kind = "any" THEN e > d ELSE e < d }
        limit == IF kind = "dispatch" THEN CandidateLimit ELSE 1
    IN  { d \in S : Cardinality(Before(d)) < limit }

\* Dispatch looks within 5 km, the page within 10 and then within 50.
searchRadiusKm == 1 .. DispatchReach

Radius(kind) ==
    CASE kind = "dispatch" -> searchRadiusKm
      [] kind = "near"     -> 1 .. PageReach
      [] OTHER             -> Drivers

Search(c) ==
    /\ At(c, "search") /\ redisUp
    /\ LET found == First(geo \cap Radius(look[c].kind), look[c].kind)
           next  == IF look[c].kind = "any" THEN "position" ELSE "check"
       IN  GotTo(c, [look[c] EXCEPT !.pc = IF found = {} THEN "answered" ELSE next,
                                    !.found = found, !.live = found])
    /\ UNCHANGED <<indexVars, redisUp, breaker, window>>

\* "Any online" asks for the positions too; a member removed meanwhile has none.
Position(c) ==
    /\ At(c, "position") /\ redisUp
    /\ GotTo(c, [look[c] EXCEPT !.pc = "check", !.live = look[c].found \cap geo])
    /\ UNCHANGED <<indexVars, redisUp, breaker, window>>

\* EXISTS for each of them, a failed one counting as stale.
Live(c) == IF redisUp THEN look[c].live \cap fresh ELSE {}

\* The lookup of caller c answers with drivers S.
Done(c, S) == [Idle(look[c].kind) EXCEPT !.pc = "answered", !.live = S]

Check(c) ==
    /\ At(c, "check")
    /\ GotTo(c, IF Live(c) = look[c].found THEN Done(c, Live(c))
                ELSE [look[c] EXCEPT !.pc = "evict", !.live = Live(c)])
    /\ raced' = raced \cup ((look[c].found \ Live(c)) \cap fresh)
    /\ UNCHANGED <<online, geo, fresh, redisUp, breaker, window>>

\* Variant for the checks: stale members stay.
EvictNobody(c) ==
    /\ At(c, "evict") /\ redisUp
    /\ GotTo(c, Done(c, look[c].live))
    /\ UNCHANGED <<indexVars, redisUp, breaker, window>>

\* Variant for the checks: all candidates are removed.
EvictFound(c) ==
    /\ At(c, "evict") /\ redisUp
    /\ geo' = geo \ look[c].found
    /\ GotTo(c, Done(c, look[c].live))
    /\ UNCHANGED <<online, fresh, raced, redisUp, breaker, window>>

\* ZREM of those taken for stale, whatever they have done since.
Evict(c) ==
    /\ At(c, "evict") /\ redisUp
    /\ geo' = geo \ Doomed(c)
    /\ GotTo(c, Done(c, look[c].live))
    /\ UNCHANGED <<online, fresh, raced, redisUp, breaker, window>>

\* findNearbyVehicle(): the page asks for the vehicle of the driver it found or,
\* with nobody in the first radius, once more within the wider one.  Dispatch
\* tries the drivers it got.
Onward(c) ==
    IF look[c].kind \in {"near", "wide"} /\ look[c].live # {} THEN Idle("vehicle")
    ELSE IF look[c].kind = "near" THEN Idle("wide") ELSE Rest(c)

Answer(c) ==
    /\ At(c, "answered")
    /\ GotTo(c, Onward(c))
    /\ Noted(c, onSuccess)
    /\ UNCHANGED <<indexVars, redisUp, window>>

\* The command throws, and the lookup with it.
Fails(c) ==
    /\ look[c].pc \in {"search", "position", "evict"} /\ ~redisUp
    /\ GotTo(c, Rest(c))
    /\ Noted(c, onFailure)
    /\ UNCHANGED <<indexVars, redisUp, window>>

\* The last request, for the vehicle, goes through the gateway like the others.
GetVehicle ==
    /\ look["page"].pc = "idle" /\ look["page"].kind = "vehicle"
    /\ canActivate
    /\ GotTo("page", Rest("page"))
    /\ UNCHANGED <<indexVars, redisUp, breaker>>

\* The gateway refuses the second request or the third: the page gives up.
Refused ==
    /\ look["page"].pc = "idle" /\ look["page"].kind \in {"wide", "vehicle"}
    /\ window.open /\ window.count >= RateLimit
    /\ GotTo("page", Rest("page"))
    /\ UNCHANGED <<indexVars, redisUp, breaker, window>>

RedisChanges ==
    /\ redisUp' = ~redisUp
    /\ UNCHANGED <<indexVars, look, breaker, window>>

-----------------------------------------------------------------------------

LookStep(c) == Search(c) \/ Position(c) \/ Check(c) \/ Evict(c) \/ Answer(c) \/ Fails(c)

Next ==
    \/ \E d \in Drivers : GoOnline(d) \/ GoOffline(d) \/ Ping(d) \/ HeartbeatLapses(d)
    \/ \E c \in Callers : Start(c) \/ LookStep(c)
    \/ GetVehicle \/ Refused \/ CoolDown \/ WindowEnds \/ Sweep \/ RedisChanges

Spec == Init /\ [][Next]_vars

\* Apps that are online ping, time passes, a lookup that was started goes on, and
\* rides keep being requested.  No request of a rider's page has to be made.
Fairness ==
    /\ \A d \in Drivers : WF_vars(Ping(d)) /\ WF_vars(HeartbeatLapses(d))
    /\ \A c \in Callers : WF_vars(LookStep(c))
    /\ WF_vars(Start("dispatch"))
    /\ WF_vars(CoolDown)

FairSpec == Spec /\ Fairness

-----------------------------------------------------------------------------
\* Properties

TypeOK ==
    /\ online \subseteq Drivers /\ geo \subseteq Drivers
    /\ fresh \subseteq Drivers /\ raced \subseteq fresh
    /\ look \in [Callers -> [pc : {"idle", "search", "position", "check", "evict", "answered"},
                             kind : Kinds, found : SUBSET Drivers, live : SUBSET Drivers]]
    /\ redisUp \in BOOLEAN
    /\ breaker \in [state : {"CLOSED", "OPEN", "HALF_OPEN"}, failures : 0 .. Threshold,
                    cooled : BOOLEAN]
    /\ breaker.state = "CLOSED" => breaker.failures < Threshold
    /\ window \in [count : Nat, open : BOOLEAN, through : Nat]

\* A driver whose heartbeat lives can be found by location.  The only ones that
\* cannot pinged between a lookup's EXISTS and its ZREM, or were looked at while
\* Redis was failing; their next ping lists them again.
FreshIsListed == fresh \subseteq geo \cup raced

\* However the requests and the sweep of the counters interleave, no more than
\* the limit get through between the request that opens a window and its end.
WindowHolds == window.through <= RateLimit

\* Once drivers stop coming and going, a lookup of the page or of Dispatch that is
\* answered finds somebody if anybody is online within the radius it asked for,
\* and nobody who has left: a member that is stale may take the place of a live
\* one under COUNT, but no lookup leaves it there for the next.
LookupsFind ==
    <>[][UNCHANGED <<online, redisUp>>]_vars =>
        \A c \in Callers :
            <>[](At(c, "answered") /\ redisUp /\ Radius(look[c].kind) \cap online # {}
                 => look[c].live # {} /\ look[c].live \subseteq online)

\* The circuit that an outage of Redis has opened closes when Redis is back.
CircuitCloses == <>[]redisUp => <>[](breaker.state = "CLOSED")

=============================================================================
