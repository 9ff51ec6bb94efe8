--------------------------- MODULE DriverAppProofs --------------------------
(***************************************************************************)
(* Theorems about DriverApp, for every set of rides and of calls in flight *)
(* and every bound: its type invariant, that the driver's row follows the  *)
(* ride, and that a screen is locked BUSY only by a status it could not    *)
(* know was over.                                                          *)
(***************************************************************************)
EXTENDS DriverApp, TLAPS

-----------------------------------------------------------------------------
\* What is in flight

BackendOps == {"start", "complete", "decline", "cancel"}

\* What a call carries at each of its steps.
Carries(c) ==
    /\ c = [op |-> c.op, pc |-> c.pc, ride |-> c.ride, got |-> c.got]
    /\ c.op \in RideTaps \cup Toggles \cup OtherOps \cup {None}
    /\ c.pc \in {"idle", "sent", "patch", "patchWrite", "commit", "answered",
                 "found", "hydrate", "resync", "resynced"}
    /\ c.ride \in Rides \cup {None}
    /\ c.op \in RideTaps \cup OtherOps => c.ride \in Rides
    /\ c.pc \in {"patch", "patchWrite"} => c.op \in BackendOps \cup Toggles \cup {"match"}
    /\ c.pc = "found" => c.got \in Shows
    /\ c.pc = "hydrate" => c.got \in Shows \ {None}
    /\ c.pc = "resynced" => c.got \in DriverStatus

\* The two other parties make one kind of call each, and nobody else does.
Mine(k, c) ==
    /\ c.op = "match" => k = "dispatch"
    /\ c.op = "cancel" => k = "rider"
    /\ k = "dispatch" => c.pc = "idle" \/ (c.op = "match" /\ c.pc \in {"patch", "patchWrite"})
    /\ k = "rider" =>
         c.pc = "idle" \/ (c.op = "cancel" /\ c.pc \in {"patch", "patchWrite", "commit"})
    /\ c.pc = "commit" => k = "rider"

\* The rides the app knows of were matched.
Seen(c) ==
    /\ c.op \in RideTaps => trip[c.ride] # "MATCHING"
    /\ c.pc \in {"found", "hydrate"} /\ c.got # None => trip[c.got.id] # "MATCHING"

CallsOK == \A k \in Callers : Carries(calls[k]) /\ Mine(k, calls[k])

SeenOK ==
    /\ activeTrip # None => trip[activeTrip.id] # "MATCHING"
    /\ \A k \in Callers : Seen(calls[k])

CallInv == TypeOK /\ CallsOK /\ SeenOK

\* The one call a step moves becomes c.
Becomes(k, c) == calls' = [j \in Callers |-> IF j = k THEN c ELSE calls[j]]

\* How the five ways to move a call read, field by field.
LEMMA Moves ==
    ASSUME TypeOK, NEW k \in Callers, NEW op, NEW pc, NEW r, NEW value
    PROVE  /\ Goto(k, pc) => Becomes(k, [op |-> calls[k].op, pc |-> pc,
                                         ride |-> calls[k].ride, got |-> calls[k].got])
           /\ End(k) => Becomes(k, [op |-> None, pc |-> "idle", ride |-> None, got |-> None])
           /\ Resync(k) => Becomes(k, [op |-> None, pc |-> "resync", ride |-> None, got |-> None])
           /\ Got(k, pc, value) => Becomes(k, [op |-> calls[k].op, pc |-> pc,
                                               ride |-> calls[k].ride, got |-> value])
           /\ Send(k, op, pc, r) => Becomes(k, [op |-> op, pc |-> pc, ride |-> r, got |-> None])
<1>1. /\ DOMAIN calls = Callers
      /\ calls[k] = [op |-> calls[k].op, pc |-> calls[k].pc,
                     ride |-> calls[k].ride, got |-> calls[k].got]
  BY DEF TypeOK
<1>2. /\ [calls[k] EXCEPT !.pc = pc] = [op |-> calls[k].op, pc |-> pc,
                                        ride |-> calls[k].ride, got |-> calls[k].got]
      /\ [calls[k] EXCEPT !.pc = pc, !.got = value]
           = [op |-> calls[k].op, pc |-> pc, ride |-> calls[k].ride, got |-> value]
  <2>1. PICK o, p, r0, g : calls[k] = [op |-> o, pc |-> p, ride |-> r0, got |-> g]
    BY <1>1
  <2>2. PICK old : old = calls[k]
    OBVIOUS
  <2>3. /\ [old EXCEPT !.pc = pc] = [op |-> o, pc |-> pc, ride |-> r0, got |-> g]
        /\ old.op = o /\ old.ride = r0 /\ old.got = g
    BY <2>1, <2>2
  <2>4. PICK new : new = [op |-> o, pc |-> pc, ride |-> r0, got |-> g]
    OBVIOUS
  <2>5. [new EXCEPT !.got = value] = [op |-> o, pc |-> pc, ride |-> r0, got |-> value]
    BY <2>4
  <2>6. [old EXCEPT !.pc = pc, !.got = value] = [new EXCEPT !.got = value]
    <3>1. [old EXCEPT !.pc = pc, !.got = value] = [[old EXCEPT !.pc = pc] EXCEPT !.got = value]
      BY <2>1, <2>2
    <3> QED BY <2>3, <2>4, <3>1
  <2> QED BY <2>2, <2>3, <2>5, <2>6
<1>3. /\ Goto(k, pc) => Becomes(k, [calls[k] EXCEPT !.pc = pc])
      /\ Got(k, pc, value) => Becomes(k, [calls[k] EXCEPT !.pc = pc, !.got = value])
  BY <1>1 DEF Goto, Got, Becomes
<1>4. End(k) => Becomes(k, [op |-> None, pc |-> "idle", ride |-> None, got |-> None])
  BY <1>1 DEF End, Idle, Becomes
<1>5. Resync(k) => Becomes(k, [op |-> None, pc |-> "resync", ride |-> None, got |-> None])
  BY <1>1 DEF Resync, Syncing, Idle, Becomes
<1>6. Send(k, op, pc, r) => Becomes(k, [op |-> op, pc |-> pc, ride |-> r, got |-> None])
  BY <1>1 DEF Send, Becomes
<1> QED BY <1>2, <1>3, <1>4, <1>5, <1>6

\* A step of the rides and the row, with the calls that are in flight known to
\* be in order: no ride goes back to MATCHING.
LEMMA CallStep ==
    ASSUME CallInv, calls' = [j \in Callers |-> calls'[j]], CallsOK',
           \A k \in Callers : calls'[k] = calls[k] \/ Seen(calls[k])',
           trip' \in [Rides -> RideStatus], row' \in DriverStatus,
           asked' \in Nat, promised' \subseteq Rides,
           status' \in {"OFFLINE", "ONLINE", "BUSY"}, activeTrip' \in Shows,
           blind' \in BOOLEAN, raced' \in BOOLEAN, unmarked' \in BOOLEAN,
           faults' \in 0 .. MaxFaults,
           \A r \in Rides : trip[r] # "MATCHING" => trip'[r] # "MATCHING",
           activeTrip' = activeTrip \/ (activeTrip' # None => trip'[activeTrip'.id] # "MATCHING")
    PROVE  CallInv'
<1>0. TypeOK /\ CallsOK /\ SeenOK
  BY DEF CallInv
<1>1. TypeOK'
  <2>1. calls' = [j \in Callers |-> [op |-> calls'[j].op, pc |-> calls'[j].pc,
                                     ride |-> calls'[j].ride, got |-> calls'[j].got]]
    <3>1. \A j \in Callers : calls'[j] = [op |-> calls'[j].op, pc |-> calls'[j].pc,
                                          ride |-> calls'[j].ride, got |-> calls'[j].got]
      BY DEF CallsOK, Carries
    <3> QED BY <3>1
  <2>2. \A j \in Callers :
          /\ calls'[j].op \in RideTaps \cup Toggles \cup OtherOps \cup {None}
          /\ calls'[j].pc \in {"idle", "sent", "patch", "patchWrite", "commit", "answered",
                              "found", "hydrate", "resync", "resynced"}
          /\ calls'[j].ride \in Rides \cup {None}
    BY DEF CallsOK, Carries
  <2> QED BY <2>1, <2>2 DEF TypeOK
<1>2. SeenOK'
  <2>1. ASSUME NEW j \in Callers, calls'[j] = calls[j] PROVE Seen(calls[j])'
    <3>1. Carries(calls[j]) /\ Seen(calls[j])
      BY <1>0 DEF CallsOK, SeenOK
    <3>2. calls[j].op \in RideTaps => calls[j].ride \in Rides
      BY <3>1 DEF Carries
    <3>3. calls[j].pc \in {"found", "hydrate"} /\ calls[j].got # None => calls[j].got.id \in Rides
      BY <3>1 DEF Carries, Shows
    <3> QED BY <2>1, <3>1, <3>2, <3>3 DEF Seen
  <2>2. activeTrip' # None => trip'[activeTrip'.id] # "MATCHING"
    BY <1>0 DEF SeenOK, TypeOK, Shows
  <2> QED BY <2>1, <2>2 DEF SeenOK
<1> QED BY <1>1, <1>2 DEF CallInv

\* One call moves.
LEMMA CallMoves ==
    ASSUME CallInv, NEW k \in Callers, NEW c, Becomes(k, c), Carries(c), Mine(k, c)
    PROVE  calls' = [j \in Callers |-> calls'[j]] /\ CallsOK'
                /\ \A j \in Callers : j # k => calls'[j] = calls[j]
<1>1. \A j \in Callers : calls'[j] = IF j = k THEN c ELSE calls[j]
  BY DEF Becomes
<1>2. CallsOK
  BY DEF CallInv
<1>3. CallsOK'
  BY <1>1, <1>2 DEF CallsOK
<1> QED BY <1>1, <1>3 DEF Becomes

\* What the app knows of a ride that is assigned, or of one it knew before,
\* is not of a ride that nobody has been matched to.
LEMMA ActiveSeen ==
    ASSUME CallInv
    PROVE  ActiveTrip \in Shows /\ (ActiveTrip # None => trip[ActiveTrip.id] # "MATCHING")
<1>1. CASE Active = {}
  BY <1>1 DEF ActiveTrip, Shows
<1>2. CASE Active # {}
  <2>1. PICK r : r = Latest
    OBVIOUS
  <2>2. \E x \in Active : \A y \in Active : y <= x
    <3>1. Active \in SUBSET Rides
      BY DEF Active
    <3> QED BY <1>2, <3>1, DriverAppAssumption
  <2>3. r \in Active /\ ActiveTrip = [id |-> r, status |-> trip[r]]
    BY <1>2, <2>1, <2>2 DEF ActiveTrip, Latest
  <2>4. r \in Rides /\ trip[r] \in RideStatus /\ trip[r] # "MATCHING"
    BY <2>3 DEF Active, Under, CallInv, TypeOK
  <2> QED BY <2>3, <2>4 DEF Shows
<1> QED BY <1>1, <1>2

\* A ride operation that Trip Service carries out, on a ride of this driver.
LEMMA Served ==
    ASSUME CallInv, NEW k \in Callers, Serve(k)
    PROVE  /\ calls[k].op \in RideTaps /\ calls[k].ride \in Rides /\ ~Locked(calls[k].ride)
           /\ UNCHANGED <<row, matchVars, status, activeTrip, blind, raced, unmarked, faults>>
           /\ k \notin {"rider", "dispatch"}
           /\ \E c : /\ Becomes(k, c) /\ Carries(c) /\ Mine(k, c)
                     /\ c.op = calls[k].op /\ c.ride = calls[k].ride
                     /\ \/ UNCHANGED trip /\ c.pc = "answered"
                        \/ /\ calls[k].ride \in Active
                           /\ canTransitionRideStatus(trip[calls[k].ride], Target(calls[k].op))
                           /\ trip' = [trip EXCEPT ![calls[k].ride] = Target(calls[k].op)]
                           /\ IF calls[k].op \in {"accept", "arrived"}
                              THEN c.pc = "answered" ELSE c.pc = "patch"
<1>0. /\ TypeOK /\ Carries(calls[k]) /\ Mine(k, calls[k]) /\ Seen(calls[k]) /\ At(k, "sent")
      /\ calls[k].op \in RideTaps /\ calls[k].ride \in Rides /\ ~Locked(calls[k].ride)
  BY DEF CallInv, CallsOK, SeenOK, Carries, Serve
<1>1. k \notin {"rider", "dispatch"}
  BY <1>0 DEF Mine, At
<1>2. UNCHANGED <<row, matchVars, status, activeTrip, blind, raced, unmarked, faults>>
  BY DEF Serve, historyVars, serviceFrame, screenVars
<1> DEFINE c(pc, got) == [op |-> calls[k].op, pc |-> pc, ride |-> calls[k].ride, got |-> got]
<1>3. \A pc, got : Got(k, pc, got) => Becomes(k, c(pc, got))
  BY <1>0, Moves
<1>4. Goto(k, "patch") => Becomes(k, c("patch", calls[k].got))
  BY <1>0, Moves
<1>5. \A got : Carries(c("answered", got)) /\ Mine(k, c("answered", got))
  BY <1>0, <1>1 DEF Carries, Mine
<1>6. calls[k].op \notin {"accept", "arrived"} =>
        Carries(c("patch", calls[k].got)) /\ Mine(k, c("patch", calls[k].got))
  BY <1>0, <1>1 DEF Carries, Mine, RideTaps, BackendOps
<1>7. CASE ~canTransitionRideStatus(trip[calls[k].ride], Target(calls[k].op))
  <2>1. UNCHANGED trip /\ Becomes(k, c("answered", "refused"))
    BY <1>3, <1>7 DEF Serve
  <2> QED BY <1>0, <1>1, <1>2, <1>5, <2>1
<1>8. CASE canTransitionRideStatus(trip[calls[k].ride], Target(calls[k].op))
  <2>1. calls[k].ride \in Active
    <3>1. trip[calls[k].ride] # "MATCHING"
      BY <1>0 DEF Seen
    <3> QED BY <1>0, <1>8, <3>1
        DEF canTransitionRideStatus, RideTransitions, Target, RideTaps, Active, Under
  <2>2. trip' = [trip EXCEPT ![calls[k].ride] = Target(calls[k].op)]
    BY <1>8 DEF Serve
  <2>3. CASE calls[k].op \in {"accept", "arrived"}
    <3>1. Becomes(k, c("answered", "ok"))
      BY <1>3, <1>8, <2>3 DEF Serve
    <3> QED BY <1>0, <1>1, <1>2, <1>5, <1>8, <2>1, <2>2, <2>3, <3>1
  <2>4. CASE calls[k].op \notin {"accept", "arrived"}
    <3>1. Becomes(k, c("patch", calls[k].got))
      BY <1>4, <1>8, <2>4 DEF Serve
    <3> QED BY <1>0, <1>1, <1>2, <1>6, <1>8, <2>1, <2>2, <2>4, <3>1
  <2> QED BY <2>3, <2>4
<1> QED BY <1>7, <1>8

\* The end of a PATCH.
LEMMA PatchEnds ==
    ASSUME CallInv, NEW k \in Callers, calls[k].pc \in {"patch", "patchWrite"},
           NEW outcome, Patched(k, outcome)
    PROVE  /\ promised' = IF calls[k].op = "match" THEN promised \cup {calls[k].ride} ELSE promised
           /\ promised' \subseteq Rides
           /\ \E c :
             /\ Becomes(k, c) /\ Carries(c) /\ Mine(k, c)
             /\ c.op = None \/ (c.op = calls[k].op /\ c.ride = calls[k].ride)
             /\ CASE calls[k].op = "match"  -> c.pc = "idle"
                  [] calls[k].op = "cancel" -> c.pc = "commit" /\ c.ride = calls[k].ride
                  [] OTHER                  -> c.pc = "answered"
<1>0. /\ TypeOK /\ Carries(calls[k]) /\ Mine(k, calls[k])
      /\ calls[k].op \in BackendOps \cup Toggles \cup {"match"}
      /\ calls[k].op \in OtherOps => calls[k].ride \in Rides
  BY DEF CallInv, CallsOK, Carries
<1>1. /\ promised' = IF calls[k].op = "match" THEN promised \cup {calls[k].ride} ELSE promised
      /\ promised' \subseteq Rides
  BY <1>0 DEF Patched, TypeOK, OtherOps
<1>2. CASE calls[k].op = "match"
  <2> DEFINE c == [op |-> None, pc |-> "idle", ride |-> None, got |-> None]
  <2>1. Becomes(k, c)
    BY <1>0, <1>2, Moves DEF Patched
  <2>2. Carries(c) /\ Mine(k, c) /\ c.pc = "idle" /\ c.op = None
    BY DriverAppAssumption DEF Carries, Mine, OtherOps
  <2> QED BY <1>1, <1>2, <2>1, <2>2
<1>3. CASE calls[k].op = "cancel"
  <2> DEFINE c == [op |-> calls[k].op, pc |-> "commit", ride |-> calls[k].ride, got |-> calls[k].got]
  <2>1. Becomes(k, c)
    BY <1>0, <1>3, Moves DEF Patched
  <2>2. Carries(c) /\ Mine(k, c) /\ c.pc = "commit"
    BY <1>0, <1>3 DEF Carries, Mine
  <2> QED BY <1>1, <1>3, <2>1, <2>2
<1>4. CASE calls[k].op \notin OtherOps
  <2>1. PICK got : Got(k, "answered", got)
    BY <1>4 DEF Patched, OtherOps
  <2> DEFINE c == [op |-> calls[k].op, pc |-> "answered", ride |-> calls[k].ride, got |-> got]
  <2>2. Becomes(k, c)
    BY <1>0, <2>1, Moves
  <2>3. k \notin {"rider", "dispatch"}
    BY <1>0, <1>4 DEF Mine, OtherOps
  <2>4. Carries(c) /\ Mine(k, c) /\ c.pc = "answered"
    BY <1>0, <1>4, <2>3 DEF Carries, Mine, OtherOps
  <2> QED BY <1>1, <1>4, <2>2, <2>4 DEF OtherOps
<1> QED BY <1>2, <1>3, <1>4 DEF OtherOps

-----------------------------------------------------------------------------
\* The calls' invariant

LEMMA CallInit == Init => CallInv
<1> SUFFICES ASSUME Init PROVE CallInv
  OBVIOUS
<1>0. /\ activeTrip = None /\ status = "OFFLINE" /\ faults = 0
      /\ blind = FALSE /\ raced = FALSE /\ unmarked = FALSE /\ promised = {}
  BY DEF Init
<1>1. PICK m \in Polls : calls = [k \in Callers |-> IF k = m THEN Syncing ELSE Idle]
  BY DEF Init
<1>2. \A k \in Callers :
        /\ calls[k] = [op |-> None, pc |-> calls[k].pc, ride |-> None, got |-> None]
        /\ calls[k].pc \in {"idle", "resync"} /\ calls[k].op = None
        /\ k \notin Polls => calls[k].pc = "idle"
  <2>1. Syncing = [op |-> None, pc |-> "resync", ride |-> None, got |-> None]
    BY DEF Syncing, Idle
  <2> QED BY <1>1, <2>1 DEF Idle
<1>3. trip \in [Rides -> RideStatus] /\ row \in DriverStatus /\ asked \in Nat
  BY DriverAppAssumption DEF Init, Under, RideStatus, DriverStatus
<1>4. CallsOK
  <2> SUFFICES ASSUME NEW k \in Callers PROVE Carries(calls[k]) /\ Mine(k, calls[k])
    BY DEF CallsOK
  <2>1. PICK p \in {"idle", "resync"} :
          calls[k] = [op |-> None, pc |-> p, ride |-> None, got |-> None]
    BY <1>2
  <2>2. k \in Polls \/ p = "idle"
    BY <1>2, <2>1
  <2>3. k \in Polls => k \notin {"rider", "dispatch"}
    BY DriverAppAssumption
  <2> QED BY <2>1, <2>2, <2>3, DriverAppAssumption DEF Carries, Mine, OtherOps
<1>5. TypeOK
  <2>1. calls = [k \in Callers |-> [op |-> calls[k].op, pc |-> calls[k].pc,
                                    ride |-> calls[k].ride, got |-> calls[k].got]]
    <3>1. calls = [k \in Callers |-> calls[k]]
      BY <1>1
    <3>2. \A k \in Callers : calls[k] = [op |-> calls[k].op, pc |-> calls[k].pc,
                                         ride |-> calls[k].ride, got |-> calls[k].got]
      BY <1>4 DEF CallsOK, Carries
    <3> QED BY <3>1, <3>2
  <2>2. \A k \in Callers : Carries(calls[k])
    BY <1>4 DEF CallsOK
  <2>3. \A k \in Callers :
          /\ calls[k].op \in RideTaps \cup Toggles \cup OtherOps \cup {None}
          /\ calls[k].pc \in {"idle", "sent", "patch", "patchWrite", "commit", "answered",
                              "found", "hydrate", "resync", "resynced"}
          /\ calls[k].ride \in Rides \cup {None}
    BY <2>2 DEF Carries
  <2>4. /\ status \in {"OFFLINE", "ONLINE", "BUSY"} /\ activeTrip \in Shows
        /\ blind \in BOOLEAN /\ raced \in BOOLEAN /\ unmarked \in BOOLEAN /\ promised \subseteq Rides
    BY <1>0 DEF Shows
  <2>5. faults \in 0 .. MaxFaults
    BY <1>0, DriverAppAssumption
  <2> QED BY <1>3, <2>1, <2>3, <2>4, <2>5 DEF TypeOK
<1>6. SeenOK
  BY <1>0, <1>2, DriverAppAssumption DEF SeenOK, Seen
<1> QED BY <1>4, <1>5, <1>6 DEF CallInv

LEMMA CallNext == CallInv /\ [Next]_vars => CallInv'
<1> SUFFICES ASSUME CallInv, [Next]_vars PROVE CallInv'
  OBVIOUS
<1>0. TypeOK /\ CallsOK /\ SeenOK
  BY DEF CallInv
<1>P. {"rider", "dispatch"} \subseteq Callers /\ Polls \subseteq Callers /\ Taps \subseteq Callers
      /\ "rider" # "dispatch" /\ {"rider", "dispatch"} \cap (Polls \cup Taps) = {}
      /\ None \notin RideTaps \cup OtherOps
  BY DriverAppAssumption DEF Callers
\* A step of a call that touches no ride and shows a ride it knows.
<1>S. ASSUME NEW k \in Callers, NEW c, Becomes(k, c), Carries(c), Mine(k, c),
             UNCHANGED <<trip, asked, promised>>, Seen(c),
             row' \in DriverStatus, status' \in {"OFFLINE", "ONLINE", "BUSY"},
             activeTrip' \in Shows, activeTrip' # None => trip[activeTrip'.id] # "MATCHING",
             blind' \in BOOLEAN, raced' \in BOOLEAN, unmarked' \in BOOLEAN,
             faults' \in 0 .. MaxFaults
      PROVE  CallInv'
  <2>1. Seen(calls[k])'
    BY <1>S DEF Seen, Becomes
  <2>2. /\ calls' = [j \in Callers |-> calls'[j]] /\ CallsOK'
        /\ \A j \in Callers : j # k => calls'[j] = calls[j]
    BY <1>S, CallMoves
  <2> QED BY <1>0, <1>S, <2>1, <2>2, CallStep DEF TypeOK
\* A step of a ride, with a call that moves and does not show it.
<1>R. ASSUME NEW r \in Rides, NEW s \in RideStatus \ {"MATCHING"},
             trip' = [trip EXCEPT ![r] = s], promised' \subseteq Rides,
             calls' = [j \in Callers |-> calls'[j]], CallsOK',
             \A k \in Callers : calls'[k] = calls[k] \/ Seen(calls[k])',
             UNCHANGED <<asked, row, status, activeTrip, blind, raced, unmarked, faults>>
      PROVE  CallInv'
  <2>1. trip' \in [Rides -> RideStatus] /\ \A x \in Rides : trip[x] # "MATCHING" => trip'[x] # "MATCHING"
    BY <1>0, <1>R DEF TypeOK
  <2> QED BY <1>0, <1>R, <2>1, CallStep DEF TypeOK
<1>1. ASSUME NEW k \in Callers, Serve(k) PROVE CallInv'
  <2>1. PICK c : /\ Becomes(k, c) /\ Carries(c) /\ Mine(k, c)
                 /\ c.op = calls[k].op /\ c.ride = calls[k].ride
                 /\ \/ UNCHANGED trip /\ c.pc = "answered"
                    \/ /\ calls[k].ride \in Active
                       /\ canTransitionRideStatus(trip[calls[k].ride], Target(calls[k].op))
                       /\ trip' = [trip EXCEPT ![calls[k].ride] = Target(calls[k].op)]
                       /\ IF calls[k].op \in {"accept", "arrived"}
                          THEN c.pc = "answered" ELSE c.pc = "patch"
    BY <1>1, Served
  <2>2. /\ calls[k].op \in RideTaps /\ calls[k].ride \in Rides
        /\ UNCHANGED <<row, asked, promised, status, activeTrip, blind, raced, unmarked, faults>>
    BY <1>1, Served DEF matchVars
  <2>3. c.pc \notin {"found", "hydrate"} /\ trip[calls[k].ride] # "MATCHING"
    BY <1>0, <2>1, <2>2 DEF SeenOK, Seen
  <2>4. Target(calls[k].op) \in RideStatus \ {"MATCHING"}
    BY <2>2 DEF Target, RideStatus, RideTaps
  <2>5. CASE UNCHANGED trip
    <3>1. Seen(c)
      BY <2>1, <2>2, <2>3 DEF Seen
    <3> QED BY <1>0, <1>S, <2>1, <2>2, <2>5, <3>1 DEF TypeOK, SeenOK
  <2>6. CASE trip' = [trip EXCEPT ![calls[k].ride] = Target(calls[k].op)]
    <3>1. Seen(c)'
      <4>1. trip'[calls[k].ride] # "MATCHING"
        BY <1>0, <2>2, <2>4, <2>6 DEF TypeOK
      <4> QED BY <2>1, <2>3, <4>1 DEF Seen
    <3>2. Seen(calls[k])'
      <4>1. calls'[k] = c
        BY <2>1 DEF Becomes
      <4> QED BY <3>1, <4>1 DEF Seen
    <3>3. /\ calls' = [j \in Callers |-> calls'[j]] /\ CallsOK'
          /\ \A j \in Callers : j # k => calls'[j] = calls[j]
      BY <2>1, CallMoves
    <3> QED BY <1>0, <1>R, <2>2, <2>4, <2>6, <3>2, <3>3 DEF TypeOK
  <2> QED BY <2>1, <2>5, <2>6
\* The end of a PATCH, refused or not.
<1>2. ASSUME NEW k \in Callers, calls[k].pc \in {"patch", "patchWrite"},
             NEW outcome, Patched(k, outcome), row' \in DriverStatus,
             UNCHANGED <<trip, asked, status, activeTrip, blind>>, raced' \in BOOLEAN,
             unmarked' \in BOOLEAN, faults' \in 0 .. MaxFaults
      PROVE  CallInv'
  <2>1. promised' \subseteq Rides
    BY <1>2, PatchEnds
  <2>2. PICK c : /\ Becomes(k, c) /\ Carries(c) /\ Mine(k, c)
                 /\ c.op = None \/ (c.op = calls[k].op /\ c.ride = calls[k].ride)
                 /\ CASE calls[k].op = "match"  -> c.pc = "idle"
                      [] calls[k].op = "cancel" -> c.pc = "commit" /\ c.ride = calls[k].ride
                      [] OTHER                  -> c.pc = "answered"
    BY <1>2, PatchEnds
  <2>3. Seen(calls[k])'
    <3>1. calls[k].op \in RideTaps => trip[calls[k].ride] # "MATCHING"
      BY <1>0 DEF SeenOK, Seen
    <3>2. calls'[k] = c /\ c.pc \notin {"found", "hydrate"}
      BY <2>2 DEF Becomes
    <3> QED BY <1>2, <1>P, <2>2, <3>1, <3>2 DEF Seen
  <2>4. /\ calls' = [j \in Callers |-> calls'[j]] /\ CallsOK'
        /\ \A j \in Callers : j # k => calls'[j] = calls[j]
    BY <2>2, CallMoves
  <2> QED BY <1>0, <1>2, <2>1, <2>3, <2>4, CallStep DEF TypeOK
<1>3. ASSUME NEW k \in Callers, PatchRead(k) PROVE CallInv'
  <2>1. /\ At(k, "patch") /\ raced' \in BOOLEAN
        /\ UNCHANGED <<trip, asked, row, status, activeTrip, blind, faults>>
    BY <1>0, <1>3 DEF PatchRead, serviceFrame, screenVars, TypeOK
  <2>2. CASE Patched(k, "refused") /\ unmarked' \in BOOLEAN
    BY <1>0, <1>2, <2>1, <2>2 DEF At, TypeOK
  <2>3. CASE Goto(k, "patchWrite") /\ UNCHANGED <<promised, unmarked>>
    <3> DEFINE c == [op |-> calls[k].op, pc |-> "patchWrite",
                     ride |-> calls[k].ride, got |-> calls[k].got]
    <3>1. Becomes(k, c)
      BY <1>0, <2>3, Moves
    <3>2. Carries(calls[k]) /\ Mine(k, calls[k]) /\ Seen(calls[k])
      BY <1>0 DEF CallsOK, SeenOK
    <3>3. Carries(c) /\ Mine(k, c) /\ Seen(c)
      BY <2>1, <3>2 DEF Carries, Mine, Seen, At
    <3> HIDE DEF c
    <3> QED BY <1>0, <1>S, <2>1, <2>3, <3>1, <3>3 DEF TypeOK, SeenOK
  <2>4. \/ Goto(k, "patchWrite") /\ UNCHANGED <<promised, unmarked>>
        \/ Patched(k, "refused") /\ unmarked' = (unmarked \/ calls[k].op = "match")
    BY <1>3 DEF PatchRead
  <2> QED BY <1>0, <2>2, <2>3, <2>4 DEF TypeOK
<1>4. ASSUME NEW k \in Callers, PatchWrite(k) PROVE CallInv'
  <2>1. /\ At(k, "patchWrite") /\ raced' \in BOOLEAN /\ Patched(k, "ok")
        /\ row' \in DriverStatus
        /\ UNCHANGED <<trip, asked, status, activeTrip, blind, unmarked, faults>>
    BY <1>0, <1>4 DEF PatchWrite, serviceFrame, screenVars, TypeOK, PatchTo, DriverStatus
  <2> QED BY <1>0, <1>2, <2>1 DEF At, TypeOK
<1>5. ASSUME NEW k \in Callers, ReadStatus(k) PROVE CallInv'
  <2> DEFINE c == [op |-> calls[k].op, pc |-> "resynced", ride |-> calls[k].ride, got |-> row]
  <2>1. /\ At(k, "resync") /\ Got(k, "resynced", row)
        /\ UNCHANGED <<trip, asked, promised, row, status, activeTrip, blind, raced, unmarked, faults>>
    BY <1>5 DEF ReadStatus, backendVars, matchVars, historyVars, serviceFrame, screenVars
  <2>2. Becomes(k, c)
    BY <1>0, <2>1, Moves
  <2>3. Carries(calls[k]) /\ Mine(k, calls[k]) /\ Seen(calls[k]) /\ row \in DriverStatus
    BY <1>0 DEF CallsOK, SeenOK, TypeOK
  <2>4. Carries(c) /\ Mine(k, c) /\ Seen(c)
    BY <2>1, <2>3 DEF Carries, Mine, Seen, At
  <2> HIDE DEF c
  <2> QED BY <1>0, <1>S, <2>1, <2>2, <2>4 DEF TypeOK, SeenOK
\* A call that ends, or asks for the status.
<1>6. ASSUME NEW k \in Callers, End(k) \/ (k \notin {"rider", "dispatch"} /\ Resync(k)),
             UNCHANGED <<trip, asked, promised, row, raced, unmarked>>,
             status' \in {"OFFLINE", "ONLINE", "BUSY"},
             activeTrip' \in Shows, activeTrip' # None => trip[activeTrip'.id] # "MATCHING",
             blind' \in BOOLEAN, faults' \in 0 .. MaxFaults
      PROVE  CallInv'
  <2>1. PICK pc \in {"idle", "resync"} :
          /\ Becomes(k, [op |-> None, pc |-> pc, ride |-> None, got |-> None])
          /\ pc = "idle" \/ k \notin {"rider", "dispatch"}
    BY <1>0, <1>6, Moves
  <2> DEFINE c == [op |-> None, pc |-> pc, ride |-> None, got |-> None]
  <2>2. Carries(c) /\ Mine(k, c) /\ Seen(c)
    BY <1>P, <2>1 DEF Carries, Mine, Seen, OtherOps
  <2>3. Becomes(k, c)
    BY <2>1
  <2> HIDE DEF c
  <2> QED BY <1>0, <1>6, <1>S, <2>2, <2>3 DEF TypeOK
<1>7. ASSUME NEW k \in Callers, CallFails(k) PROVE CallInv'
  <2>1. /\ UNCHANGED <<trip, asked, row, status, activeTrip, blind, raced, unmarked>>
        /\ faults' \in 0 .. MaxFaults
    BY <1>0, <1>7, DriverAppAssumption DEF CallFails, historyVars, serviceFrame, screenVars, TypeOK
  <2>2. CASE At(k, "patch") /\ Patched(k, "refused")
    BY <1>0, <1>2, <2>1, <2>2 DEF At, TypeOK
  <2>3. CASE At(k, "resync") /\ End(k) /\ UNCHANGED promised
    BY <1>0, <1>6, <2>1, <2>3 DEF TypeOK, SeenOK
  <2> QED BY <1>7, <2>2, <2>3 DEF CallFails
\* The other parties set out.
<1>8. ASSUME NEW k \in {"rider", "dispatch"}, NEW op, NEW r \in Rides, Send(k, op, "patch", r),
             k = "rider" => op = "cancel", k = "dispatch" => op = "match",
             asked' \in Nat,
             UNCHANGED <<trip, promised, row, status, activeTrip, blind, raced, unmarked, faults>>
      PROVE  CallInv'
  <2> DEFINE c == [op |-> op, pc |-> "patch", ride |-> r, got |-> None]
  <2>1. Becomes(k, c)
    BY <1>0, <1>8, <1>P, Moves
  <2>2. Carries(c) /\ Mine(k, c) /\ c.op \notin RideTaps /\ c.pc = "patch"
    BY <1>8, <1>P DEF Carries, Mine, OtherOps, BackendOps, RideTaps
  <2> HIDE DEF c
  <2>3. /\ calls' = [j \in Callers |-> calls'[j]] /\ CallsOK'
        /\ \A j \in Callers : j # k => calls'[j] = calls[j]
    BY <1>8, <1>P, <2>1, <2>2, CallMoves
  <2>4. Seen(calls[k])'
    <3>1. calls'[k] = c
      BY <1>8, <1>P, <2>1 DEF Becomes
    <3> QED BY <2>2, <3>1 DEF Seen
  <2> QED BY <1>0, <1>8, <2>3, <2>4, CallStep DEF TypeOK
<1>9. ASSUME NEW r \in Rides, DispatchReserves(r) PROVE CallInv'
  <2>1. /\ Send("dispatch", "match", "patch", r) /\ asked' \in Nat
        /\ UNCHANGED <<trip, promised, row, status, activeTrip, blind, raced, unmarked, faults>>
    BY <1>9, DriverAppAssumption DEF DispatchReserves, historyVars, serviceFrame, screenVars
  <2> QED BY <1>8, <1>P, <2>1
<1>10. ASSUME NEW r \in Rides, MatchArrives(r) PROVE CallInv'
  <2>1. /\ promised' \subseteq Rides
        /\ UNCHANGED <<asked, row, calls, status, activeTrip, blind, raced, unmarked, faults>>
    BY <1>0, <1>10 DEF MatchArrives, historyVars, serviceFrame, screenVars, TypeOK
  <2>2. calls' = [j \in Callers |-> calls'[j]] /\ CallsOK'
    BY <1>0, <2>1 DEF TypeOK, CallsOK
  <2>3. CASE UNCHANGED trip
    BY <1>0, <2>1, <2>2, <2>3, CallStep DEF TypeOK, SeenOK
  <2>4. CASE trip' = [trip EXCEPT ![r] = "MATCHED"]
    BY <1>R, <2>1, <2>2, <2>4 DEF RideStatus
  <2> QED BY <1>10, <2>3, <2>4 DEF MatchArrives
<1>11. ASSUME NEW r \in Rides, RiderCancels(r) PROVE CallInv'
  <2>1. UNCHANGED <<asked, promised, row, status, activeTrip, blind, raced, unmarked, faults>>
    BY <1>11 DEF RiderCancels, matchVars, historyVars, serviceFrame, screenVars
  <2>2. CASE Send("rider", "cancel", "patch", r) /\ UNCHANGED trip
    BY <1>0, <1>8, <1>P, <2>1, <2>2 DEF TypeOK
  <2>3. CASE trip' = [trip EXCEPT ![r] = "CANCELLED"] /\ UNCHANGED calls
    <3>1. calls' = [j \in Callers |-> calls'[j]] /\ CallsOK' /\ promised' \subseteq Rides
      BY <1>0, <2>1, <2>3 DEF TypeOK, CallsOK
    <3> QED BY <1>R, <2>1, <2>3, <3>1 DEF RideStatus
  <2> QED BY <1>11, <2>2, <2>3 DEF RiderCancels
<1>12. ASSUME CancelCommits PROVE CallInv'
  <2> DEFINE c == [op |-> None, pc |-> "idle", ride |-> None, got |-> None]
  <2>1. /\ At("rider", "commit") /\ End("rider")
        /\ trip' = [trip EXCEPT ![calls["rider"].ride] = "CANCELLED"]
        /\ UNCHANGED <<asked, promised, row, status, activeTrip, blind, raced, unmarked, faults>>
    BY <1>12 DEF CancelCommits, matchVars, historyVars, serviceFrame, screenVars
  <2>2. Becomes("rider", c)
    BY <1>0, <1>P, <2>1, Moves
  <2>3. Carries(c) /\ Mine("rider", c) /\ c.op = None /\ c.pc = "idle"
    BY <1>P DEF Carries, Mine, OtherOps
  <2> HIDE DEF c
  <2>4. /\ calls' = [j \in Callers |-> calls'[j]] /\ CallsOK'
        /\ \A j \in Callers : j # "rider" => calls'[j] = calls[j]
    BY <1>P, <2>2, <2>3, CallMoves
  <2>5. Seen(calls["rider"])'
    <3>1. calls'["rider"] = c
      BY <1>P, <2>2 DEF Becomes
    <3> QED BY <1>P, <2>3, <3>1 DEF Seen
  <2>6. calls["rider"].ride \in Rides /\ promised' \subseteq Rides
    <3>1. Carries(calls["rider"]) /\ Mine("rider", calls["rider"])
      BY <1>0, <1>P DEF CallsOK
    <3> QED BY <1>0, <2>1, <3>1 DEF Carries, Mine, At, OtherOps, TypeOK
  <2> QED BY <1>R, <2>1, <2>4, <2>5, <2>6 DEF RideStatus
<1>13. ASSUME NEW k \in Polls, Poll(k) PROVE CallInv'
  <2> DEFINE c == [op |-> calls[k].op, pc |-> "found", ride |-> calls[k].ride, got |-> ActiveTrip]
  <2>1. /\ Got(k, "found", ActiveTrip)
        /\ UNCHANGED <<trip, asked, promised, row, status, activeTrip, blind, raced, unmarked, faults>>
    BY <1>13 DEF Poll, appFrame, backendVars, matchVars, historyVars, screenVars
  <2>2. Becomes(k, c) /\ k \in Callers /\ k \notin {"rider", "dispatch"}
    BY <1>0, <1>P, <2>1, Moves
  <2>3. Carries(calls[k]) /\ Mine(k, calls[k]) /\ Seen(calls[k])
    BY <1>0, <2>2 DEF CallsOK, SeenOK
  <2>4. Carries(c) /\ Mine(k, c) /\ Seen(c)
    BY <2>2, <2>3, ActiveSeen DEF Carries, Mine, Seen
  <2> HIDE DEF c
  <2> QED BY <1>0, <1>S, <2>1, <2>2, <2>4 DEF TypeOK, SeenOK
<1>14. ASSUME NEW k \in Taps, NEW op \in RideTaps \cup Toggles, NEW pc, NEW r, Send(k, op, pc, r),
              UNCHANGED <<trip, asked, promised, row, status, activeTrip, blind, raced, unmarked, faults>>,
              \/ op \in Toggles /\ pc = "patch" /\ r = None
              \/ op \in RideTaps /\ pc = "sent" /\ r \in Rides /\ trip[r] # "MATCHING"
       PROVE  CallInv'
  <2> DEFINE c == [op |-> op, pc |-> pc, ride |-> r, got |-> None]
  <2>1. Becomes(k, c) /\ k \in Callers /\ k \notin {"rider", "dispatch"}
    BY <1>0, <1>P, <1>14, Moves
  <2>2. Carries(c) /\ Mine(k, c) /\ Seen(c)
    BY <1>14, <2>1 DEF Carries, Mine, Seen, Toggles, RideTaps, OtherOps
  <2> HIDE DEF c
  <2> QED BY <1>0, <1>14, <1>S, <2>1, <2>2 DEF TypeOK, SeenOK
<1>15. ASSUME NEW k \in Taps, Toggle(k) PROVE CallInv'
  <2>1. UNCHANGED <<trip, asked, promised, row, status, activeTrip, blind, raced, unmarked, faults>>
    BY <1>15 DEF Toggle, appFrame, backendVars, matchVars, historyVars, screenVars
  <2>2. PICK op \in Toggles : Send(k, op, "patch", None)
    BY <1>15 DEF Toggle, Toggles
  <2> QED BY <1>14, <2>1, <2>2
<1>16. ASSUME NEW k \in Taps, NEW op \in RideTaps, Tap(k, op) PROVE CallInv'
  <2>1. UNCHANGED <<trip, asked, promised, row, status, activeTrip, blind, raced, unmarked, faults>>
        /\ activeTrip # None /\ Send(k, op, "sent", activeTrip.id)
    BY <1>16 DEF Tap, appFrame, backendVars, matchVars, historyVars, screenVars
  <2>2. activeTrip.id \in Rides /\ trip[activeTrip.id] # "MATCHING"
    BY <1>0, <2>1 DEF TypeOK, Shows, SeenOK
  <2> QED BY <1>14, <2>1, <2>2
<1>17. ASSUME NEW k \in Callers, AppStep(k) PROVE CallInv'
  <2>0. /\ Carries(calls[k]) /\ Mine(k, calls[k]) /\ Seen(calls[k])
        /\ UNCHANGED <<trip, asked, promised, row, raced, unmarked, faults>>
    BY <1>0, <1>17 DEF CallsOK, SeenOK, AppStep, PollAnswered, Hydrated, StatusArrives,
       TapAnswered, ToggleAnswered, appFrame, backendVars, matchVars, historyVars
  <2>1. k \notin {"rider", "dispatch"}
    BY <1>17, <2>0 DEF Mine, AppStep, PollAnswered, Hydrated, StatusArrives,
       TapAnswered, ToggleAnswered, At
  <2>T. /\ status \in {"OFFLINE", "ONLINE", "BUSY"} /\ activeTrip \in Shows /\ None \in Shows
        /\ blind \in BOOLEAN /\ faults' \in 0 .. MaxFaults
        /\ activeTrip # None => trip[activeTrip.id] # "MATCHING"
    BY <1>0, <2>0 DEF TypeOK, SeenOK, Shows
  <2>2. CASE PollAnswered(k)
    <3>1. At(k, "found") /\ UNCHANGED <<blind, status>> /\ calls[k].got \in Shows
      BY <2>0, <2>2 DEF PollAnswered, PollFindsNone, PollFindsShown, PollFindsOther, appFrame,
         historyVars, screenVars, Carries, At
    <3>2. CASE PollFindsNone(k)
      <4>1. (End(k) \/ Resync(k)) /\ activeTrip' = None
        BY <3>2 DEF PollFindsNone
      <4> QED BY <1>6, <2>0, <2>1, <2>T, <3>1, <4>1
    <3>3. CASE PollFindsShown(k)
      <4>1. End(k) /\ activeTrip' = calls[k].got /\ activeTrip' # None
        BY <3>3 DEF PollFindsShown
      <4>2. activeTrip' \in Shows /\ trip[activeTrip'.id] # "MATCHING"
        BY <2>0, <3>1, <4>1 DEF Seen, At
      <4> QED BY <1>6, <2>0, <2>1, <2>T, <3>1, <4>1, <4>2
    <3>4. CASE PollFindsOther(k)
      <4> DEFINE c == [op |-> calls[k].op, pc |-> "hydrate",
                       ride |-> calls[k].ride, got |-> calls[k].got]
      <4>1. Becomes(k, c) /\ UNCHANGED activeTrip /\ calls[k].got # None
        BY <1>0, <3>4, Moves DEF PollFindsOther, screenVars
      <4>2. Carries(c) /\ Mine(k, c) /\ Seen(c)
        BY <2>0, <2>1, <3>1, <4>1 DEF Carries, Mine, Seen, At
      <4> HIDE DEF c
      <4> QED BY <1>0, <1>S, <2>0, <2>1, <2>T, <3>1, <4>1, <4>2 DEF TypeOK
    <3> QED BY <2>2, <3>2, <3>3, <3>4 DEF PollAnswered
  <2>3. CASE Hydrated(k)
    <3>1. /\ At(k, "hydrate") /\ End(k) /\ activeTrip' = calls[k].got
          /\ status' = "BUSY" /\ blind' = FALSE
      BY <2>3 DEF Hydrated
    <3>2. activeTrip' \in Shows /\ trip[activeTrip'.id] # "MATCHING"
      BY <2>0, <3>1 DEF Carries, Seen, At
    <3> QED BY <1>6, <2>0, <2>1, <2>T, <3>1, <3>2
  <2>4. CASE StatusArrives(k)
    <3>1. /\ status' \in {"OFFLINE", "ONLINE", "BUSY"} /\ End(k) /\ blind' \in BOOLEAN
          /\ UNCHANGED activeTrip
      BY <2>4 DEF StatusArrives, uiStatus
    <3> QED BY <1>6, <2>0, <2>1, <2>T, <3>1
  <2>5. CASE TapAnswered(k)
    <3>1. /\ calls[k].op \in RideTaps /\ UNCHANGED <<status, blind>> /\ calls[k].ride \in Rides
          /\ trip[calls[k].ride] # "MATCHING"
      BY <2>0, <2>5 DEF TapAnswered, appFrame, historyVars, Carries, Seen
    <3>2. CASE (End(k) \/ Resync(k)) /\ (UNCHANGED activeTrip \/ activeTrip' = None)
      BY <1>6, <2>0, <2>1, <2>T, <3>1, <3>2
    <3>3. CASE /\ End(k)
               /\ activeTrip' = [id |-> calls[k].ride, status |-> Target(calls[k].op)]
      <4>1. Target(calls[k].op) \in RideStatus
        BY <3>1 DEF Target, RideStatus
      <4>2. activeTrip' \in Shows /\ trip[activeTrip'.id] # "MATCHING"
        BY <3>1, <3>3, <4>1 DEF Shows
      <4> QED BY <1>6, <2>0, <2>1, <2>T, <3>1, <3>3, <4>2
    <3> QED BY <2>5, <3>2, <3>3 DEF TapAnswered
  <2>6. CASE ToggleAnswered(k)
    <3>1. /\ status' \in {"OFFLINE", "ONLINE", "BUSY"} /\ End(k)
          /\ UNCHANGED <<activeTrip, blind>>
      BY <2>6, <2>T DEF ToggleAnswered, appFrame, historyVars
    <3> QED BY <1>6, <2>0, <2>1, <2>T, <3>1
  <2> QED BY <1>17, <2>2, <2>3, <2>4, <2>5, <2>6 DEF AppStep
<1>18. CASE UNCHANGED vars
  BY <1>18 DEF vars, matchVars, CallInv, TypeOK, CallsOK, SeenOK, Seen
<1> QED BY <1>1, <1>3, <1>4, <1>5, <1>7, <1>9, <1>10, <1>11, <1>12, <1>13, <1>15, <1>16, <1>17,
       <1>18 DEF Next, ServiceStep

\* Types, in every reachable state.
THEOREM TypeCorrect == Spec => []TypeOK
<1>1. CallInv => TypeOK
  BY DEF CallInv
<1> QED BY <1>1, CallInit, CallNext, PTL DEF Spec

-----------------------------------------------------------------------------
\* The lock.  A BUSY screen without a ride is one that could not know, or a
\* status is on its way to it.

LockInv ==
    status = "BUSY" /\ activeTrip = None /\ faults = 0 /\ ~blind =>
        \E k \in Callers : calls[k].pc \in {"resync", "resynced"}

\* A step that leaves the screen alone and asks for no less.
LEMMA LockKept ==
    ASSUME LockInv, NEW k \in Callers, NEW c, Becomes(k, c),
           UNCHANGED <<status, activeTrip, blind>>, faults' = 0 => faults = 0,
           \/ calls[k].pc \notin {"resync", "resynced"}
           \/ c.pc \in {"resync", "resynced"} \/ faults' # 0
    PROVE  LockInv'
BY DEF LockInv, Becomes

LEMMA LockNext == CallInv /\ CallInv' /\ LockInv /\ [Next]_vars => LockInv'
<1> SUFFICES ASSUME CallInv, CallInv', LockInv, [Next]_vars PROVE LockInv'
  OBVIOUS
<1>0. TypeOK /\ CallsOK
  BY DEF CallInv
<1>P. {"rider", "dispatch"} \subseteq Callers /\ Polls \subseteq Callers /\ Taps \subseteq Callers
  BY DEF Callers
\* A call moves that is not after the status.
<1>1. ASSUME NEW k \in Callers, NEW c, Becomes(k, c), UNCHANGED <<status, activeTrip, blind>>,
             faults' = faults, calls[k].pc \notin {"resync", "resynced"}
      PROVE  LockInv'
  BY <1>1, LockKept
<1>2. ASSUME NEW k \in Callers, Resync(k) PROVE LockInv'
  BY <1>0, <1>2, Moves DEF Becomes, LockInv
<1>3. ASSUME faults' # 0 PROVE LockInv'
  BY <1>3 DEF LockInv
<1>4. ASSUME NEW k \in Callers, ServiceStep(k) PROVE LockInv'
  <2>1. CASE Serve(k)
    <3>1. \E c : Becomes(k, c)
      BY <2>1, Served
    <3> QED BY <1>1, <2>1, <3>1, Served DEF Serve, At
  <2>2. CASE PatchRead(k)
    <3>1. \E c : Becomes(k, c)
      BY <1>0, <2>2, PatchEnds, Moves DEF PatchRead, At
    <3> QED BY <1>1, <2>2, <3>1 DEF PatchRead, At, serviceFrame, screenVars
  <2>3. CASE PatchWrite(k)
    <3>1. \E c : Becomes(k, c)
      BY <2>3, PatchEnds DEF PatchWrite, At
    <3> QED BY <1>1, <2>3, <3>1 DEF PatchWrite, At, serviceFrame, screenVars
  <2>4. CASE ReadStatus(k)
    <3>1. /\ Got(k, "resynced", row)
          /\ UNCHANGED <<status, activeTrip, blind, faults>>
      BY <2>4 DEF ReadStatus, backendVars, historyVars, serviceFrame, screenVars
    <3>2. calls'[k].pc = "resynced"
      <4>1. Becomes(k, [op |-> calls[k].op, pc |-> "resynced",
                        ride |-> calls[k].ride, got |-> row])
        BY <1>0, <3>1, Moves
      <4> QED BY <4>1 DEF Becomes
    <3> QED BY <3>2 DEF LockInv
  <2> QED BY <1>4, <2>1, <2>2, <2>3, <2>4 DEF ServiceStep
<1>5. ASSUME NEW k \in Callers, CallFails(k) PROVE LockInv'
  BY <1>0, <1>3, <1>5, DriverAppAssumption DEF CallFails, TypeOK
<1>6. ASSUME NEW k \in Callers, AppStep(k) PROVE LockInv'
  <2>1. CASE PollAnswered(k)
    <3>0. At(k, "found") /\ UNCHANGED <<status, blind, faults>>
      BY <2>1 DEF PollAnswered, PollFindsNone, PollFindsShown, PollFindsOther, appFrame,
         historyVars, screenVars
    <3>1. CASE PollFindsNone(k)
      <4>1. CASE activeTrip = None
        <5>1. \E c : Becomes(k, c)
          BY <1>0, <3>1, <4>1, Moves DEF PollFindsNone
        <5> QED BY <1>1, <3>0, <3>1, <4>1, <5>1 DEF PollFindsNone, At
      <4>2. CASE activeTrip # None
        BY <1>2, <3>1, <4>2 DEF PollFindsNone
      <4> QED BY <4>1, <4>2
    <3>2. CASE PollFindsShown(k)
      BY <3>2 DEF PollFindsShown, LockInv
    <3>3. CASE PollFindsOther(k)
      <4>1. \E c : Becomes(k, c)
        BY <1>0, <3>3, Moves DEF PollFindsOther
      <4> QED BY <1>1, <3>0, <3>3, <4>1 DEF PollFindsOther, At, screenVars
    <3> QED BY <2>1, <3>1, <3>2, <3>3 DEF PollAnswered
  <2>2. CASE Hydrated(k)
    <3>1. activeTrip' # None
      BY <1>0, <2>2 DEF Hydrated, CallsOK, Carries, At
    <3> QED BY <3>1 DEF LockInv
  <2>3. CASE StatusArrives(k)
    BY <2>3 DEF StatusArrives, LockInv
  <2>4. CASE TapAnswered(k)
    <3>1. At(k, "answered") /\ UNCHANGED <<status, blind, faults>> /\ Carries(calls[k])
          /\ calls[k].op \in RideTaps
      BY <1>0, <2>4 DEF TapAnswered, appFrame, historyVars, CallsOK
    <3>2. CASE End(k) /\ UNCHANGED activeTrip
      <4>1. \E c : Becomes(k, c)
        BY <1>0, <3>2, Moves
      <4> QED BY <1>1, <3>1, <3>2, <4>1 DEF At
    <3>3. CASE activeTrip' = [id |-> calls[k].ride, status |-> Target(calls[k].op)]
      <4>1. activeTrip' \in [id : Rides, status : RideStatus]
        BY <3>1, <3>3 DEF Carries, Target, RideStatus
      <4> QED BY <4>1, DriverAppAssumption DEF LockInv
    <3> QED BY <1>2, <2>4, <3>2, <3>3 DEF TapAnswered
  <2>5. CASE ToggleAnswered(k)
    <3>1. At(k, "answered") /\ End(k) /\ UNCHANGED <<activeTrip, blind, faults>>
      BY <2>5 DEF ToggleAnswered, appFrame, historyVars
    <3>2. CASE UNCHANGED status
      <4>1. \E c : Becomes(k, c)
        BY <1>0, <3>1, Moves
      <4> QED BY <1>1, <3>1, <3>2, <4>1 DEF At
    <3>3. CASE status' # status
      BY <2>5, <3>3 DEF ToggleAnswered, LockInv
    <3> QED BY <3>2, <3>3
  <2> QED BY <1>6, <2>1, <2>2, <2>3, <2>4, <2>5 DEF AppStep
\* A call begins.
<1>7. ASSUME NEW k \in Callers, At(k, "idle"), UNCHANGED <<status, activeTrip, blind, faults>>,
             \/ \E op, pc, r : Send(k, op, pc, r)
             \/ \E value : Got(k, "found", value)
      PROVE  LockInv'
  <2>1. \E c : Becomes(k, c)
    BY <1>0, <1>7, Moves
  <2> QED BY <1>1, <1>7, <2>1 DEF At
<1>8. ASSUME NEW r \in Rides, DispatchReserves(r) \/ MatchArrives(r) \/ RiderCancels(r)
      PROVE  LockInv'
  <2>1. UNCHANGED <<status, activeTrip, blind, faults>>
    BY <1>8 DEF DispatchReserves, MatchArrives, RiderCancels, historyVars, serviceFrame, screenVars
  <2>2. CASE UNCHANGED calls
    BY <2>1, <2>2 DEF LockInv
  <2>3. CASE \E k \in {"rider", "dispatch"} : \E op, x : At(k, "idle") /\ Send(k, op, "patch", x)
    BY <1>7, <1>P, <2>1, <2>3
  <2> QED BY <1>8, <2>2, <2>3 DEF DispatchReserves, MatchArrives, RiderCancels
<1>9. ASSUME NEW k \in Polls, Poll(k) PROVE LockInv'
  BY <1>7, <1>9, <1>P DEF Poll, Free, appFrame, historyVars, screenVars
<1>10. ASSUME NEW k \in Taps, Toggle(k) PROVE LockInv'
  BY <1>7, <1>10, <1>P DEF Toggle, appFrame, historyVars, screenVars
<1>11. ASSUME NEW k \in Taps, NEW op \in RideTaps, Tap(k, op) PROVE LockInv'
  BY <1>7, <1>11, <1>P DEF Tap, appFrame, historyVars, screenVars
<1>12. ASSUME CancelCommits PROVE LockInv'
  <2>1. /\ At("rider", "commit") /\ End("rider")
        /\ UNCHANGED <<status, activeTrip, blind, faults>>
    BY <1>12 DEF CancelCommits, historyVars, serviceFrame, screenVars
  <2>2. \E c : Becomes("rider", c)
    BY <1>0, <1>P, <2>1, Moves
  <2> QED BY <1>1, <1>P, <2>1, <2>2 DEF At
<1>13. CASE UNCHANGED vars
  BY <1>13 DEF vars, LockInv
<1> QED BY <1>4, <1>5, <1>6, <1>8, <1>9, <1>10, <1>11, <1>12, <1>13 DEF Next

\* A driver is locked out of the toggle only by a status that arrived BUSY at
\* a screen without a ride, or by a call that failed.
THEOREM LockedOutIsBlind == Spec => []LockedOutOnlyIfBlind
<1>1. Init => LockInv
  BY DEF Init, LockInv
<1>2. LockInv => LockedOutOnlyIfBlind
  BY DEF LockInv, LockedOutOnlyIfBlind, At
<1>3. CallInv /\ LockInv /\ [Next]_vars => CallInv' /\ LockInv'
  BY CallNext, LockNext
<1> QED BY <1>1, <1>2, <1>3, CallInit, PTL DEF Spec

-----------------------------------------------------------------------------
\* The row follows the ride.  The row and the ride differ exactly by the
\* PATCHes that the services still owe, and those are in order.

Debt(k) == calls[k].pc \in {"patch", "patchWrite"} /\ calls[k].op \in BackendOps
NoDebt == \A k \in Callers : ~Debt(k)

OneDebt(ops, r) ==
    \E k \in Callers :
        /\ Debt(k) /\ calls[k].op \in ops /\ calls[k].ride = r
        /\ \A j \in Callers : Debt(j) => j = k

\* A ride that is complete before Driver Service has heard of its start.
TwoDebts(r) ==
    \E j, k \in Callers :
        /\ Debt(j) /\ calls[j].op = "start" /\ calls[j].ride = r
        /\ At(k, "patch") /\ calls[k].op = "complete" /\ calls[k].ride = r
        /\ \A i \in Callers : Debt(i) => i \in {j, k}

\* The ride whose cancellation is about to commit: the row has forgotten it.
Left == IF At("rider", "commit") THEN {calls["rider"].ride} ELSE {}

\* Nobody is being driven; the next ride may be promised, or one that was
\* promised has gone and left the row RESERVED.
Vacant ==
    /\ NoDebt /\ Active \subseteq Left /\ row # "ON_TRIP"
    /\ promised = {} \/ (row = "RESERVED" /\ \E r \in Rides : promised = {r})

Waiting == {"MATCHED", "DRIVER_ARRIVING", "DRIVER_ARRIVED"}

Held(r) ==
    /\ row = "RESERVED"
    /\ \/ trip[r] \in Waiting /\ (NoDebt \/ OneDebt({"cancel"}, r))
       \/ trip[r] = "IN_PROGRESS" /\ OneDebt({"start"}, r)
       \/ trip[r] = "COMPLETED" /\ TwoDebts(r)
       \/ trip[r] = "CANCELLED" /\ OneDebt({"decline"}, r)

Riding(r) ==
    /\ row = "ON_TRIP"
    /\ \/ trip[r] = "IN_PROGRESS" /\ NoDebt
       \/ trip[r] = "COMPLETED" /\ OneDebt({"complete"}, r)

Taken(r) ==
    /\ Active \subseteq {r} /\ promised = {} /\ ~At("rider", "commit")
    /\ Held(r) \/ Riding(r)

OneWrite == \A j, k \in Callers : At(j, "patchWrite") /\ At(k, "patchWrite") => j = k

WriteIsLegal ==
    \A k \in Callers :
        At(k, "patchWrite") => canTransitionDriverStatus(row, PatchTo(calls[k].op))

DebtsAreTheGap == Vacant \/ \E r \in Rides : Taken(r)

RowOK == OneWrite /\ WriteIsLegal /\ DebtsAreTheGap

RowInv == ~raced /\ ~unmarked /\ faults = 0 => RowOK

\* The debts of calls that stay where they are.
LEMMA DebtsKept ==
    ASSUME \A j \in Callers : (Debt(j)' <=> Debt(j)) /\ (Debt(j) => calls'[j] = calls[j])
    PROVE  /\ NoDebt' <=> NoDebt
           /\ \A ops : \A r : OneDebt(ops, r) => OneDebt(ops, r)'
           /\ \A r : TwoDebts(r) => TwoDebts(r)'
<1>1. NoDebt' <=> NoDebt
  BY DEF NoDebt
<1>2. ASSUME NEW ops, NEW r, OneDebt(ops, r) PROVE OneDebt(ops, r)'
  BY <1>2 DEF OneDebt
<1>3. ASSUME NEW r, TwoDebts(r) PROVE TwoDebts(r)'
  <2>1. PICK j \in Callers, i \in Callers :
          /\ Debt(j) /\ calls[j].op = "start" /\ calls[j].ride = r
          /\ At(i, "patch") /\ calls[i].op = "complete" /\ calls[i].ride = r
          /\ \A x \in Callers : Debt(x) => x \in {j, i}
    BY <1>3 DEF TwoDebts
  <2>2. Debt(i) /\ i # j
    BY <2>1 DEF Debt, At, BackendOps
  <2>3. calls'[i] = calls[i]
    BY <2>1, <2>2 DEF At
  <2>4. Debt(j)' /\ calls'[j].op = "start" /\ calls'[j].ride = r
    BY <2>1
  <2> QED BY <2>1, <2>3, <2>4 DEF TwoDebts, At
<1> QED BY <1>1, <1>2, <1>3

\* What is kept when debts, rides and row are.
LEMMA GapKept ==
    ASSUME RowOK, UNCHANGED <<trip, row, promised>>, Left' = Left,
           NoDebt' <=> NoDebt,
           \A ops : \A r : OneDebt(ops, r) => OneDebt(ops, r)',
           \A r : TwoDebts(r) => TwoDebts(r)'
    PROVE  DebtsAreTheGap'
<1>1. Active' = Active
  BY DEF Active
<1>2. CASE Vacant
  BY <1>1, <1>2 DEF Vacant, DebtsAreTheGap
<1>3. ASSUME NEW r \in Rides, Taken(r) PROVE DebtsAreTheGap'
  <2>1. Held(r) => Held(r)'
    BY DEF Held
  <2>2. Riding(r) => Riding(r)'
    BY DEF Riding
  <2>3. ~At("rider", "commit")'
    BY <1>3 DEF Taken, Left
  <2> QED BY <1>1, <1>3, <2>1, <2>2, <2>3 DEF Taken, DebtsAreTheGap
<1> QED BY <1>2, <1>3 DEF RowOK, DebtsAreTheGap

\* A step that moves no PATCH.
LEMMA QuietStep ==
    ASSUME RowOK, NEW k \in Callers, NEW c, Becomes(k, c), UNCHANGED <<trip, row, promised>>,
           ~Debt(k), c.pc # "patchWrite", c.pc = "patch" => c.op \notin BackendOps,
           calls[k].pc # "commit", c.pc # "commit"
    PROVE  RowOK'
<1>1. \A j \in Callers : calls'[j] = IF j = k THEN c ELSE calls[j]
  BY DEF Becomes
<1>2. \A j \in Callers : /\ Debt(j)' <=> Debt(j)
                         /\ Debt(j) => calls'[j] = calls[j]
  BY <1>1 DEF Debt
<1>3. OneWrite' /\ WriteIsLegal'
  BY <1>1 DEF RowOK, OneWrite, WriteIsLegal, At
<1>4. /\ NoDebt' <=> NoDebt
      /\ \A ops : \A r : OneDebt(ops, r) => OneDebt(ops, r)'
      /\ \A r : TwoDebts(r) => TwoDebts(r)'
  BY <1>2, DebtsKept
<1>5. Left' = Left
  <2>1. "rider" \in Callers
    BY DEF Callers
  <2> QED BY <1>1, <2>1 DEF Left, At
<1>6. DebtsAreTheGap'
  BY <1>4, <1>5, GapKept
<1> QED BY <1>3, <1>6 DEF RowOK

\* Whose ride it is when one is under way that is not being cancelled.
LEMMA TheRide ==
    ASSUME RowOK, NEW r \in Active, ~At("rider", "commit") \/ calls["rider"].ride # r
    PROVE  Taken(r)
<1>1. ~Vacant
  BY DEF Vacant, Left
<1>2. PICK x \in Rides : Taken(x)
  BY <1>1 DEF RowOK, DebtsAreTheGap
<1>3. x = r
  BY <1>2 DEF Taken
<1> QED BY <1>2, <1>3

\* A debt of the rider's cancellation locks the ride.
LEMMA CancelLocks ==
    ASSUME CallInv, NEW r, OneDebt({"cancel"}, r)
    PROVE  Locked(r) /\ ~At("rider", "idle")
<1>1. PICK k \in Callers : Debt(k) /\ calls[k].op = "cancel" /\ calls[k].ride = r
  BY DEF OneDebt
<1>2. k = "rider"
  BY <1>1 DEF CallInv, CallsOK, Mine
<1> QED BY <1>1, <1>2 DEF Locked, Debt, At

\* A ride operation owes a PATCH, of which the row is the other side.
LEMMA RideStep ==
    ASSUME CallInv, RowOK, NEW k \in Callers, k # "rider", NEW c, Becomes(k, c),
           NEW r \in Active, ~Locked(r),
           NEW s, trip' = [trip EXCEPT ![r] = s], UNCHANGED <<row, promised>>,
           calls[k].pc \notin {"patch", "patchWrite"}, c.ride = r,
           \/ /\ c.pc \notin {"patch", "patchWrite"}
              /\ trip[r] \in {"MATCHED", "DRIVER_ARRIVING"}
              /\ s \in {"DRIVER_ARRIVING", "DRIVER_ARRIVED"}
           \/ /\ c.pc = "patch" /\ c.op = "start"
              /\ trip[r] = "DRIVER_ARRIVED" /\ s = "IN_PROGRESS"
           \/ /\ c.pc = "patch" /\ c.op = "complete"
              /\ trip[r] = "IN_PROGRESS" /\ s = "COMPLETED"
           \/ /\ c.pc = "patch" /\ c.op = "decline"
              /\ trip[r] \in Waiting /\ s = "CANCELLED"
    PROVE  RowOK'
<1>0. /\ r \in Rides /\ trip[r] \in Under /\ trip'[r] = s
      /\ \A x \in Rides : x # r => trip'[x] = trip[x]
  BY DEF Active, CallInv, TypeOK
<1>1. /\ \A j \in Callers : calls'[j] = IF j = k THEN c ELSE calls[j]
      /\ calls'["rider"] = calls["rider"]
  BY DEF Becomes, Callers
<1>2. /\ \A j \in Callers : j # k => (Debt(j)' <=> Debt(j)) /\ calls'[j] = calls[j]
      /\ ~Debt(k)
  BY <1>1 DEF Debt
<1>3. OneWrite' /\ WriteIsLegal'
  BY <1>1 DEF RowOK, OneWrite, WriteIsLegal, At
<1>4. Taken(r)
  <2>1. ~At("rider", "commit") \/ calls["rider"].ride # r
    BY DEF Locked, At
  <2> QED BY <2>1, TheRide
<1>5. Active' \subseteq {r} /\ promised' = {} /\ ~At("rider", "commit")'
  BY <1>0, <1>1, <1>4 DEF Taken, Active, At
<1> SUFFICES Held(r)' \/ Riding(r)'
  BY <1>0, <1>3, <1>5 DEF RowOK, DebtsAreTheGap, Taken
<1>6. CASE trip[r] \in Waiting
  <2>1. row = "RESERVED" /\ NoDebt
    BY <1>4, <1>6, CancelLocks DEF Taken, Held, Riding, Waiting
  <2>2. CASE c.pc \notin {"patch", "patchWrite"}
    <3>1. NoDebt'
      BY <1>1, <1>2, <2>1, <2>2 DEF NoDebt, Debt
    <3>2. s \in Waiting
      BY <2>2 DEF Waiting
    <3> QED BY <1>0, <2>1, <3>1, <3>2 DEF Held
  <2>3. CASE c.pc = "patch" /\ c.op \in {"start", "decline"}
    <3>1. Debt(k)' /\ calls'[k] = c
      BY <1>1, <2>3 DEF Debt, BackendOps
    <3>2. \A j \in Callers : Debt(j)' => j = k
      BY <1>2, <2>1 DEF NoDebt
    <3>3. OneDebt({c.op}, r)'
      BY <3>1, <3>2 DEF OneDebt
    <3>4. CASE c.op = "start"
      <4>1. s = "IN_PROGRESS" /\ OneDebt({"start"}, r)'
        BY <2>3, <3>3, <3>4
      <4> QED BY <1>0, <2>1, <4>1 DEF Held
    <3>5. CASE c.op = "decline"
      <4>1. s = "CANCELLED" /\ OneDebt({"decline"}, r)'
        BY <2>3, <3>3, <3>5
      <4> QED BY <1>0, <2>1, <4>1 DEF Held
    <3> QED BY <2>3, <3>4, <3>5
  <2> QED BY <1>6, <2>2, <2>3 DEF Waiting
<1>7. CASE trip[r] = "IN_PROGRESS"
  <2>1. c.pc = "patch" /\ c.op = "complete" /\ s = "COMPLETED"
    BY <1>7 DEF Waiting
  <2>2. Debt(k)' /\ calls'[k] = c
    BY <1>1, <2>1 DEF Debt, BackendOps
  <2>3. CASE Riding(r)
    <3>1. row = "ON_TRIP" /\ NoDebt
      BY <1>7, <2>3 DEF Riding
    <3>2. \A j \in Callers : Debt(j)' => j = k
      BY <1>2, <3>1 DEF NoDebt
    <3>3. OneDebt({"complete"}, r)'
      BY <2>1, <2>2, <3>2 DEF OneDebt
    <3> QED BY <1>0, <2>1, <3>1, <3>3 DEF Riding
  <2>4. CASE Held(r)
    <3>1. row = "RESERVED" /\ OneDebt({"start"}, r)
      BY <1>7, <2>4 DEF Held, Waiting
    <3>2. PICK j \in Callers : /\ Debt(j) /\ calls[j].op = "start" /\ calls[j].ride = r
                               /\ \A i \in Callers : Debt(i) => i = j
      BY <3>1 DEF OneDebt
    <3>3. j # k /\ calls'[j] = calls[j] /\ Debt(j)'
      BY <1>2, <3>2
    <3>5. \A i \in Callers : Debt(i)' => i \in {j, k}
      BY <1>2, <3>2
    <3>6. TwoDebts(r)'
      BY <2>1, <2>2, <3>2, <3>3, <3>5 DEF TwoDebts, At
    <3> QED BY <1>0, <2>1, <3>1, <3>6 DEF Held
  <2> QED BY <1>4, <2>3, <2>4 DEF Taken
<1> QED BY <1>0, <1>6, <1>7 DEF Under, Waiting

\* So does the rider's cancellation of it, which keeps the ride until it commits.
LEMMA CancelStep ==
    ASSUME CallInv, RowOK, NEW r \in Active, RiderCancels(r)
    PROVE  RowOK'
<1> DEFINE c == [op |-> "cancel", pc |-> "patch", ride |-> r, got |-> None]
<1>1. /\ At("rider", "idle") /\ Send("rider", "cancel", "patch", r)
      /\ UNCHANGED <<trip, row, promised>>
      /\ <<trip[r], "CANCELLED">> \in RideTransitions
  BY DEF RiderCancels, canTransitionRideStatus, matchVars
<1>2. r \in Rides /\ trip[r] \in Waiting
  BY <1>1 DEF RideTransitions, Active, Under, Waiting
<1>3. Becomes("rider", c) /\ "rider" \in Callers
  BY <1>1, Moves DEF CallInv, Callers
<1>4. c.pc = "patch" /\ c.op = "cancel" /\ c.ride = r
  OBVIOUS
<1> HIDE DEF c
<1>5. \A j \in Callers : calls'[j] = IF j = "rider" THEN c ELSE calls[j]
  BY <1>3 DEF Becomes
<1>6. Taken(r)
  BY <1>1, TheRide DEF At
<1>7. row = "RESERVED" /\ NoDebt
  BY <1>1, <1>2, <1>6, CancelLocks DEF Taken, Held, Riding, Waiting
<1>8. OneWrite' /\ WriteIsLegal'
  BY <1>1, <1>4, <1>5 DEF RowOK, OneWrite, WriteIsLegal, At
<1>9. OneDebt({"cancel"}, r)'
  <2>1. Debt("rider")' /\ calls'["rider"] = c
    BY <1>3, <1>4, <1>5 DEF Debt, BackendOps
  <2>2. \A j \in Callers : Debt(j)' => j = "rider"
    BY <1>5, <1>7 DEF NoDebt, Debt
  <2> QED BY <1>3, <1>4, <2>1, <2>2 DEF OneDebt
<1>10. Held(r)'
  BY <1>1, <1>2, <1>7, <1>9 DEF Held
<1>11. Active' \subseteq {r} /\ promised' = {} /\ ~At("rider", "commit")'
  BY <1>1, <1>3, <1>4, <1>5, <1>6 DEF Taken, Active, At
<1> QED BY <1>2, <1>8, <1>10, <1>11 DEF RowOK, DebtsAreTheGap, Taken

-----------------------------------------------------------------------------
\* The row's PATCHes

\* The read of a PATCH whose write is allowed: it is in the same order after.
LEMMA ReadStep ==
    ASSUME RowOK, NEW k \in Callers, At(k, "patch"), NEW c, Becomes(k, c),
           c.pc = "patchWrite", c.op = calls[k].op, c.ride = calls[k].ride,
           UNCHANGED <<trip, row, promised>>,
           canTransitionDriverStatus(row, PatchTo(calls[k].op)),
           ~Overtakes(k), \A j \in Callers : j # k => ~At(j, "patchWrite")
    PROVE  RowOK'
<1>1. \A j \in Callers : calls'[j] = IF j = k THEN c ELSE calls[j]
  BY DEF Becomes
<1>2. \A j \in Callers : /\ Debt(j)' <=> Debt(j)
                         /\ calls'[j].op = calls[j].op /\ calls'[j].ride = calls[j].ride
                         /\ j # k => calls'[j] = calls[j]
  BY <1>1 DEF Debt, At
<1>3. OneWrite' /\ WriteIsLegal'
  BY <1>1, <1>2 DEF OneWrite, WriteIsLegal, At
<1>4. /\ NoDebt' <=> NoDebt
      /\ \A ops : \A r : OneDebt(ops, r) => OneDebt(ops, r)'
  <2>1. NoDebt' <=> NoDebt
    BY <1>2 DEF NoDebt
  <2>2. ASSUME NEW ops, NEW r, OneDebt(ops, r) PROVE OneDebt(ops, r)'
    BY <1>2, <2>2 DEF OneDebt
  <2> QED BY <2>1, <2>2
<1>5. ASSUME NEW r, TwoDebts(r) PROVE TwoDebts(r)'
  <2>1. PICK j \in Callers, i \in Callers :
          /\ Debt(j) /\ calls[j].op = "start" /\ calls[j].ride = r
          /\ At(i, "patch") /\ calls[i].op = "complete" /\ calls[i].ride = r
          /\ \A x \in Callers : Debt(x) => x \in {j, i}
    BY <1>5 DEF TwoDebts
  <2>2. i # k
    <3>1. ASSUME i = k PROVE FALSE
      <4>1. j # k
        BY <2>1, <3>1
      <4>2. At(j, "patch")
        BY <2>1, <4>1 DEF Debt, At
      <4> QED BY <2>1, <3>1, <4>2 DEF Overtakes
    <3> QED BY <3>1
  <2>3. /\ Debt(j)' /\ calls'[j].op = "start" /\ calls'[j].ride = r
        /\ calls'[i] = calls[i]
    BY <1>2, <2>1, <2>2
  <2> QED BY <1>2, <2>1, <2>3 DEF TwoDebts, At
<1>6. Left' = Left
  <2>1. "rider" \in Callers
    BY DEF Callers
  <2> QED BY <1>1, <2>1 DEF Left, At
<1>7. DebtsAreTheGap'
  BY <1>4, <1>5, <1>6, GapKept
<1> QED BY <1>3, <1>7 DEF RowOK

\* What a PATCH that is owed says about the ride and the row.
LEMMA DebtIsDue ==
    ASSUME RowOK, NEW k \in Callers, Debt(k)
    PROVE  \E r \in Rides :
             /\ Taken(r) /\ calls[k].ride = r
             /\ \/ /\ calls[k].op = "start" /\ row = "RESERVED"
                   /\ \/ trip[r] = "IN_PROGRESS" /\ OneDebt({"start"}, r)
                      \/ trip[r] = "COMPLETED" /\ TwoDebts(r)
                \/ /\ calls[k].op = "complete" /\ trip[r] = "COMPLETED"
                   /\ \/ row = "RESERVED" /\ At(k, "patch") /\ TwoDebts(r)
                      \/ row = "ON_TRIP" /\ OneDebt({"complete"}, r)
                \/ /\ calls[k].op = "decline" /\ trip[r] = "CANCELLED"
                   /\ row = "RESERVED" /\ OneDebt({"decline"}, r)
                \/ /\ calls[k].op = "cancel" /\ trip[r] \in Waiting
                   /\ row = "RESERVED" /\ OneDebt({"cancel"}, r)
<1>1. PICK r \in Rides : Taken(r)
  BY DEF RowOK, DebtsAreTheGap, Vacant, NoDebt
<1>2. ~NoDebt
  BY DEF NoDebt
<1>3. \A ops : OneDebt(ops, r) => calls[k].op \in ops /\ calls[k].ride = r
  BY DEF OneDebt
<1>4. TwoDebts(r) => /\ calls[k].ride = r
                     /\ \/ calls[k].op = "start"
                        \/ calls[k].op = "complete" /\ At(k, "patch")
  BY DEF TwoDebts
<1>5. CASE Held(r)
  <2>1. CASE trip[r] = "IN_PROGRESS" /\ OneDebt({"start"}, r)
    <3>1. calls[k].op = "start" /\ calls[k].ride = r
      BY <1>3, <2>1
    <3> QED BY <1>1, <1>5, <2>1, <3>1 DEF Held
  <2>2. CASE trip[r] = "COMPLETED" /\ TwoDebts(r)
    BY <1>1, <1>4, <1>5, <2>2 DEF Held
  <2>3. CASE trip[r] = "CANCELLED" /\ OneDebt({"decline"}, r)
    <3>1. calls[k].op = "decline" /\ calls[k].ride = r
      BY <1>3, <2>3
    <3> QED BY <1>1, <1>5, <2>3, <3>1 DEF Held
  <2>4. CASE trip[r] \in Waiting /\ OneDebt({"cancel"}, r)
    <3>1. calls[k].op = "cancel" /\ calls[k].ride = r
      BY <1>3, <2>4
    <3> QED BY <1>1, <1>5, <2>4, <3>1 DEF Held
  <2> QED BY <1>2, <1>5, <2>1, <2>2, <2>3, <2>4 DEF Held
<1>6. CASE Riding(r)
  <2>1. trip[r] = "COMPLETED" /\ OneDebt({"complete"}, r) /\ row = "ON_TRIP"
    BY <1>2, <1>6 DEF Riding
  <2>2. calls[k].op = "complete" /\ calls[k].ride = r
    BY <1>3, <2>1
  <2> QED BY <1>1, <2>1, <2>2
<1> QED BY <1>1, <1>5, <1>6 DEF Taken

\* So Driver Service refuses none of them.
LEMMA DebtIsLegal ==
    ASSUME RowOK, NEW k \in Callers, Debt(k)
    PROVE  canTransitionDriverStatus(row, PatchTo(calls[k].op))
<1>1. \/ calls[k].op = "start" /\ row = "RESERVED"
      \/ calls[k].op \in {"complete", "decline", "cancel"} /\ row \in {"RESERVED", "ON_TRIP"}
  BY DebtIsDue
<1> QED BY <1>1 DEF canTransitionDriverStatus, DriverTransitions, PatchTo

\* The write of a PATCH, when nothing raced: it settles what it owes.
LEMMA WriteStep ==
    ASSUME CallInv, RowOK, NEW k \in Callers, PatchWrite(k), ~raced'
    PROVE  RowOK'
<1>0. /\ TypeOK /\ At(k, "patchWrite") /\ Patched(k, "ok") /\ "rider" \in Callers
      /\ row' = PatchTo(calls[k].op) /\ UNCHANGED trip
      /\ canTransitionDriverStatus(row, PatchTo(calls[k].op))
      /\ calls[k].op \in BackendOps \cup Toggles \cup {"match"}
      /\ calls[k].op \in OtherOps => calls[k].ride \in Rides
      /\ k = "rider" <=> calls[k].op = "cancel"
  BY DEF CallInv, PatchWrite, CallsOK, Carries, Mine, At, Callers, RowOK, WriteIsLegal
<1>P. promised' = IF calls[k].op = "match" THEN promised \cup {calls[k].ride} ELSE promised
  BY <1>0, PatchEnds DEF At
<1>1. PICK c : /\ Becomes(k, c)
               /\ CASE calls[k].op = "match"  -> c.pc = "idle"
                    [] calls[k].op = "cancel" -> c.pc = "commit" /\ c.ride = calls[k].ride
                    [] OTHER                  -> c.pc = "answered"
  BY <1>0, PatchEnds DEF At
<1>2. /\ \A j \in Callers : calls'[j] = IF j = k THEN c ELSE calls[j]
      /\ Active' = Active
  BY <1>0, <1>1 DEF Becomes, Active
<1>3. /\ ~Debt(k)'
      /\ \A j \in Callers : j # k => (Debt(j)' <=> Debt(j)) /\ calls'[j] = calls[j]
  BY <1>1, <1>2 DEF Debt
<1>4. OneWrite' /\ WriteIsLegal'
  <2>1. c.pc # "patchWrite"
    BY <1>1
  <2>2. \A j \in Callers : calls'[j].pc # "patchWrite"
    BY <1>0, <1>2, <2>1 DEF RowOK, OneWrite, At
  <2> QED BY <2>2 DEF OneWrite, WriteIsLegal, At
<1>L. k # "rider" => Left' = Left
  BY <1>0, <1>2 DEF Left, At
<1>5. CASE calls[k].op = "match"
  <2>1. row = "AVAILABLE" /\ row' = "RESERVED"
    BY <1>0, <1>5 DEF PatchTo, canTransitionDriverStatus, DriverTransitions
  <2>2. Vacant /\ promised = {}
    BY <2>1 DEF RowOK, DebtsAreTheGap, Taken, Held, Riding, Vacant
  <2>3. NoDebt'
    BY <1>3, <2>2 DEF Vacant, NoDebt
  <2>4. Left' = Left
    BY <1>0, <1>5, <1>L
  <2>5. promised' = {calls[k].ride} /\ calls[k].ride \in Rides
    BY <1>0, <1>5, <1>P, <2>2 DEF OtherOps
  <2> QED BY <1>2, <1>4, <2>1, <2>2, <2>3, <2>4, <2>5 DEF RowOK, DebtsAreTheGap, Vacant
<1>6. CASE calls[k].op \in Toggles
  <2>1. Active = {} /\ promised = {} /\ ~Owed(Callers \ {k})
    BY <1>6 DEF PatchWrite, Busy
  <2>2. NoDebt'
    BY <1>3, <2>1 DEF NoDebt, Debt, Owed
  <2>3. row' \in {"AVAILABLE", "OFFLINE"} /\ promised' = {}
    BY <1>0, <1>6, <1>P, <2>1 DEF PatchTo, Toggles
  <2> QED BY <1>2, <1>4, <2>1, <2>2, <2>3 DEF RowOK, DebtsAreTheGap, Vacant
<1>7. CASE calls[k].op \in BackendOps
  <2>0. Debt(k)
    BY <1>0, <1>7 DEF Debt, At
  <2>1. PICK r \in Rides :
          /\ Taken(r) /\ calls[k].ride = r
          /\ \/ /\ calls[k].op = "start" /\ row = "RESERVED"
                /\ \/ trip[r] = "IN_PROGRESS" /\ OneDebt({"start"}, r)
                   \/ trip[r] = "COMPLETED" /\ TwoDebts(r)
             \/ /\ calls[k].op = "complete" /\ trip[r] = "COMPLETED"
                /\ \/ row = "RESERVED" /\ At(k, "patch") /\ TwoDebts(r)
                   \/ row = "ON_TRIP" /\ OneDebt({"complete"}, r)
             \/ /\ calls[k].op = "decline" /\ trip[r] = "CANCELLED"
                /\ row = "RESERVED" /\ OneDebt({"decline"}, r)
             \/ /\ calls[k].op = "cancel" /\ trip[r] \in Waiting
                /\ row = "RESERVED" /\ OneDebt({"cancel"}, r)
    BY <2>0, DebtIsDue
  <2>2. Active' \subseteq {r} /\ trip'[r] = trip[r] /\ promised' = {}
    BY <1>0, <1>2, <1>7, <1>P, <2>1 DEF Taken, BackendOps
  <2>3. \A ops : OneDebt(ops, r) => NoDebt'
    BY <1>3, <2>0 DEF OneDebt, NoDebt
  <2>4. CASE calls[k].op = "start"
    <3>0. row' = "ON_TRIP"
      BY <1>0, <2>4 DEF PatchTo
    <3>1. ~At("rider", "commit")'
      BY <1>0, <1>2, <2>1, <2>4 DEF Taken, At
    <3>2. CASE trip[r] = "IN_PROGRESS" /\ OneDebt({"start"}, r)
      <4>1. Riding(r)'
        BY <2>2, <2>3, <3>0, <3>2 DEF Riding
      <4> QED BY <1>4, <2>2, <3>1, <4>1 DEF RowOK, DebtsAreTheGap, Taken
    <3>3. CASE trip[r] = "COMPLETED" /\ TwoDebts(r)
      <4>1. PICK j \in Callers, i \in Callers :
              /\ Debt(j) /\ calls[j].op = "start"
              /\ At(i, "patch") /\ calls[i].op = "complete" /\ calls[i].ride = r
              /\ \A x \in Callers : Debt(x) => x \in {j, i}
        BY <3>3 DEF TwoDebts
      <4>2. k = j /\ i # k /\ Debt(i)
        BY <2>0, <2>4, <4>1 DEF Debt, At, BackendOps
      <4>3. /\ Debt(i)' /\ calls'[i].op = "complete" /\ calls'[i].ride = r
            /\ \A x \in Callers : Debt(x)' => x = i
        BY <1>3, <4>1, <4>2
      <4>4. OneDebt({"complete"}, r)'
        BY <4>3 DEF OneDebt
      <4>5. Riding(r)'
        BY <2>2, <3>0, <3>3, <4>4 DEF Riding
      <4> QED BY <1>4, <2>2, <3>1, <4>5 DEF RowOK, DebtsAreTheGap, Taken
    <3> QED BY <2>1, <2>4, <3>2, <3>3
  <2>5. CASE calls[k].op # "start"
    <3>1. row' = "AVAILABLE"
      BY <1>0, <1>7, <2>5 DEF PatchTo, BackendOps
    <3>2. NoDebt'
      BY <1>0, <2>1, <2>3, <2>5 DEF At
    <3>3. CASE calls[k].op = "cancel"
      <4>1. Left' = {r}
        BY <1>0, <1>1, <1>2, <2>1, <3>3 DEF Left, At
      <4> QED BY <1>4, <2>2, <3>1, <3>2, <4>1 DEF RowOK, DebtsAreTheGap, Vacant
    <3>4. CASE calls[k].op # "cancel"
      <4>1. trip[r] \in {"COMPLETED", "CANCELLED"}
        BY <2>1, <2>5, <3>4
      <4>2. Active' = {}
        BY <2>2, <4>1 DEF Active, Under
      <4> QED BY <1>4, <2>2, <3>1, <3>2, <4>2 DEF RowOK, DebtsAreTheGap, Vacant
    <3> QED BY <3>3, <3>4
  <2> QED BY <2>4, <2>5
<1> QED BY <1>0, <1>5, <1>6, <1>7

-----------------------------------------------------------------------------
\* The rides that are matched, or leave

\* Trip Service consumes the match: the ride is there, or nothing is.
LEMMA MatchStep ==
    ASSUME CallInv, RowOK, NEW r \in Rides, MatchArrives(r)
    PROVE  RowOK'
<1>1. /\ r \in promised /\ At("rider", "idle") /\ promised' = promised \ {r}
      /\ UNCHANGED <<row, calls>> /\ trip \in [Rides -> RideStatus]
  BY DEF MatchArrives, CallInv, TypeOK
<1>2. Vacant
  BY <1>1 DEF RowOK, DebtsAreTheGap, Taken
<1>3. /\ NoDebt /\ Active = {} /\ row = "RESERVED" /\ promised' = {} /\ ~At("rider", "commit")
  BY <1>1, <1>2 DEF Vacant, Left, At
<1>4. OneWrite' /\ WriteIsLegal' /\ NoDebt' /\ ~At("rider", "commit")'
  BY <1>1, <1>3 DEF RowOK, OneWrite, WriteIsLegal, NoDebt, Debt, At
<1>5. CASE UNCHANGED trip
  <2>1. Active' = {}
    BY <1>3, <1>5 DEF Active
  <2> QED BY <1>1, <1>3, <1>4, <2>1 DEF RowOK, DebtsAreTheGap, Vacant
<1>6. CASE trip' = [trip EXCEPT ![r] = "MATCHED"]
  <2>1. trip'[r] \in Waiting /\ Active' \subseteq {r}
    BY <1>1, <1>3, <1>6 DEF Active, Waiting
  <2>2. Held(r)'
    BY <1>1, <1>3, <1>4, <2>1 DEF Held
  <2> QED BY <1>3, <1>4, <2>1, <2>2 DEF RowOK, DebtsAreTheGap, Taken
<1> QED BY <1>5, <1>6 DEF MatchArrives

\* A ride that was not matched is cancelled: nothing of the driver's changes.
LEMMA UnmatchedStep ==
    ASSUME CallInv, RowOK, NEW r \in Rides, r \notin Active, RiderCancels(r)
    PROVE  RowOK'
<1>1. /\ trip' = [trip EXCEPT ![r] = "CANCELLED"] /\ UNCHANGED <<row, promised, calls>>
      /\ trip \in [Rides -> RideStatus] /\ <<trip[r], "CANCELLED">> \in RideTransitions
  BY DEF RiderCancels, canTransitionRideStatus, matchVars, CallInv, TypeOK
<1>2. trip[r] = "MATCHING"
  BY <1>1 DEF RideTransitions, Active, Under
<1>3. Active' = Active /\ \A x \in Rides : x # r => trip'[x] = trip[x]
  BY <1>1, <1>2 DEF Active, Under
<1>4. /\ OneWrite' /\ WriteIsLegal' /\ (NoDebt' <=> NoDebt) /\ Left' = Left
      /\ \A ops : \A x : OneDebt(ops, x) => OneDebt(ops, x)'
      /\ \A x : TwoDebts(x) => TwoDebts(x)'
  BY <1>1 DEF RowOK, OneWrite, WriteIsLegal, NoDebt, OneDebt, TwoDebts, Debt, Left, At
<1>5. CASE Vacant
  BY <1>1, <1>3, <1>4, <1>5 DEF Vacant, RowOK, DebtsAreTheGap
<1>6. ASSUME NEW x \in Rides, Taken(x) PROVE RowOK'
  <2>1. x # r
    BY <1>2, <1>6 DEF Taken, Held, Riding, Waiting
  <2>2. trip'[x] = trip[x]
    BY <1>3, <2>1
  <2>3. Held(x) => Held(x)'
    BY <1>1, <1>4, <2>2 DEF Held
  <2>4. Riding(x) => Riding(x)'
    BY <1>1, <1>4, <2>2 DEF Riding
  <2>5. ~At("rider", "commit")'
    BY <1>1, <1>6 DEF Taken, At
  <2> QED BY <1>1, <1>3, <1>4, <1>6, <2>3, <2>4, <2>5 DEF Taken, RowOK, DebtsAreTheGap
<1> QED BY <1>5, <1>6 DEF RowOK, DebtsAreTheGap

\* The cancellation commits: the ride follows the row.
LEMMA CommitStep ==
    ASSUME CallInv, RowOK, CancelCommits
    PROVE  RowOK'
<1> DEFINE c == [op |-> None, pc |-> "idle", ride |-> None, got |-> None]
<1>1. /\ At("rider", "commit") /\ End("rider") /\ "rider" \in Callers
      /\ trip' = [trip EXCEPT ![calls["rider"].ride] = "CANCELLED"]
      /\ UNCHANGED <<row, promised>> /\ trip \in [Rides -> RideStatus]
  BY DEF CancelCommits, matchVars, CallInv, TypeOK, Callers
<1>2. Becomes("rider", c)
  BY <1>1, Moves DEF CallInv
<1>3. c.pc = "idle"
  OBVIOUS
<1> HIDE DEF c
<1>4. \A j \in Callers : calls'[j] = IF j = "rider" THEN c ELSE calls[j]
  BY <1>2 DEF Becomes
<1>5. Vacant /\ Active \subseteq {calls["rider"].ride}
  BY <1>1 DEF RowOK, DebtsAreTheGap, Taken, Vacant, Left
<1>6. Active' = {}
  BY <1>1, <1>5 DEF Active, Under
<1>7. OneWrite' /\ WriteIsLegal' /\ NoDebt'
  BY <1>1, <1>3, <1>4, <1>5 DEF RowOK, OneWrite, WriteIsLegal, Vacant, NoDebt, Debt, At
<1> QED BY <1>1, <1>5, <1>6, <1>7 DEF RowOK, DebtsAreTheGap, Vacant

-----------------------------------------------------------------------------
\* The row's invariant

LEMMA RowInit == Init => RowInv
<1> SUFFICES ASSUME Init PROVE RowOK
  BY DEF RowInv
<1>1. \A k \in Callers : calls[k].pc \in {"idle", "resync"}
  BY DEF Init, Idle, Syncing
<1>2. OneWrite /\ WriteIsLegal /\ NoDebt
  BY <1>1 DEF OneWrite, WriteIsLegal, NoDebt, Debt, At
<1>3. promised = {} /\ ~At("rider", "commit")
  <2>1. "rider" \in Callers
    BY DEF Callers
  <2> QED BY <1>1, <2>1 DEF Init, At
<1>4. DebtsAreTheGap
  <2>1. CASE trip = [r \in Rides |-> "MATCHING"] /\ row \in {"OFFLINE", "AVAILABLE"}
    BY <1>2, <1>3, <2>1 DEF Active, Under, Vacant, DebtsAreTheGap
  <2>2. ASSUME NEW r \in Rides, NEW s \in Under,
               trip = [x \in Rides |-> IF x = r THEN s ELSE "MATCHING"],
               row = IF s = "IN_PROGRESS" THEN "ON_TRIP" ELSE "RESERVED"
        PROVE  DebtsAreTheGap
    <3>1. trip[r] = s /\ Active \subseteq {r}
      BY <2>2 DEF Active, Under
    <3>2. Held(r) \/ Riding(r)
      BY <1>2, <2>2, <3>1 DEF Held, Riding, Under, Waiting
    <3> QED BY <1>3, <3>1, <3>2 DEF DebtsAreTheGap, Taken
  <2> QED BY <2>1, <2>2 DEF Init
<1> QED BY <1>2, <1>4 DEF RowOK

LEMMA RowNext == CallInv /\ RowInv /\ [Next]_vars => RowInv'
<1> SUFFICES ASSUME CallInv, CallInv', RowInv, [Next]_vars, ~raced', ~unmarked', faults' = 0
             PROVE  RowOK'
  BY CallNext DEF RowInv
<1>0. TypeOK /\ CallsOK
  BY DEF CallInv
<1>P. /\ {"rider", "dispatch"} \subseteq Callers /\ Polls \subseteq Callers /\ Taps \subseteq Callers
      /\ {"rider", "dispatch"} \cap (Polls \cup Taps) = {} /\ "rider" # "dispatch"
  BY DriverAppAssumption DEF Callers
\* A call moves, and no PATCH with it.
<1>1. ASSUME RowOK, NEW k \in Callers, NEW c, Becomes(k, c), UNCHANGED <<trip, row, promised>>,
             calls[k].pc \notin {"patch", "patchWrite", "commit"},
             c.pc \notin {"patch", "patchWrite", "commit"}
      PROVE  RowOK'
  BY <1>1, QuietStep DEF Debt
<1>2. ASSUME NEW k \in Callers, ServiceStep(k) PROVE RowOK'
  <2>0. RowOK
    BY <1>2 DEF ServiceStep, Serve, PatchRead, PatchWrite, ReadStatus, historyVars, RowInv
  <2>1. CASE Serve(k)
    <3>1. PICK c :
            /\ Becomes(k, c) /\ c.op = calls[k].op /\ c.ride = calls[k].ride
            /\ \/ UNCHANGED trip /\ c.pc = "answered"
               \/ /\ calls[k].ride \in Active
                  /\ canTransitionRideStatus(trip[calls[k].ride], Target(calls[k].op))
                  /\ trip' = [trip EXCEPT ![calls[k].ride] = Target(calls[k].op)]
                  /\ IF calls[k].op \in {"accept", "arrived"}
                     THEN c.pc = "answered" ELSE c.pc = "patch"
      BY <2>1, Served
    <3>2. /\ k # "rider" /\ calls[k].op \in RideTaps /\ UNCHANGED <<row, promised>>
          /\ calls[k].pc \notin {"patch", "patchWrite", "commit"} /\ ~Locked(calls[k].ride)
      BY <2>1, Served DEF Serve, At, matchVars
    <3>3. CASE UNCHANGED trip /\ c.pc = "answered"
      BY <1>1, <2>0, <3>1, <3>2, <3>3
    <3>4. CASE ~(UNCHANGED trip /\ c.pc = "answered")
      <4>1. PICK r : r = calls[k].ride
        OBVIOUS
      <4>2. PICK s : s = Target(calls[k].op)
        OBVIOUS
      <4>3. /\ r \in Active /\ trip' = [trip EXCEPT ![r] = s] /\ c.ride = r /\ ~Locked(r)
            /\ <<trip[r], s>> \in RideTransitions /\ trip[r] \in Under
        BY <3>1, <3>2, <3>4, <4>1, <4>2 DEF canTransitionRideStatus, Active
      <4>4. \/ /\ c.pc \notin {"patch", "patchWrite"}
               /\ trip[r] \in {"MATCHED", "DRIVER_ARRIVING"}
               /\ s \in {"DRIVER_ARRIVING", "DRIVER_ARRIVED"}
            \/ /\ c.pc = "patch" /\ c.op = "start"
               /\ trip[r] = "DRIVER_ARRIVED" /\ s = "IN_PROGRESS"
            \/ /\ c.pc = "patch" /\ c.op = "complete"
               /\ trip[r] = "IN_PROGRESS" /\ s = "COMPLETED"
            \/ /\ c.pc = "patch" /\ c.op = "decline"
               /\ trip[r] \in Waiting /\ s = "CANCELLED"
        BY <3>1, <3>2, <3>4, <4>2, <4>3 DEF RideTaps, Target, RideTransitions, Under, Waiting
      <4> QED BY <2>0, <3>1, <3>2, <4>3, <4>4, RideStep
    <3> QED BY <3>3, <3>4
  <2>2. CASE PatchRead(k)
    <3>1. /\ At(k, "patch") /\ UNCHANGED <<trip, row>> /\ ~Overtakes(k)
          /\ \A j \in Callers : j # k => ~At(j, "patchWrite")
      BY <2>2 DEF PatchRead
    <3>2. CASE canTransitionDriverStatus(row, PatchTo(calls[k].op))
      <4> DEFINE c == [op |-> calls[k].op, pc |-> "patchWrite",
                       ride |-> calls[k].ride, got |-> calls[k].got]
      <4>1. Becomes(k, c) /\ UNCHANGED promised
        BY <1>0, <2>2, <3>2, Moves DEF PatchRead
      <4>2. c.pc = "patchWrite" /\ c.op = calls[k].op /\ c.ride = calls[k].ride
        OBVIOUS
      <4> HIDE DEF c
      <4> QED BY <2>0, <3>1, <3>2, <4>1, <4>2, ReadStep
    <3>3. CASE ~canTransitionDriverStatus(row, PatchTo(calls[k].op))
      <4>1. /\ calls[k].pc \in {"patch", "patchWrite"} /\ Patched(k, "refused")
            /\ calls[k].op # "match"
        BY <2>2, <3>1, <3>3 DEF PatchRead, At
      <4>2. ~Debt(k)
        BY <2>0, <3>3, DebtIsLegal
      <4>3. calls[k].op # "cancel" /\ promised' = promised
        BY <4>1, <4>2, PatchEnds DEF Debt, BackendOps
      <4>4. PICK c : Becomes(k, c) /\ c.pc = "answered"
        BY <4>1, <4>3, PatchEnds
      <4>5. calls[k].pc # "commit"
        BY <4>1
      <4> QED BY <2>0, <3>1, <4>2, <4>3, <4>4, <4>5, QuietStep
    <3> QED BY <3>2, <3>3
  <2>3. CASE PatchWrite(k)
    BY <2>0, <2>3, WriteStep
  <2>4. CASE ReadStatus(k)
    <3>1. /\ At(k, "resync") /\ Got(k, "resynced", row) /\ UNCHANGED <<trip, row, promised>>
      BY <2>4 DEF ReadStatus, backendVars, matchVars
    <3>2. Becomes(k, [op |-> calls[k].op, pc |-> "resynced", ride |-> calls[k].ride, got |-> row])
      BY <1>0, <3>1, Moves
    <3> QED BY <1>1, <2>0, <3>1, <3>2 DEF At
  <2> QED BY <1>2, <2>1, <2>2, <2>3, <2>4 DEF ServiceStep
<1>3. ASSUME NEW k \in Callers, CallFails(k) PROVE RowOK'
  BY <1>0, <1>3 DEF CallFails, TypeOK
<1>4. ASSUME NEW k \in Callers, AppStep(k) PROVE RowOK'
  <2>0. RowOK /\ UNCHANGED <<trip, row, promised>>
    BY <1>4 DEF AppStep, PollAnswered, Hydrated, StatusArrives, TapAnswered, ToggleAnswered,
       appFrame, backendVars, matchVars, historyVars, RowInv
  <2>1. calls[k].pc \in {"found", "hydrate", "resynced", "answered"}
    BY <1>4 DEF AppStep, PollAnswered, Hydrated, StatusArrives, TapAnswered, ToggleAnswered, At
  <2>3. End(k) \/ Resync(k) \/ Goto(k, "hydrate")
    BY <1>4 DEF AppStep, PollAnswered, PollFindsNone, PollFindsShown, PollFindsOther, Hydrated,
       StatusArrives, TapAnswered, ToggleAnswered
  <2>4. PICK c : Becomes(k, c) /\ c.pc \in {"idle", "resync", "hydrate"}
    <3> DEFINE c(pc, op, r, got) == [op |-> op, pc |-> pc, ride |-> r, got |-> got]
    <3>1. /\ End(k) => Becomes(k, c("idle", None, None, None))
          /\ Resync(k) => Becomes(k, c("resync", None, None, None))
          /\ Goto(k, "hydrate") =>
               Becomes(k, c("hydrate", calls[k].op, calls[k].ride, calls[k].got))
      BY <1>0, Moves
    <3>2. \A pc, op, r, got : c(pc, op, r, got).pc = pc
      OBVIOUS
    <3> HIDE DEF c
    <3> QED BY <2>3, <3>1, <3>2
  <2> QED BY <1>1, <2>0, <2>1, <2>4
<1>5. ASSUME NEW r \in Rides, DispatchReserves(r) PROVE RowOK'
  <2> DEFINE c == [op |-> "match", pc |-> "patch", ride |-> r, got |-> None]
  <2>1. /\ At("dispatch", "idle") /\ Send("dispatch", "match", "patch", r)
        /\ UNCHANGED <<trip, row, promised>> /\ RowOK
    BY <1>5 DEF DispatchReserves, historyVars, RowInv
  <2>2. Becomes("dispatch", c)
    BY <1>0, <1>P, <2>1, Moves
  <2>3. c.pc = "patch" /\ c.op \notin BackendOps /\ ~Debt("dispatch")
        /\ calls["dispatch"].pc # "commit"
    BY <2>1 DEF BackendOps, Debt, At
  <2> HIDE DEF c
  <2> QED BY <1>P, <2>1, <2>2, <2>3, QuietStep
<1>6. ASSUME NEW r \in Rides, RiderCancels(r) \/ MatchArrives(r) PROVE RowOK'
  <2>1. RowOK
    BY <1>6 DEF RiderCancels, MatchArrives, historyVars, RowInv
  <2> QED BY <1>6, <2>1, CancelStep, UnmatchedStep, MatchStep
<1>7. ASSUME CancelCommits PROVE RowOK'
  BY <1>7, CommitStep DEF CancelCommits, historyVars, RowInv
<1>8. ASSUME NEW k \in Polls, Poll(k) PROVE RowOK'
  <2>1. /\ At(k, "idle") /\ Got(k, "found", ActiveTrip) /\ UNCHANGED <<trip, row, promised>> /\ RowOK
    BY <1>8 DEF Poll, Free, appFrame, backendVars, matchVars, historyVars, RowInv
  <2>2. Becomes(k, [op |-> calls[k].op, pc |-> "found", ride |-> calls[k].ride, got |-> ActiveTrip])
    BY <1>0, <1>P, <2>1, Moves
  <2> QED BY <1>1, <1>P, <2>1, <2>2 DEF At
<1>9. ASSUME NEW k \in Taps, Toggle(k) PROVE RowOK'
  <2>1. /\ At(k, "idle") /\ UNCHANGED <<trip, row, promised>> /\ RowOK
    BY <1>9 DEF Toggle, appFrame, backendVars, matchVars, historyVars, RowInv
  <2>2. PICK op \in Toggles : Send(k, op, "patch", None)
    BY <1>9 DEF Toggle, Toggles
  <2> DEFINE c == [op |-> op, pc |-> "patch", ride |-> None, got |-> None]
  <2>3. Becomes(k, c)
    BY <1>0, <1>P, <2>2, Moves
  <2>4. c.pc = "patch" /\ c.op \notin BackendOps /\ ~Debt(k) /\ calls[k].pc # "commit"
    BY <2>1 DEF Toggles, BackendOps, Debt, At
  <2> HIDE DEF c
  <2> QED BY <1>P, <2>1, <2>3, <2>4, QuietStep
<1>10. ASSUME NEW k \in Taps, NEW op \in RideTaps, Tap(k, op) PROVE RowOK'
  <2>1. /\ At(k, "idle") /\ Send(k, op, "sent", activeTrip.id)
        /\ UNCHANGED <<trip, row, promised>> /\ RowOK
    BY <1>10 DEF Tap, appFrame, backendVars, matchVars, historyVars, RowInv
  <2>2. Becomes(k, [op |-> op, pc |-> "sent", ride |-> activeTrip.id, got |-> None])
    BY <1>0, <1>P, <2>1, Moves
  <2> QED BY <1>1, <1>P, <2>1, <2>2 DEF At
<1>11. CASE UNCHANGED vars
  <2>1. UNCHANGED <<trip, row, promised, calls, raced, unmarked, faults>>
    BY <1>11 DEF vars, matchVars
  <2>2. RowOK
    BY <2>1 DEF RowInv
  <2>3. /\ OneWrite' /\ WriteIsLegal' /\ (NoDebt' <=> NoDebt) /\ Left' = Left
        /\ \A ops : \A x : OneDebt(ops, x) => OneDebt(ops, x)'
        /\ \A x : TwoDebts(x) => TwoDebts(x)'
    BY <2>1, <2>2 DEF RowOK, OneWrite, WriteIsLegal, NoDebt, OneDebt, TwoDebts, Debt, Left, At
  <2> QED BY <2>1, <2>2, <2>3, GapKept DEF RowOK
<1> QED BY <1>2, <1>3, <1>4, <1>5, <1>6, <1>7, <1>8, <1>9, <1>10, <1>11 DEF Next

\* Without failures, unless two PATCHes raced or Dispatch's own was refused,
\* Driver Service shows the driver RESERVED from the match to the pickup and
\* ON_TRIP until the end, whenever no PATCH is on its way and no cancellation
\* about to commit: for any number of rides, polls and taps.
THEOREM RowIsTheRide == Spec => []RowFollowsTrip
<1>1. RowInv => RowFollowsTrip
  <2> SUFFICES ASSUME RowInv, ~Owed(Callers), ~At("rider", "commit"), ~raced, ~unmarked,
                      faults = 0, NEW r \in Active
               PROVE  row = IF trip[r] = "IN_PROGRESS" THEN "ON_TRIP" ELSE "RESERVED"
    BY DEF RowFollowsTrip
  <2>1. RowOK /\ NoDebt
    BY DEF RowInv, NoDebt, Debt, Owed
  <2>2. Held(r) \/ Riding(r)
    BY <2>1, TheRide DEF Taken
  <2>3. trip[r] \in Under /\ \A ops : ~OneDebt(ops, r)
    BY <2>1 DEF Active, NoDebt, OneDebt
  <2>4. /\ Held(r) => row = "RESERVED" /\ trip[r] # "IN_PROGRESS"
        /\ Riding(r) => row = "ON_TRIP" /\ trip[r] = "IN_PROGRESS"
    BY <2>3 DEF Held, Riding, Under, Waiting
  <2> QED BY <2>2, <2>4
<1>2. CallInv /\ RowInv /\ [Next]_vars => CallInv' /\ RowInv'
  BY CallNext, RowNext
<1> QED BY <1>1, <1>2, CallInit, RowInit, PTL DEF Spec

=============================================================================
