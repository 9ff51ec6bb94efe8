# RydTrip in TLA+

Specifications of RydTrip, the ride-hailing system in this repository, with the
TLC configurations that check them and TLAPS proofs of the main theorems.
Paths are relative to the repository root; the reader is assumed to have it
open beside these files.

RydTrip is a TypeScript monorepo: six NestJS services, five small libraries, a
React web client and one operational script. Its difficulty is not in any one
function. It is in what happens *between* parts that share nothing but Kafka
topics, Redis keys, best-effort HTTP calls and, in the browser, one store:
messages delivered twice or in an unexpected order, processes that die between
two writes, read-check-write sequences that other writers interleave with, and
answers that come back to a screen which has moved on. That is what is modelled.

## 1. Inventory

```
 rider  --POST /rides-->  Rider Service --ride.requested / ride.cancelled--+
                                                                           v
 driver --ping--> Location Service --> Redis GEO <--search-- Dispatch   Trip Service
                                       Redis reservations <--SET NX--+      ^   ^
                                       Redis processed marks <-------+      |   |
                          Driver Service <--PATCH status (best effort)------+   |
                                       Dispatch --driver.reserved/rejected------+
 rider, driver --accept, decline, arrived, start, complete, cancel--------------+
```

| Component (source) | State | Operations | What is hard | What makes it correct |
|---|---|---|---|---|
| **Event consumer loop** (`libraries/event-schema/src/kafka/consumer.ts`) | position, committed offset, attempt, Dead Letter Topic | fetch, retry with back-off, park, auto-commit | crash between resolve and commit, parking that fails, poison messages | at-least-once: nothing committed that was not handled or parked; no blocked partition |
| **Event publisher** (`.../kafka/publisher.ts`) | none | publish with a fresh `eventId` | a retried send is stored twice | consumers absorb duplicates |
| **Trip Service** (`services/trip-service/src/trips`) | `rides`, `trip_events`, `processed_events` | accept, decline, arrived, start, complete, cancel over HTTP; four Kafka topics | unlocked read-check-write, no order between topics, HTTP call inside a transaction | rides follow the state table, each event acts once, one driver per ride |
| **Dispatch Service** (`services/dispatch-service/src/dispatch`) | none of its own; reservations and processed marks in Redis | answer a `ride.requested` | no write is atomic with another; rebalances with two members at work | one promise per reservation; every request answered; few answers per request |
| **Redis stores** (`libraries/redis-client/src`) | reservations (TTL), processed marks (24 h), geo set and heartbeats | `tryReserve`, `wasProcessed`, `markProcessed`, `findNearby`, `upsertLocation` | expiry between two commands, eviction against a fresh ping | exclusion while the TTL lasts; only live drivers found |
| **Driver Service** (`services/driver-service/src/drivers`) | drivers and their status | register, login, `updateStatus`, profile | unlocked read-check-write, called best effort by two services and by the driver | status follows its table and mirrors the ride |
| **Rider Service** (`services/rider-service/src`) | riders | register, login, publish `ride.requested` and `ride.cancelled` | fire and forget; an answer may be lost after the effect | the ride it acknowledged is eventually answered |
| **Location Service** (`services/location-service/src`) | none (Redis) | ping, nearby, any-online | three round trips per lookup, pipelines whose errors nobody reads | a driver who pings can be found |
| **Circuit breaker** (`libraries/circuit-breaker/src`) | state, failures, `openedAt` | `execute` | it moves only when somebody calls | opens after the threshold, closes after an outage |
| **API gateway** (`services/api-gateway/src`) | rate-limit windows | rate limit, JWT check, proxy | three places decide when a window is over | limits per window |
| **Driver web app** (`apps/web/src/stores/useDriverStore.ts`, `pages/DriverPage.tsx`) | status, ride shown, calls in flight | poll, toggle, accept, decline, arrived, start, complete | polls overtake each other and the taps | the screen ends up with the ride there is; nobody is locked out |
| **Rider web app** (`apps/web/src/stores/useRideStore.ts`, `pages/RiderPage.tsx`) | ride shown, step, calls in flight | request, cancel, poll, hear the driver's tab | second and third answers of a poll find another ride | code, driver and end shown are those of the ride shown |
| **Booking and session** (`components/booking`, `useBookingStore.ts`, `useAuthStore.ts`) | pickup, destination, text, results, vehicle, login gate | choose, search, detect, look up, confirm, log in | four effects with clean-ups of their own write one store | what is requested is what was confirmed |
| **Dead-letter replay** (`scripts/replay-dlq.ts`) | counters | replay or skip each record | the topic grows while it is read; failed sends; records it cannot read | ends, having sent all that was there, unless nothing readable comes last |
| Observability, health, infrastructure, other pages | - | - | - | not modelled |

Components talk through five Kafka topics (`ride.requested`, `ride.cancelled`,
`driver.reserved`, `driver.rejected`, `driver.location.updated`), two
best-effort HTTP calls to Driver Service, and Redis. Only `driver.location.updated`
has no consumer. The web apps reach the services through the gateway, poll every
four seconds, and hear each other only within one browser (a BroadcastChannel).
All topics have one partition. Deployed replica counts
(`infrastructure/kubernetes/helm/rydtrip/values.yaml`) are 1 for every service
except Dispatch and Location, which scale from 1 to 4.

The hazards this code is exposed to are listed one by one, each with its line
and the properties that watch it, in `PROJECT.json`.

## 2. Modules

| Module | What it is |
|---|---|
| `RideStates` | The two status enums that are shared and both `ALLOWED_TRANSITIONS` tables, as relations. |
| `ConsumerLoop` | State of one `EventConsumer` process and one operator per way a loop step ends. Extended by the three modules below. |
| `AtLeastOnce` | Abstract: what a consumer group promises its broker. |
| `EventConsumer` | The loop over an arbitrary handler; refines `AtLeastOnce`. |
| `DlqReplay` | `EventConsumer` with its Dead Letter Topic and the tool that replays it; refines `AtLeastOnce` too. |
| `TripService` | HTTP requests and the Kafka consumer over the three tables. |
| `DispatchService` | The replicas, their handlers, Redis and the answers on Kafka. |
| `RydTrip` | `TripService` composed with an instance of `DispatchService` over the same topics and the same status column; implements `DispatchService`. |
| `DriverApp` | The driver's app with the rides and the row of one driver. |
| `RiderApp` | The rider's app once a ride is requested, with the rides of one rider. |
| `Booking` | The rider's page before a ride is requested, and the session. |
| `Nearby` | Pings, lookups and eviction in Redis, behind the gateway's rate limit and Dispatch's circuit breaker. |
| `ConsumerLoopProofs`, `DispatchServiceProofs`, `NearbyProofs`, `RiderAppProofs`, `BookingProofs`, `DriverAppProofs` | Theorems and their lemmas, of the module so named. |
| `DlqReplayProofs` | Theorems of `EventConsumer`, and of `DlqReplay`, which extends it. |
| `RydTripProofs` | Theorems of `TripService`, and of `RydTrip`, which extends it. |
| `MCTripService`, `MCDispatchService` | `TripService` and `DispatchService` with the symmetry sets TLC uses. |

Definitions whose comment begins "Variant for the checks" are
deliberately wrong versions of the definition below them. No specification uses
them: each is substituted for the right one to confirm that a property notices.

### ConsumerLoop and EventConsumer

| TLA+ | Code |
|---|---|
| `log[t]` | the topic's partition; `SendTo` is `producer.send` |
| `position[t]`, `committed[t]` | KafkaJS's resolved offset in this process, the group's committed offset |
| `handling`, `attempt` | the running `eachMessage` and the `for` loop's counter |
| `dlt` | records on `<groupId>.dlt`, as (topic, offset) |
| `Fetch` ... `HandlerThrows` | `eachMessage` called; returns; handler throws and is retried or parked |
| `Redeliver` | `parkOnDlq` rejects, so `eachMessage` rejects and KafkaJS fetches the message again |
| `AutoCommit`, `ConsumerRestart` | KafkaJS and Kafka (external): commit of what is resolved; resume from what is committed |

`parkOnDlq` and the loop's return are one step: a crash between them is the same
as a crash before (the record appears on the Dead Letter Topic a second time,
and `dlt` is a set). `EventConsumer` adds the environment: empty values
(skipped), values that are not JSON (parked at once), and a handler that may
throw at every attempt.

### TripService

An action is what runs between two awaits. An HTTP request has a slot of `call`
and a `pc`: `Begin` / `BeginStart` read and check, `CheckOtp` reads the OTP,
`Accept`, `MarkDriverArrived`, `Start`, `Complete` and `Cancel` update the row
*as it is then* (by id alone, as `TripsRepository.transition` does), and
`SyncDriver` is the PATCH. `decline` is `cancel`. The consumer's handlers are
split the same way by `stage`: `"guarded"` after the check, `"updated"` while the
transaction holds the row lock, `"synced"` after the PATCH that `cancel` awaits
*inside* that transaction. A row's update and the `processed_events` insert
become visible together in `CommitEvent`; nothing of an open transaction is
visible before. `RowLocked` is PostgreSQL's row lock: other updates wait, reads
do not. `trail` is the `trip_events` table, with the id of the Kafka event that
caused the row (0 for HTTP) instead of a random one.

Publishers are part of the environment and as free as the code lets them be:
Rider Service may publish a cancellation at any time after the request, and
Dispatch Service any answers, more than one, at any time. `Duplicate` republishes
any message, which covers a producer's retry and `scripts/replay-dlq.ts`.

### DispatchService

`work[m]` is what the handler of member `m` is doing, with one `pc` per await of
`RideRequestedConsumer` and `DispatchService.handleRideRequested`: check the
mark, search, reserve candidate after candidate, sync, publish, mark.
`findNearby` returns any ranking of at most `CandidateLimit` drivers.
`ReservationExpires` may happen at any time; the code's TTL is a configuration
value, and nothing bounds how long a handler or a ride takes.
`Reassign` moves the partition to another member while the old one keeps
working: it may still reserve, publish and mark, but what it resolves is nobody's
offset any more. A ride's `eventId` is identified with the ride, since Rider
Service publishes one `ride.requested` per ride id. `lapsed` is a history
variable.

### DlqReplay

`dltLog` is the Dead Letter Topic as the list of what its records name, one per
`producer.send` of `parkOnDlq` (`dlt` in the loop is the set of them). `tool` is the
script: `high` is the watermark it asked for, `at` the offset it has reached, `seen`
its counter of deliveries. `ToolSkips` and `ToolSends` are its `eachMessage`, which ends in
the test of the counter (`Counted`). A record with no value, or one that is not JSON, returns
before that test (`ToolDiscards`). No group writes such a record, so it comes from outside
(`OthersWrite`, which counts as a fault); a message that was *parked* because it is not JSON is
wrapped in a record that is, has no envelope, and does reach the test. `ToolSendFails` is a send
that throws after the counter was incremented, so that KafkaJS delivers the record again,
although the broker may have stored what was sent; `ToolEnds` is the disconnect, before which
more deliveries may come. The group runs on meanwhile, and parks again what the tool has just
sent if its handler still throws.

### RydTrip

The state of `TripService` plus Dispatch's own variables. A step of Dispatch that
Trip Service can see is a conjunction of one action of each module: publishing an
answer (`DispatchPublishes`) *is* `TripService`'s environment action that appends
it, marking a driver RESERVED (`DispatchSyncs`) *is* the one that changes the status
column. `ImplementsDispatch` says that nothing else happens to Dispatch: Trip Service's own
PATCHes of a driver and its duplicated requests are within the environment `DispatchService` assumes.
Of Trip Service the same holds by the way `SystemNext` is written, and is only a lemma of
`RydTripProofs`. No offsets are committed here, so that a restart sees everything again.

### DriverApp and RiderApp

Both keep every HTTP call as a record in `calls` whose `pc` says where it stands, at
a service, on its way back, or in a later await of the function that made it. What
a function captured before an await is in the record; what it reads from the store
afterwards is the variable. A poll is a call like any other, and `Polls` of them
may be in flight, because the timer does not wait for the last one.

| TLA+ | Code |
|---|---|
| `DriverApp!Poll`, `PollFindsNone`, `PollFindsShown` and the actions after them | `pollActiveTrip` in `useDriverStore.ts`, cut at its awaits |
| `DriverApp!Serve`, `PatchRead`, `PatchWrite` | Trip Service's handler, then Driver Service's read-check-write of the status column |
| `DriverApp!Toggle`, `StatusArrives` | `toggleOnline`, `syncStatusFromBackend` |
| `RiderApp!Show` | a change of the store; it cleans up the polling effect, so polls lose `live`, when the ride's id or status changed |
| `RiderApp!PollFound`, `ContactArrives`, `OtpArrives` | the three awaits of the polling effect in `RiderPage.tsx` |
| `RiderApp!HearDriver` | the page's handler of what a driver's tab posts |
| `DriverApp!DispatchReserves`, `MatchArrives` | Dispatch's reservation and PATCH; Trip Service's `handleDriverReserved` |
| `DriverApp!RiderCancels`, `CancelCommits` | `handleRideCancelled`, whose transaction is open while it PATCHes the driver |
| `RiderApp!matched`, `NeedsContact` | rows with a `driverId`, which a cancellation keeps; an answer that names a driver the screen does not know goes through `getDriverContact`, CANCELLED included |
| `blind`, `raced`, `unmarked`, `stray` | history variables: which of the races the code does not rule out has happened |

Dispatch reads neither the rides nor the row. It takes a driver by his heartbeat and by `SET NX`,
both of which last thirty seconds whatever he is doing, so `DispatchReserves` has no guard but
that Dispatch handles requests in turn: a driver may be reserved while OFFLINE, or in the middle
of another ride. `asked` is the last ride he was reserved for, `promised` the `driver.reserved`
that Trip Service has not consumed. When Driver Service refuses RESERVED (409) Dispatch
publishes all the same, and `unmarked` notes that it happened.

`raced` of `DriverApp` is about the row only: a PATCH reads the row while another is between its
read and its write; a toggle writes while a ride is under way or promised or a PATCH owed; or the
PATCH of a complete overtakes the one of the start of the same ride (`Overtakes`). The third needs
a long history to do harm: the start's PATCH, left behind, is refused while the driver has no ride
and succeeds when the *next* ride is reserved, which then shows ON_TRIP before the rider is picked
up. With one ride nothing of it can be seen, and `driver_app` has one; `RowFollowsTrip` is a theorem
for any number of rides. (TLC agrees for two rides, one poll, one tap and one failed call, with the
liveness and without `Load`, in 1.6 million states.)

`stray` of `RiderApp` is about ends. A contact that comes back after the rider has requested the
next ride is written to that ride, with the status the poll had read, and so is a cancellation. A
driver or a status put on the wrong ride in this way is repaired by the next poll, and
`DriverSettles` and `ScreenCatchesUp` say so without exempting them. An end is not, because it
stops the polling; `stray` is true as long as the screen shows such an end, and no longer.

### Booking

One variable per field of the two stores and of the component states that feed them. The
clean-ups of the effects are part of the action that causes them: `PickupBecomes` cancels the
lookup in flight (it becomes `stale`) and begins the next, `InputBecomes` drops the timer and
the fetches of `usePlaceSearch`. `Detected` is the end of `detectCurrentLocation`, which writes
the pickup without asking. The destination's text is not kept; a swap may bring any text to the
pickup's input, since anything may have been typed there. `gate` holds what the screen showed
when the rider tapped Confirm, and `call.for` takes it along, so that `RequestIsAsConfirmed` can
compare.

### Nearby

`geo` is the GEO set, `fresh` the heartbeat keys that have not expired. A lookup is
`Search`, `Check`, `Evict`, `Answer`: one action per round trip to Redis, for the
rider's page and for Dispatch at once; "any online" has `Position` besides. Drivers are numbered
by distance, so `First` is `GEOSEARCH ... ASC COUNT`, and `Radius` says how many of them are within
the radius: Dispatch's (5 km, `DispatchReach`) is the smallest, then come the page's first
(10 km, `PageReach`) and its second (50 km, everybody). `Check` with Redis down is a pipeline
whose errors count as missing heartbeats; a single command that fails is `Fails`. `findNearbyVehicle`
is up to three requests, the last for the vehicle (`GetVehicle`), each of which the gateway counts
and may refuse (`Refused`). `breaker` is `CircuitBreaker`, `window` is the gateway's counter, with
a count of its own by the clock (`through`) to compare.

## 3. Runs

| Run | Question | Bounds and why they are enough |
|---|---|---|
| `event_consumer` (`DlqReplay`) | Does the loop deliver at least once, whatever the handler does, and does the replay tool read everything? | 2 topics (offsets are committed together and must not mix), 1 message published on each and 1 more replayed, 2 attempts (a retry and a last one), 1 crash, failed parking, failed send or unreadable record, 1 run of the tool, which starts at any time |
| `trip_requests` | What survives unlocked read-check-writes? | 1 ride (rows are independent), 2 requests beside the consumer (three writers of one row), 2 events, 2 attempts, 1 fault |
| `trip_consumer` | Do events take effect once, never change a driver, and always arrive? | 3 events, so that two answers can compete for a ride, 2 drivers, 2 faults (duplicates, rollbacks, restarts), no requests: those run in `trip_requests` |
| `trip_race` | Can a trip in progress be cancelled? **Violated**, see section 6 | 2 requests, no fault |
| `dispatch` | Is a reserved driver promised once, and every request answered? | 2 rides for 2 drivers, 2 members, 1 attempt (a failure parks), 1 fault (failed step, restart, reassignment or duplicate). With 2 attempts, when a retry meets the reservation its first attempt made, TLC agrees (397,008 states); but then one fault never parks |
| `dispatch_redelivery` | Does a redelivery never cause a second answer? **Violated**, see section 6 | 1 member, 1 ride, 2 drivers, 1 restart |
| `rydtrip` | Do the two services together keep what each assumes, and what neither can promise alone? | 2 rides for 1 driver (the double booking needs no second driver), 1 member, 3 messages per topic, and 1 trouble: a cancellation, an expired reservation or a fault of either service |
| `driver_app` | Does the driver's row follow the ride, and does the screen end up with it? | 1 ride (what takes two is proved, see `raced` above), 2 polls (one overtakes the other), 1 tap or toggle, 1 failed call, no more than 3 of these at once (`Load`), beside the rider's cancellation and a Dispatch that may take the driver at any time |
| `rider_app` | Are code, driver and end shown those of the ride shown? | 2 rides (a late answer needs another ride to hit) and 2 polls (one overtakes the other), at most 3 of both together (`Load`: two polls while there is one ride, one when there are two; a cancellation begins only below it too), beside a request, a cancellation and the message of a tab that drives the first ride |
| `nearby` | Can a driver who pings be found? | 2 drivers within every radius: each request of the page asks for 1, so that a stale member hides a live driver from it, and Dispatch takes both; 2 callers, a window of 1 request and a threshold of 2 failures |
| `booking` | Is what is requested what was confirmed? | 2 places, 1 detection beside the rider's taps |
| `clobber` | Does a detection never replace an explicit choice? **Violated**, see section 6 | as `booking` |

Every bound is a CONSTANT that guards the environment only; no guard of the code is bounded.
`MaxLog`, `MaxEvents` and `MaxPublished` bound messages, `MaxFaults` and `MaxDFaults` faults
(the latter Dispatch's own in `RydTrip`), `MaxTroubles` all faults, expiries and cancellations
of `RydTrip` together, `MaxRides`, `MaxDrivers`, `Polls`, `Taps` and `Detections` how many there
are of each, `Load` in `RiderApp` rides and polls, in `DriverApp` calls of the page and failures, together, and `Tab` and `Told` which drivers are tabs of
this browser and which steps they post. Code values are reduced: 3 attempts to 2 or 1, the
candidate limit 5 to 2 or 1, the breaker's threshold 5 to 2, the gateway's limit to 1.
`MaxTroubles = 1` means that `rydtrip` covers every single thing that can go wrong, at every
point, and no combination of two; with two the state space outgrows what can be checked in
minutes. `trip_consumer` covers two at a time for Trip Service alone. Deadlock is not checked:
when the environment's bounds are used up the system rightly stops. Symmetry is used only in
`trip_requests`, which checks no liveness.

Properties, and what could break each:

* `NothingDropped` (`EventConsumer`, `TripService`, `DispatchService`): an early
  return, a swallowed error or an eager commit would lose a message. Through
  faults, everything committed took effect or is on the Dead Letter Topic.
* `ImplementsAtLeastOnce`, `EventuallyCommitted`: the refinement, and that a
  poison message does not hold up what comes after it.
* `ReplayReadsAll`, `ReplayEnds`: the tool, which decides that it is done by counting
  deliveries, ends, and having ended has sent every record that can be. The first
  does not hold once a send has thrown: the counter then runs ahead of the
  offset. The property says so (`tool.erred`). The second does not hold while what is at the
  end of the topic cannot be read (`Stranded`).
* `NoLegSkipped`: the state table is *not* respected by consecutive writes (two
  requests can pass the same check, and `trip_race` shows one result). What does
  hold is weaker and is what a trip needs: a ride reaches a status only if at
  some earlier time it had one from which the table allows it.
* `DriverIffMatched`, `DriverNeverReassigned`: relate the row to its audit trail
  and to its past, over duplicated and competing `driver.reserved` events.
* `OnTripOnlyIfStarted`: relates Driver Service to Trip Service through lost and
  refused PATCHes and through rolled-back transactions.
* `ExactlyOnce`: relates `processed_events`, the audit trail and each event.
* `AnswerReachesRide`: no order between topics loses an answer.
* `PromisedOnce`: over all members, retries and redeliveries, one answer at
  most names a driver whose reservation has not run out.
* `MarkedIsAnswered`, `AnswersBounded`, `EventuallyAnswered`: an answer before
  the mark, at most one answer more per fault, and some answer (or a parked
  message) in the end.
* `NoDoubleBookingUnlessLapsed`: the README's "preventing double-booking", which
  Redis, Kafka and PostgreSQL keep together and only until the reservation lapses.
* `ReservedIsExplained`: without faults, a driver is shown RESERVED for nobody only by a
  `driver.reserved` that found its ride cancelled.
* `ImplementsDispatch`: every step of the composition is a step of Dispatch's own
  specification, so the environment it assumes was not too narrow.
* `RideSettles`: across both services, no ride stays in MATCHING for ever without a
  parked message about it.
* `RowFollowsTrip`: Driver Service's row mirrors the ride, whatever state the driver was
  reserved in, except where Dispatch's RESERVED was refused, or PATCHes overlapped or failed;
  `LockedOutOnlyIfBlind`: BUSY without a ride, from which the toggle offers no way out, comes
  about in one way only; `ScreenReconciles`: "next poll reconciles".
* `CodeIsOfRide`, `EndIsTrue`: second and third awaits of a poll write to whatever ride is
  shown by then. The code is checked against the ride by the page; an end is not, and `stray`
  marks exactly those.
* `ScreenCatchesUp`, `DriverSettles`: however polls, contacts and messages overtake each other, the
  status and the driver of a ride that is still polled end up being its own.
* `FreshIsListed`: `ZREM` of what looked stale against a ping; `raced` marks the drivers who
  lost that race. `LookupsFind`: they, and all others, are found again once things settle.
* `WindowHolds`, `CircuitCloses`: sweep against expiry; a breaker that moves only when
  called does close after an outage.
* `RequestIsAsConfirmed`, `ResultsAreForText`, `EstimateIsForPickup`, `LoadingHasLookup`: what four
  effects and a login leave in the store belongs together.

### Fairness

Only what the processes do by themselves is fair, and only weakly.

* Consumers: the loop takes some message while there is one, a handler keeps
  executing, and (`EventConsumer` only) auto-commit happens. In `TripService` the row
  lock delays requests, never the consumer. `Take` is fair for all topics together, not for
  each: KafkaJS promises no more. Fairness of Dispatch's `HandlerStep(m)` includes
  awaits that return; a fetch that hangs for ever is not covered.
* `DlqReplay`: deliveries to the tool that do not throw. A send may always fail instead,
  but the bound on faults means that it does not always.
* `RydTrip`: both loops and all handlers (`SystemFairness`).
* `DriverApp`, `RiderApp`: the poll timer, and that some poll or other goes on (not each: one
  may hang for ever); in `RiderApp` also that some cancellation is consumed while there is one.
  No tap's call has to come back.
* `Nearby`: online apps ping, heartbeats lapse, lookups go on, Dispatch is asked again
  and again (rides keep being requested), and the cool-down passes.
* `Booking`: none; it checks no liveness.

Nothing is fair about riders, drivers, publishers, expiry of reservations or faults, and no
handler is assumed to succeed.

## 4. Proofs

All constants are arbitrary, under the named ASSUMEs of the modules: which topics
the group reads, that `None` and `NoTopic` are not values of the other sets, at
least one attempt, one candidate, one failure and one request per window, natural bounds,
finitely many members of Dispatch Service and at least one, radii in their order, that of any rides
of a driver one was created last, and that a poll or a tap is not one of the page's other calls.

`ConsumerLoopProofs` shows once, per loop operator, that it keeps
`LoopInv == ConsumerTypeOK /\ OffsetsOK`; the proofs of the services cite those
lemmas instead of opening the loop again. `RydTripProofs` uses what is proved about Dispatch
Service in the same way: `DispatchProofs` is an INSTANCE of `DispatchServiceProofs` over the
system's variables, `DispatchConstants` proves its assumptions for the constants it is given, and
`SystemImplementsDispatch` proves that the system is one of its behaviours, so that its
theorems are theorems of the system.

| Theorem | Inductive invariant and why it is needed |
|---|---|
| `DlqReplayProofs!TypeCorrect`, `NothingIsDropped` | `ConsumerInv == TypeOK /\ ResolvedIsSettled`. `NothingDropped` speaks of the committed offset, but a commit copies the resolved one, so what must be kept is that everything *resolved* is settled. |
| `DlqReplayProofs!KeepsPromise`, `KeepsPromiseInReplay` | The same invariant, and that the message in hand is in turn (`InHandIsInTurn`); then each step is mapped to a step of `AtLeastOnce` or to a stutter. What the replay tool sends is a `Publish`; its other steps are stutters. |
| `DlqReplayProofs!ReplayTypeCorrect`, `NothingIsDroppedInReplay`, `EverythingIsReplayed` | `ReplayInv == ConsumerInv /\ ToolInv`: what the tool has been given was sent or cannot be, and its counter equals its offset unless a send has thrown. That records stay what they are while the topic grows (`RecordsStay`) is what the group owes the tool. |
| `RydTripProofs!TypeCorrect` | `TypeOK` itself, which includes that a running request has an operation and a ride and that a stage exists only while handling. |
| `RydTripProofs!LegsAreNotSkipped` | `LegInv` adds `StatusIsInTrail` (the current status is in the audit trail), `RequestsChecked` and `HandlerChecked`: a request or handler past its check has *seen* a status that allows its target. The row may have changed since, the trail keeps the evidence. |
| `RydTripProofs!DriverIsKept` | `DriverInv` adds `UnmatchedHasNoDriver` and `MatchIsFirst`: a handler between its check and its write has found the ride in MATCHING, and only the consumer itself, busy with that message, could match it in between. |
| `RydTripProofs!EventsActOnce` | `OnceInv` adds `EventIsFresh` (a cancelling handler looks for its event two awaits before it commits; nobody can record it in between) and `UncreatedHasNoTrail` (the two rows of a ride.requested are the first of their ride). |
| `RydTripProofs!NoEventIsDropped` | `DropInv`: `LegInv`, `OnceInv`, everything *resolved* is recorded or parked (`ResolvedSettled`), and what justifies the early return of a ride.requested: a row exists only because a request for it was recorded (`CreatedByRequest`), and all requests of one ride carry one event id (`OneRequestEach`). |
| `RydTripProofs!DriverComesWithMatch` | `MatchInv`: `DriverInv`, `OnceInv`, and that every `driver.reserved` names a driver (`ReservedNamesDriver`). |
| `RydTripProofs!OnTripMeansStarted` | `OnTripInv` adds `StartIsWritten`: a request about to report a start has the ride's driver in hand and the start in its trail. That both stay so until the PATCH arrives is `DriverIsKept` and that trails only grow (`ReachedStays`). |
| `DispatchServiceProofs!TypeCorrect` | `TypeOK`. |
| `DispatchServiceProofs!DriverIsPromisedOnce` | `PromiseInv`: a driver without a reservation was named by no answer unless one lapsed (`FreeIsUnspoken`), a member that won a driver has not been answered with it yet (`WinnerHasNotAnswered`), and two members hold different drivers (`OneWinner`), all up to `lapsed`; `WonLate` says when a handler holds a driver at all. |
| `DispatchServiceProofs!MarkedOnceAnswered`, `NothingIsDropped` | `AnswerInv`: the owner works on the message its loop holds (`InHand`), a member that marks has answered (`AnsweredBeforeMark`), and everything resolved is answered or parked (`ResolvedIsAnswered`). |
| `DispatchServiceProofs!AnswersAreBounded` | `CostInv`: for each ride, its answers, the members on their way to one (`Busy`) and the copies of its request that would make one if taken (`Open`) together number at most one more than the faults. No step but a fault makes more: taking a request turns an open copy into a busy member, publishing a busy member into an answer, and marking closes all copies. |
| `RydTripProofs!SystemImplementsDispatch` | No invariant but the types: each action of `RydTrip` is mapped to an action of `DispatchService`, those of Trip Service that patch a driver to one of its environment, or to a stutter. (Lemma `SystemIsTrip` does the same for Trip Service, so that its theorems hold in the system.) |
| `RydTripProofs!DriverIsNotDoubleBooked` | `BookingInv`: a ride's driver was named for it by a `driver.reserved`, and every `driver.reserved` carries an answer of Dispatch Service, duplicates included. Two rides with one driver would be two answers naming it, which `DriverIsPromisedOnce` of `DispatchServiceProofs` rules out unless the reservation lapsed. |
| `RydTripProofs!ReservedAreExplained` | `ExplainedInv` and `FreshInv`. The PATCH that frees a driver precedes the commit that cancels its ride, so between the two that ride must explain nothing (`Freed`). That a `driver.reserved` in hand has not been recorded already, and so does match its ride, is `FreshInv`: without faults each event id is on one message, and recorded only with that message behind it. |
| `DriverAppProofs!TypeCorrect` | `CallInv`: what each call carries at each of its steps (`Carries`), and that the app knows only rides that were matched. |
| `DriverAppProofs!LockedOutIsBlind` | `LockInv`: as long as nothing failed, a screen BUSY without a ride has its `blind` set or the call that asks for its status under way; and a status that arrives sets `blind` when it locks. |
| `DriverAppProofs!RowIsTheRide` | `RowInv`: while nothing raced or failed and no RESERVED was refused, at most one PATCH is between read and write and its write is legal, and the driver is either `Vacant` (no PATCH of a ride owed, a promised ride only with the row RESERVED) or `Taken` by one ride, which the row follows up to the owed PATCHes (`DebtsAreTheGap`): none when they agree, the start's or the cancellation's when the row still says RESERVED, the complete's when it says ON_TRIP, and two when a ride is complete before its start was told. Dispatch's own PATCH needs no such place: the row it is allowed from is that of a vacant driver. |
| `NearbyProofs!WindowAlwaysHolds` | `WindowInv`: while a window is open the gateway's counter is what got through it, and the sweep only removes closed ones. |
| `NearbyProofs!TypeCorrect`, `FreshDriversAreListed` | `ListedInv` adds `DoomedIsRaced`: a driver some lookup is about to remove, and who has a heartbeat by now, pinged after that lookup's EXISTS and is in `raced` already. |
| `RiderAppProofs!TypeCorrect`, `CodeIsAlwaysOfRide`, `EndIsAlwaysTrue` | `RiderInv`: an end that is on its way to the screen, in a poll's answer, a cancel's or the tab's message, is known to Trip Service already or will be (`EndKnown`), and stays so, since a ride that has ended does not move (`MoveKeepsKnown`). |
| `BookingProofs!EstimateIsAlwaysForPickup`, `LoadingAlwaysHasLookup` | `OfferInv`: a lookup that counts is for the pickup there is, and nothing is loading while a ride is followed. |
| `BookingProofs!ResultsAreAlwaysForText` | `SearchInv`: what is in flight is for the text there is, and there is no text while the input is unmounted. |
| `BookingProofs!RequestIsAlwaysAsConfirmed` | `GateInv`: what the overlay has captured is what the store has, up to a pickup a detection moved. |

Every invariant, every action property and every refinement the passing runs check is a theorem.
Only model-checked is the liveness, which is out of the prover's reach under fairness:
`EventuallyCommitted`, `ReplayEnds`, `AnswerReachesRide`, `EventuallyAnswered`, `RideSettles`,
`ScreenReconciles`, `ScreenCatchesUp`, `DriverSettles`, `LookupsFind`, `CircuitCloses`.

## 5. Not modelled

* Fares, distances, cancellation reasons, histories, earnings, payment methods, audit
  metadata, maps: data no property tells apart.
* Payload shape checks of the consumers (`is...Payload`): publishers in this
  repository always send the shape, and a malformed payload is a handler that
  throws every time, which `EventConsumer` covers.
* The expiry of processed marks (24 h) and the first start of a consumer group
  on a topic that already has messages (`fromBeginning: false`).
* `DriverReservationStore.release` and `getReservation`, which no service calls, and
  `getPosition` of the geo index, which no lookup uses.
* Overlapping calls of one circuit breaker: each breaker of Dispatch is called by one
  consumer, one call after the other.
* The gateway beyond one address and one class of its rate limit and the policy for
  `POST /rides`: the proxy keeps no state, the other policies are a table.
* The replay tool's dry run, which sends nothing; the destination's search in `Booking`, a second copy
  of the pickup's.
* Pages of the web client without state that others share (`DualViewPage`, `HistoryPage`,
  `ProfilePage`, `MarketingHome`), and the WebSocket client, which has no backend in this
  repository.
* Profile updates and driver documents: single writes that nothing else reads.
* Observability, health probes, infrastructure, seeds.

## 6. Findings

**A trip in progress can be cancelled** (`trip_race`).
`TripsService.cancel` reads the ride and checks the table
(`services/trip-service/src/trips/trips.service.ts:204-205`), then updates the
row by id (`trips.repository.ts:187-188`). A `start` that commits in between is
overwritten, and the driver is told AVAILABLE in mid-trip. The comment in `cancel`
says CANCELLED is reachable "never [from] IN_PROGRESS", and
`ride-state-machine.ts:5` says the transition "is NOT valid". `NoLegSkipped` is
what remains true.

**A redelivery can be dispatched twice** (`dispatch_redelivery`).
`RideRequestedConsumer` says check-then-mark handles sequential redelivery
"correctly" (`ride-requested.consumer.ts:34-37`). A crash after the answer is
published and before `markProcessed` (line 82) leads to a second answer naming
another driver; `AnswersBounded` and `DriverNeverReassigned` say how far the
damage goes: one extra answer per fault, and Trip Service keeps the first driver.

**A detection replaces an explicit choice** (`clobber`). `LocationSearchInputs.tsx:111-112` says
that detecting the position must "never clobber an explicit choice". The page asks whether a
pickup is set only when it starts to detect; the detection awaits the browser's position and an
address, and then sets the pickup without asking again, over one the rider has taken from the
dropdown meanwhile. `RequestIsAsConfirmed` says how far this goes: a pickup that moves behind
the login overlay is requested although the rider confirmed another.

Weaker than one might expect, and stated as such in the properties:

* a reservation runs out whatever the ride is doing (`lapsed`);
* a driver whose RESERVED Driver Service refuses is matched all the same, and his row stays as it
  was (`unmarked`; `dispatch.service.ts:86-93`);
* the replay tool ends early after a send that threw (`tool.erred`), and waits for ever behind a
  last record that it cannot read (`Stranded`; `replay-dlq.ts:79`, `:84-88` and `:109`);
* a lookup may take a driver for stale who has just pinged (`raced` in `Nearby`);
* a contact or a cancellation that is answered late puts the end of an earlier ride on a new one
  and stops its polling (`stray`; `RiderPage.tsx:113-125` and `:199`).

## 7. Plan

Done, in this order: the consumer loop, Trip Service and Dispatch Service with their
theorems; the Dead Letter Topic's replay; the composition `RydTrip`; the two apps; the booking page;
lookups with the breaker and the gateway's window; their theorems; the theorems of the
composition and of the driver's app.

Left, most valuable first:

1. The safety part of the liveness properties as theorems: that no reachable state is stuck with a
   request neither answered nor parked, from `AnswerInv` and `DropInv`.
2. `fromBeginning: false` and the expiry of processed marks, if their durations become something a
   property speaks of.
3. The earnings a driver's app adds up (`useDriverStore.ts:291`), which a second tap on Complete
   counts twice.
