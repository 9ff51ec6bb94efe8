----------------------------- MODULE RideStates -----------------------------
(***************************************************************************)
(* The vocabulary every service of RydTrip shares (libraries/event-schema) *)
(* and the two transition tables: rides (Trip Service) and drivers (Driver *)
(* Service).                                                               *)
(***************************************************************************)

\* enum RideStatus
RideStatus ==
    { "REQUESTED", "MATCHING", "MATCHED", "DRIVER_ARRIVING", "DRIVER_ARRIVED",
      "IN_PROGRESS", "COMPLETED", "CANCELLED" }

\* enum DriverStatus
DriverStatus ==
    { "OFFLINE", "AVAILABLE", "RESERVED", "ON_TRIP", "SUSPENDED" }

\* The ALLOWED_TRANSITIONS table of Trip Service, as a relation.
RideTransitions ==
    { <<"REQUESTED", "MATCHING">>,
      <<"MATCHING", "MATCHED">>,               <<"MATCHING", "CANCELLED">>,
      <<"MATCHED", "DRIVER_ARRIVING">>,        <<"MATCHED", "CANCELLED">>,
      <<"DRIVER_ARRIVING", "DRIVER_ARRIVED">>, <<"DRIVER_ARRIVING", "CANCELLED">>,
      <<"DRIVER_ARRIVED", "IN_PROGRESS">>,     <<"DRIVER_ARRIVED", "CANCELLED">>,
      <<"IN_PROGRESS", "COMPLETED">> }

canTransitionRideStatus(from, to) == <<from, to>> \in RideTransitions

\* The ALLOWED_TRANSITIONS table of Driver Service; self-transitions are
\* absent from it, so a repeated request is refused.
DriverTransitions ==
    { <<"OFFLINE", "AVAILABLE">>,   <<"OFFLINE", "SUSPENDED">>,
      <<"AVAILABLE", "OFFLINE">>,   <<"AVAILABLE", "RESERVED">>,
      <<"AVAILABLE", "SUSPENDED">>,
      <<"RESERVED", "AVAILABLE">>,  <<"RESERVED", "ON_TRIP">>,
      <<"ON_TRIP", "AVAILABLE">>,
      <<"SUSPENDED", "OFFLINE">> }

canTransitionDriverStatus(from, to) == <<from, to>> \in DriverTransitions

=============================================================================
